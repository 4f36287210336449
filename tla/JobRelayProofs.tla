--------------------------- MODULE JobRelayProofs ---------------------------
(***************************************************************************)
(* The safety properties of JobRelay, for any pools, algorithms, number of *)
(* workers and bounds, whatever the order in which commands, results and   *)
(* changes of the active pool meet.                                        *)
(*                                                                         *)
(* What makes a late result harmless is its token: set_job never reuses    *)
(* one, so a message, a command or a core's job with the token of the job  *)
(* a pool holds has its content too.  What makes an exit complete is that  *)
(* a retired worker was told to close when its generation ended.           *)
(***************************************************************************)
EXTENDS JobRelay, SequenceTheorems, TLAPS

-----------------------------------------------------------------------------
(* The inductive invariant.                                                *)

JobCommands ==
    [type : {"job"}, algo : Algos, pool : Pools, id : Ids, token : 1 .. MaxToken,
     sound : BOOLEAN, content : 1 .. MaxContent, nonce : Nat]

Commands == JobCommands \cup {[type |-> "pause"], [type |-> "close"]}

ResultMessages ==
    [type : {"result"}, pool : Pools, id : Ids, token : 1 .. MaxToken,
     content : 1 .. MaxContent, nonce : Nat]

PositionMessages ==
    [type : {"last_nonce"}, pool : Pools, id : Ids, token : 1 .. MaxToken, nonce : Nat]

\* What TypeOK leaves open: the functions, the pipes and the dispatched job.
ChannelsTyped ==
    /\ lastJob \in [content : 1 .. MaxContent, algo : Algos, pool : Pools, nonce : Nat]
                      \cup {NoJob}
    /\ down \in [Workers -> Seq(Commands)]
    /\ up \in [Workers -> Seq(ResultMessages \cup PositionMessages)]
    /\ work \in [Workers -> Works \cup {NoWork}]
    /\ sent \in Seq([pool : Pools, id : Ids, content : 1 .. MaxContent, nonce : Nat])

\* With the last token lt and the held jobs h: x was made from a job that was
\* dispatched, and from the held job of its pool if it has that job's token.
Stamped(x, lt, h) ==
    /\ x.token <= lt
    /\ h[x.pool] # NoJob /\ h[x.pool].token = x.token => x.content = h[x.pool].content

\* Tokens say which job a command, a core's job and a result belong to.
TokensTell ==
    /\ \A p \in Pools : held[p] # NoJob => held[p].token <= liveToken
    /\ \A w \in Workers :
         /\ \A c \in Range(down[w]) : c.type = "job" => Stamped(c, liveToken, held)
         /\ work[w] # NoWork => Stamped(work[w], liveToken, held)
         /\ \A m \in Range(up[w]) : m.type = "result" => Stamped(m, liveToken, held)

\* The worker has closed or has a close command coming.
Closing(w) == w \in gone \/ \E c \in Range(down[w]) : c.type = "close"

\* Retired workers, and after an exit those in use, are closing.
RetiredClose ==
    \A w \in Workers : w[1] < generation \/ (exiting /\ w[1] = generation) => Closing(w)

\* x names the job that the active pool a holds in h.
ForHeld(x, a, h) == x.pool = a /\ x.token = h[a].token /\ x.id = h[a].id

\* c is the command that dispatched that job.
Tells(c, a, h) == c.type = "job" /\ ForHeld(c, a, h) /\ c.sound = h[a].sound

\* The last thing a worker in use was told is the job of the active pool.
ToldLast ==
    ~exiting /\ held[active] # NoJob => \A w \in Current(generation) :
        IF down[w] = << >>
        THEN running[w] /\ held[active].sound => ForHeld(work[w], active, held)
        ELSE Tells(Last(down[w]), active, held)

\* With the job hj of the active pool: a job that cores refuse is newer than
\* every job they have or can take.
Newer(hj) ==
    hj # NoJob /\ ~hj.sound => \A w \in Workers :
        /\ work[w] # NoWork => work[w].token < hj.token
        /\ \A c \in Range(down[w]) : c.type = "job" /\ c.sound => c.token < hj.token

RefusedNewest == Newer(held[active])

IInv == TypeOK /\ ChannelsTyped /\ TokensTell /\ RetiredClose /\ ToldLast /\ RefusedNewest

-----------------------------------------------------------------------------
(* Operators.                                                              *)

\* What the pipes hold after a write.
LEMMA AppendRange ==
    ASSUME NEW S, NEW s \in Seq(S), NEW e \in S
    PROVE  /\ Append(s, e) \in Seq(S) /\ Append(s, e) # << >>
           /\ Range(Append(s, e)) = Range(s) \cup {e}
           /\ Last(Append(s, e)) = e
<1>1. /\ Append(s, e) \in Seq(S) /\ Append(s, e) # << >>
      /\ Len(Append(s, e)) = Len(s) + 1 /\ Len(s) \in Nat
      /\ \A i \in 1 .. Len(s) : Append(s, e)[i] = s[i]
      /\ Append(s, e)[Len(s) + 1] = e
  BY AppendProperties, LenProperties
<1>2. DOMAIN Append(s, e) = 1 .. (Len(s) + 1) /\ DOMAIN s = 1 .. Len(s)
  BY <1>1, LenProperties
<1>3. \A i : i \in 1 .. (Len(s) + 1) <=> i \in 1 .. Len(s) \/ i = Len(s) + 1
  BY <1>1
<1>4. Range(Append(s, e)) = Range(s) \cup {e}
  BY <1>1, <1>2, <1>3 DEF Range
<1> QED
  BY <1>1, <1>4 DEF Last

\* What they hold after a read.
LEMMA TailRange ==
    ASSUME NEW S, NEW s \in Seq(S), s # << >>
    PROVE  /\ Tail(s) \in Seq(S) /\ Head(s) \in S
           /\ Range(s) = Range(Tail(s)) \cup {Head(s)}
           /\ Tail(s) = << >> => Last(s) = Head(s)
           /\ Tail(s) # << >> => Last(Tail(s)) = Last(s)
<1>1. /\ Tail(s) \in Seq(S) /\ Head(s) \in S /\ Head(s) = s[1]
      /\ Len(s) \in Nat /\ Len(s) # 0 /\ Len(Tail(s)) = Len(s) - 1
      /\ \A i \in 1 .. Len(Tail(s)) : Tail(s)[i] = s[i + 1]
  BY HeadTailProperties, LenProperties, EmptySeq
<1>2. DOMAIN Tail(s) = 1 .. (Len(s) - 1) /\ DOMAIN s = 1 .. Len(s)
  BY <1>1, LenProperties
<1>3. /\ \A i \in 1 .. (Len(s) - 1) : i + 1 \in 1 .. Len(s)
      /\ 1 \in 1 .. Len(s)
      /\ \A i \in 1 .. Len(s) : i = 1 \/ (i - 1 \in 1 .. (Len(s) - 1) /\ (i - 1) + 1 = i)
  BY <1>1
<1>4. Range(Tail(s)) \subseteq Range(s) /\ Head(s) \in Range(s)
  BY <1>1, <1>2, <1>3 DEF Range
<1>5. \A i \in 1 .. Len(s) : s[i] = Head(s) \/ s[i] \in Range(Tail(s))
  <2> SUFFICES ASSUME NEW i \in 1 .. Len(s), i # 1 PROVE s[i] \in Range(Tail(s))
    BY <1>1
  <2>1. i - 1 \in 1 .. (Len(s) - 1) /\ Tail(s)[i - 1] = s[(i - 1) + 1] /\ (i - 1) + 1 = i
    BY <1>1, <1>3
  <2> QED
    BY <1>2, <2>1 DEF Range
<1>6. Range(s) = Range(Tail(s)) \cup {Head(s)}
  BY <1>2, <1>4, <1>5 DEF Range
<1>7. Tail(s) = << >> => Last(s) = Head(s)
  <2>1. Tail(s) = << >> => Len(s) - 1 = 0
    BY <1>1, EmptySeq
  <2>2. Len(s) - 1 = 0 => Len(s) = 1
    <3>1. Len(s) \in Nat
      BY <1>1
    <3> QED
      BY <3>1
  <2> QED
    BY <1>1, <2>1, <2>2 DEF Last
<1>8. Tail(s) # << >> => Last(Tail(s)) = Last(s)
  <2>1. Tail(s) # << >> => Len(s) - 1 # 0
    BY <1>1, EmptySeq
  <2>2. Len(s) - 1 # 0 => Len(s) - 1 \in 1 .. (Len(s) - 1) /\ (Len(s) - 1) + 1 = Len(s)
    BY <1>1
  <2> QED
    BY <1>1, <2>1, <2>2 DEF Last
<1> QED
  BY <1>1, <1>6, <1>7, <1>8

\* A pipe with one command, and an empty one.
LEMMA ShortRange ==
    /\ \A S : \A e \in S : /\ <<e>> \in Seq(S) /\ <<e>> # << >>
                           /\ Range(<<e>>) = {e} /\ Last(<<e>>) = e
    /\ \A S : << >> \in Seq(S)
    /\ Range(<< >>) = {}
<1>1. \A S : << >> \in Seq(S)
  BY EmptySeq
<1>2. Range(<< >>) = {}
  BY DEF Range
<1>3. ASSUME NEW S, NEW e \in S
      PROVE  <<e>> \in Seq(S) /\ <<e>> # << >> /\ Range(<<e>>) = {e} /\ Last(<<e>>) = e
  <2>1. <<e>> \in Seq(S) /\ <<e>> # << >> /\ <<e>>[1] = e
    OBVIOUS
  <2>2. DOMAIN <<e>> = {1} /\ Len(<<e>>) = 1
    OBVIOUS
  <2> QED
    BY <2>1, <2>2 DEF Range, Last
<1> QED
  BY <1>1, <1>2, <1>3

\* A worker is named by its generation and its thread.
LEMMA WorkerNames ==
    ASSUME NEW w \in Workers
    PROVE  /\ w[1] \in Nat /\ w[2] \in Nat
           /\ \A g : w \in Current(g) <=> w[1] = g
  BY RelayAssumption DEF Workers, Threads, Current

\* messageWorkers writes to the workers of the current generation.
LEMMA MessagesWritten ==
    ASSUME ChannelsTyped, NEW c \in Commands
    PROVE  /\ messageWorkers(c) \in [Workers -> Seq(Commands)]
           /\ \A w \in Workers : messageWorkers(c)[w] =
                 IF w[1] = generation THEN Append(down[w], c) ELSE down[w]
<1>1. \A w \in Workers : down[w] \in Seq(Commands) /\ Append(down[w], c) \in Seq(Commands)
  BY AppendRange DEF ChannelsTyped
<1>2. \A w \in Workers : w \in Current(generation) <=> w[1] = generation
  BY WorkerNames
<1> QED
  BY <1>1, <1>2 DEF messageWorkers

\* The two ways to dispatch: to the workers there are, or to a new generation
\* while the old one is told to close.
Written(c) ==
    \/ /\ generation' = generation
       /\ \A w \in Workers : down'[w] =
             IF w[1] = generation THEN Append(down[w], c) ELSE down[w]
    \/ /\ generation' = generation + 1
       /\ \A w \in Workers : down'[w] =
             IF w[1] = generation + 1 THEN <<c>>
             ELSE IF w[1] = generation THEN Append(down[w], [type |-> "close"])
             ELSE down[w]

LEMMA DispatchCases ==
    ASSUME TypeOK, ChannelsTyped, NEW algo, NEW c \in Commands, Dispatch(algo, c)
    PROVE  /\ generation' \in 0 .. MaxGen
           /\ down' \in [Workers -> Seq(Commands)]
           /\ Written(c)
<1>1. CASE WorkersFit(algo)
  <2>1. down' = messageWorkers(c) /\ generation' = generation
    BY <1>1 DEF Dispatch
  <2> QED
    BY <2>1, MessagesWritten DEF TypeOK, Written
<1>2. CASE ~WorkersFit(algo)
  <2>1. /\ generation < MaxGen /\ generation' = generation + 1
        /\ down' = [w \in Workers |-> IF w \in Current(generation + 1) THEN <<c>>
                                      ELSE messageWorkers([type |-> "close"])[w]]
    BY <1>2 DEF Dispatch
  <2>2. generation' \in 0 .. MaxGen
    <3>1. generation \in 0 .. MaxGen /\ MaxGen \in Nat
      BY RelayAssumption DEF TypeOK
    <3> QED
      BY <2>1, <3>1
  <2>3. [type |-> "close"] \in Commands /\ <<c>> \in Seq(Commands)
    BY ShortRange DEF Commands
  <2>4. \A w \in Workers : w \in Current(generation + 1) <=> w[1] = generation + 1
    BY WorkerNames
  <2> QED
    BY <2>1, <2>2, <2>3, <2>4, MessagesWritten DEF Written
<1> QED
  BY <1>1, <1>2

-----------------------------------------------------------------------------
(* The steps of the controller.                                            *)

\* p becomes or stays active with the job it has in h, and the job is
\* dispatched; other pools keep their jobs or lose them.
Dispatches(p, h) ==
    /\ p \in Pools /\ h \in [Pools -> Jobs \cup {NoJob}] /\ h[p] \in Jobs
    /\ \A q \in Pools \ {p} : h[q] \in {held[q], NoJob}
    /\ active' = p
    /\ set_job(p, h)

\* Jobs are stored or dropped and nothing is dispatched.
Stores ==
    /\ active' \in Pools /\ held' \in [Pools -> Jobs \cup {NoJob}]
    /\ \A q \in Pools : held'[q] \in {held[q], NoJob} \/ held'[q].token = 0
    /\ UNCHANGED <<lastJob, liveToken, generation>>
    /\ \/ active' = active /\ held'[active] = held[active] /\ down' = down
       \/ held'[active'] = NoJob /\ down' \in {down, messageWorkers([type |-> "pause"])}

\* A new or resumed job, a lost connection and the end of a donation window
\* dispatch one job or none.
LEMMA SwitchCases ==
    ASSUME TypeOK, NEW p \in Pools, NEW h \in [Pools -> Jobs \cup {NoJob}],
           \A q \in Pools : h[q] \in {held[q], NoJob}, switchPool(p, h)
    PROVE  /\ (\E q \in Pools : Dispatches(q, h)) \/ Stores
           /\ UNCHANGED <<exiting, contents, up, coreVars, sent>>
           /\ early' \subseteq 1 .. MaxContent
<1>1. ASSUME NEW q \in Alive(p, h), active' = q, set_job(q, h)
      PROVE  Dispatches(q, h) /\ q \in Pools
  BY <1>1 DEF Alive, Dispatches
<1>2. ASSUME active' \in {q \in Pools \ {Donate} : h[q] = NoJob}, held' = h,
             down' = IF p = Donate THEN messageWorkers([type |-> "pause"]) ELSE down,
             UNCHANGED <<lastJob, liveToken, generation>>
      PROVE  Stores
  BY <1>2 DEF Stores
<1>3. early' \subseteq 1 .. MaxContent
  <2>1. early \subseteq 1 .. MaxContent /\ Forgotten(h) \subseteq 1 .. MaxContent
    BY DEF TypeOK, Forgotten
  <2>2. \A q \in Alive(p, h) : h[q].content \in 1 .. MaxContent
    BY DEF Alive, Jobs
  <2>3. CASE \E q \in Alive(p, h) : early' = early \cup Forgotten(h) \cup
                                       {c \in {h[q].content} : Unreported(h[q].token)}
    BY <2>1, <2>2, <2>3
  <2>4. CASE early' = early
    BY <2>1, <2>4
  <2> QED
    BY <2>3, <2>4 DEF switchPool
<1>4. (\E q \in Pools : Dispatches(q, h)) \/ Stores
  BY <1>1, <1>2 DEF switchPool
<1> QED
  BY <1>3, <1>4 DEF switchPool

LEMMA ControllerCases ==
    ASSUME TypeOK, NEW p \in Pools, PoolJob(p) \/ Retargets(p) \/ Disconnect(p) \/ WindowEnds
    PROVE  /\ (\E q \in Pools, h \in [Pools -> Jobs \cup {NoJob}] : Dispatches(q, h)) \/ Stores
           /\ UNCHANGED <<exiting, up, coreVars, sent>>
           /\ contents' \in 0 .. MaxContent
           /\ early' \subseteq 1 .. MaxContent
<1>0. held \in [Pools -> Jobs \cup {NoJob}] /\ contents \in 0 .. MaxContent /\ active \in Pools
  BY DEF TypeOK
<1>1. CASE PoolJob(p)
  <2>0. early' \subseteq 1 .. MaxContent
    <3>1. early \subseteq 1 .. MaxContent /\ \A h : Forgotten(h) \subseteq 1 .. MaxContent
      BY DEF TypeOK, Forgotten
    <3> QED
      BY <1>1, <3>1 DEF PoolJob
  <2>1. PICK id \in Ids, algo \in Algos, sound \in BOOLEAN :
          LET j == [content |-> contents + 1, id |-> id, algo |-> algo, sound |-> sound,
                    token |-> 0, nonce |-> Unset]
              h == [held EXCEPT ![p] = j]
          IN  \/ active' = p /\ set_job(p, h)
              \/ p # active /\ held' = h /\ UNCHANGED <<active, lastJob, liveToken, generation, down>>
    BY <1>1 DEF PoolJob
  <2>2. /\ contents + 1 \in 1 .. MaxContent /\ contents' \in 0 .. MaxContent
        /\ UNCHANGED <<exiting, up, coreVars, sent>>
    <3>1. contents < MaxContent /\ contents' = contents + 1 /\ UNCHANGED <<exiting, up, coreVars, sent>>
      BY <1>1 DEF PoolJob
    <3>2. contents \in 0 .. MaxContent /\ MaxContent \in Nat
      BY <1>0, RelayAssumption
    <3> QED
      BY <3>1, <3>2
  <2> DEFINE j == [content |-> contents + 1, id |-> id, algo |-> algo, sound |-> sound,
                   token |-> 0, nonce |-> Unset]
             h == [held EXCEPT ![p] = j]
  <2>3. j \in Jobs
    <3>1. 0 \in 0 .. MaxToken /\ Unset \in Nat \cup {Unset}
      BY RelayAssumption
    <3> QED
      BY <2>2, <3>1 DEF Jobs
  <2>4. /\ h \in [Pools -> Jobs \cup {NoJob}] /\ h[p] = j
        /\ \A q \in Pools \ {p} : h[q] = held[q]
    BY <1>0, <2>3
  <2>5. j.token = 0
    OBVIOUS
  <2> HIDE DEF j
  <2>6. CASE active' = p /\ set_job(p, h)
    <3>1. Dispatches(p, h)
      BY <2>3, <2>4, <2>6 DEF Dispatches
    <3> QED
      BY <2>0, <2>2, <2>4, <3>1
  <2>7. CASE p # active /\ held' = h /\ UNCHANGED <<active, lastJob, liveToken, generation, down>>
    <3>1. Stores
      BY <1>0, <2>4, <2>5, <2>7 DEF Stores
    <3> QED
      BY <2>0, <2>2, <3>1
  <2> QED
    BY <2>1, <2>6, <2>7 DEF j
<1>2. CASE Retargets(p)
  <2>1. /\ p = active /\ held[p] # NoJob /\ UNCHANGED <<active, exiting, contents, up, coreVars, sent>>
        /\ \E id \in Ids, sound \in BOOLEAN :
             set_job(p, [held EXCEPT ![p].id = id, ![p].sound = sound, ![p].nonce = Unset])
    BY <1>2 DEF Retargets
  <2>2. held[p] \in Jobs
    BY <1>0, <2>1
  <2>0. early' \subseteq 1 .. MaxContent
    <3>1. early' \in {early, early \cup {held[p].content}}
      BY <1>2 DEF Retargets
    <3>2. early \subseteq 1 .. MaxContent /\ held[p].content \in 1 .. MaxContent
      BY <2>2 DEF TypeOK, Jobs
    <3> QED
      BY <3>1, <3>2
  <2>3. ASSUME NEW id \in Ids, NEW sound \in BOOLEAN
        PROVE  LET h == [held EXCEPT ![p].id = id, ![p].sound = sound, ![p].nonce = Unset]
               IN  /\ h \in [Pools -> Jobs \cup {NoJob}] /\ h[p] \in Jobs
                   /\ \A q \in Pools \ {p} : h[q] = held[q]
    BY <1>0, <2>2 DEF Jobs
  <2> QED
    BY <1>0, <2>0, <2>1, <2>3 DEF Dispatches
<1>3. CASE WindowEnds
  <2>1. active = Donate /\ switchPool(active, held)
    BY <1>3 DEF WindowEnds
  <2> QED
    BY <1>0, <2>1, SwitchCases
<1>4. CASE Disconnect(p)
  <2> DEFINE h == [held EXCEPT ![p] = NoJob]
  <2>1. /\ h \in [Pools -> Jobs \cup {NoJob}]
        /\ \A q \in Pools : h[q] \in {held[q], NoJob}
        /\ \A q \in Pools \ {p} : h[q] = held[q]
    BY <1>0
  <2>2. \/ p = active /\ switchPool(p, h)
        \/ p # active /\ held' = h
           /\ UNCHANGED <<active, lastJob, liveToken, generation, exiting, contents, down, up,
                          coreVars, sent, early>>
    BY <1>4 DEF Disconnect
  <2> HIDE DEF h
  <2>3. CASE p = active /\ switchPool(p, h)
    BY <1>0, <2>1, <2>3, SwitchCases
  <2>4. CASE p # active /\ held' = h
           /\ UNCHANGED <<active, lastJob, liveToken, generation, exiting, contents, down, up,
                          coreVars, sent, early>>
    <3>1. Stores
      BY <1>0, <2>1, <2>4 DEF Stores
    <3> QED
      BY <1>0, <2>4, <3>1 DEF TypeOK
  <2> QED
    BY <2>2, <2>3, <2>4
<1> QED
  BY <1>1, <1>2, <1>3, <1>4

\* What set_job does: a token nobody has, and one command with it.
LEMMA DispatchStep ==
    ASSUME TypeOK, ChannelsTyped, NEW p \in Pools, NEW h \in [Pools -> Jobs \cup {NoJob}],
           Dispatches(p, h)
    PROVE  /\ active' = p
           /\ held' \in [Pools -> Jobs \cup {NoJob}]
           /\ held'[p] \in Jobs /\ held'[p].token = liveToken + 1
           /\ \A q \in Pools \ {p} : held'[q] \in {held[q], NoJob}
           /\ liveToken' = liveToken + 1 /\ liveToken' \in 0 .. MaxToken
           /\ lastJob' \in [content : 1 .. MaxContent, algo : Algos, pool : Pools, nonce : Nat]
                             \cup {NoJob}
           /\ generation' \in 0 .. MaxGen
           /\ down' \in [Workers -> Seq(Commands)]
           /\ \/ exiting /\ UNCHANGED <<generation, down>>
              \/ ~exiting /\ \E c \in JobCommands :
                    /\ c.token = liveToken + 1 /\ Tells(c, p, held')
                    /\ c.content = held'[p].content
                    /\ Written(c)
<1> DEFINE job == [h[p] EXCEPT !.token = liveToken + 1]
           start == addNonceFields(p, job)
           cmd == [type |-> "job", algo |-> job.algo, pool |-> p, id |-> job.id,
                   token |-> job.token, sound |-> job.sound, content |-> job.content,
                   nonce |-> start]
<1>1. /\ active' = p /\ liveToken < MaxToken /\ liveToken' = liveToken + 1
      /\ held' = [h EXCEPT ![p] = job] /\ h[p] \in Jobs
      /\ \A q \in Pools \ {p} : h[q] \in {held[q], NoJob}
      /\ \/ exiting /\ UNCHANGED <<lastJob, generation, down>>
         \/ /\ ~exiting
            /\ lastJob' = [content |-> job.content, algo |-> job.algo, pool |-> p, nonce |-> start]
            /\ Dispatch(job.algo, cmd)
  BY DEF Dispatches, set_job
<1>2. liveToken + 1 \in 1 .. MaxToken
  <2>1. liveToken \in 0 .. MaxToken /\ MaxToken \in Nat
    BY RelayAssumption DEF TypeOK
  <2> QED
    BY <1>1, <2>1
<1>3. job \in Jobs /\ job.token = liveToken + 1
  <2>1. liveToken + 1 \in 0 .. MaxToken
    BY <1>2
  <2> QED
    BY <1>1, <2>1 DEF Jobs
<1>4. /\ job.content \in 1 .. MaxContent /\ job.id \in Ids /\ job.algo \in Algos
      /\ job.nonce \in Nat \cup {Unset} /\ job.sound \in BOOLEAN
  BY <1>3 DEF Jobs
<1> HIDE DEF job
<1>5. start \in Nat
  BY <1>4 DEF addNonceFields, ChannelsTyped
<1> HIDE DEF start
<1>6. /\ cmd \in JobCommands /\ cmd.token = liveToken + 1 /\ cmd.pool = p /\ cmd.id = job.id
      /\ cmd.content = job.content /\ cmd.sound = job.sound /\ cmd.type = "job"
  BY <1>2, <1>3, <1>4, <1>5 DEF JobCommands
<1> HIDE DEF cmd
<1>7. /\ held' \in [Pools -> Jobs \cup {NoJob}] /\ held'[p] = job
      /\ \A q \in Pools \ {p} : held'[q] \in {held[q], NoJob}
  BY <1>1, <1>3
<1>8. liveToken' \in 0 .. MaxToken
  BY <1>1, <1>2
<1>9. CASE exiting /\ UNCHANGED <<lastJob, generation, down>>
  BY <1>1, <1>3, <1>7, <1>8, <1>9 DEF ChannelsTyped, TypeOK
<1>10. CASE /\ ~exiting
            /\ lastJob' = [content |-> job.content, algo |-> job.algo, pool |-> p, nonce |-> start]
            /\ Dispatch(job.algo, cmd)
  <2>1. cmd \in Commands
    BY <1>6 DEF Commands
  <2>2. generation' \in 0 .. MaxGen /\ down' \in [Workers -> Seq(Commands)] /\ Written(cmd)
    BY <1>10, <2>1, DispatchCases
  <2>3. Tells(cmd, p, held')
    BY <1>3, <1>6, <1>7 DEF ForHeld, Tells
  <2>4. lastJob' \in [content : 1 .. MaxContent, algo : Algos, pool : Pools, nonce : Nat]
    BY <1>4, <1>5, <1>10
  <2> QED
    BY <1>1, <1>3, <1>6, <1>7, <1>8, <1>10, <2>2, <2>3, <2>4
<1> QED
  BY <1>1, <1>9, <1>10

-----------------------------------------------------------------------------
(* The steps of the workers.                                               *)

\* A report names the job the core leaves.
LEMMA ReportTyped ==
    ASSUME TypeOK, ChannelsTyped, NEW w \in Workers
    PROVE  /\ Reports(w) \in Seq(ResultMessages \cup PositionMessages)
           /\ \A m \in Range(Reports(w)) : m.type = "result" => m \in Range(up[w])
<1>1. up[w] \in Seq(ResultMessages \cup PositionMessages)
  BY DEF ChannelsTyped
<1>2. CASE work[w] # NoWork /\ (work[w].algo \in RandomX => running[w])
  <2>1. work[w] \in Works
    BY <1>2 DEF TypeOK
  <2>2. LastNonce(work[w]) \in PositionMessages /\ LastNonce(work[w]).type = "last_nonce"
    <3>1. Position(work[w]) \in Nat
      BY <2>1, RelayAssumption DEF Position, Works
    <3> QED
      BY <2>1, <3>1 DEF LastNonce, PositionMessages, Works
  <2>3. Reports(w) = Append(up[w], LastNonce(work[w]))
    BY <1>2 DEF Reports
  <2>4. /\ Append(up[w], LastNonce(work[w])) \in Seq(ResultMessages \cup PositionMessages)
        /\ Range(Append(up[w], LastNonce(work[w]))) = Range(up[w]) \cup {LastNonce(work[w])}
    BY <1>1, <2>2, AppendRange
  <2> QED
    BY <2>2, <2>3, <2>4
<1>3. CASE ~(work[w] # NoWork /\ (work[w].algo \in RandomX => running[w]))
  BY <1>1, <1>3 DEF Reports
<1> QED
  BY <1>2, <1>3

\* A core's next command.
LEMMA ProcessCases ==
    ASSUME TypeOK, ChannelsTyped, NEW w \in Workers, Process(w)
    PROVE  /\ w \notin gone /\ down[w] # << >> /\ Head(down[w]) \in Commands
           /\ down' = [down EXCEPT ![w] = Tail(@)] /\ Tail(down[w]) \in Seq(Commands)
           /\ UNCHANGED <<ctrlVars, sent, early>>
           /\ up' \in [Workers -> Seq(ResultMessages \cup PositionMessages)]
           /\ \A v \in Workers : \A m \in Range(up'[v]) : m.type = "result" => m \in Range(up[v])
           /\ \/ /\ Head(down[w]) \in JobCommands /\ Head(down[w]).sound
                 /\ work' = [work EXCEPT ![w] = Take(w, Head(down[w]))]
                 /\ running' = [running EXCEPT ![w] = TRUE] /\ gone' = gone
              \/ /\ Head(down[w]) \in JobCommands /\ ~Head(down[w]).sound
                 /\ UNCHANGED <<work, running, gone>>
              \/ /\ Head(down[w]).type # "close" /\ UNCHANGED <<work, gone>>
                 /\ running' = [running EXCEPT ![w] = FALSE]
              \/ /\ Head(down[w]).type = "close" /\ work' = work /\ gone' = gone \cup {w}
                 /\ running' = [running EXCEPT ![w] = FALSE]
<1>1. down[w] \in Seq(Commands) /\ down[w] # << >>
  BY DEF Process, ChannelsTyped
<1>2. Tail(down[w]) \in Seq(Commands) /\ Head(down[w]) \in Commands
  BY <1>1, TailRange
<1>3. Head(down[w]).type = "job" => Head(down[w]) \in JobCommands
  <2>1. [type |-> "pause"].type = "pause" /\ [type |-> "close"].type = "close"
    OBVIOUS
  <2> QED
    BY <1>2, <2>1 DEF Commands
<1>4. PICK r \in {Reports(w), up[w]} : up' = [up EXCEPT ![w] = r]
  <2>1. up = [up EXCEPT ![w] = up[w]]
    BY DEF ChannelsTyped
  <2> QED
    BY <2>1 DEF Process, Stops
<1>5. up \in [Workers -> Seq(ResultMessages \cup PositionMessages)]
  BY DEF ChannelsTyped
<1>6. /\ r \in Seq(ResultMessages \cup PositionMessages)
      /\ \A m \in Range(r) : m.type = "result" => m \in Range(up[w])
  BY <1>5, ReportTyped
<1>7. /\ up' \in [Workers -> Seq(ResultMessages \cup PositionMessages)]
      /\ \A v \in Workers : \A m \in Range(up'[v]) : m.type = "result" => m \in Range(up[v])
  BY <1>4, <1>5, <1>6
<1>8. /\ w \notin gone /\ down' = [down EXCEPT ![w] = Tail(@)]
      /\ UNCHANGED <<ctrlVars, sent, early>>
      /\ \/ /\ Head(down[w]).type = "job" /\ Head(down[w]).sound
            /\ work' = [work EXCEPT ![w] = Take(w, Head(down[w]))]
            /\ running' = [running EXCEPT ![w] = TRUE] /\ gone' = gone
         \/ /\ Head(down[w]).type = "job" /\ ~Head(down[w]).sound
            /\ UNCHANGED <<work, running, gone>>
         \/ /\ Head(down[w]).type # "close" /\ UNCHANGED <<work, gone>>
            /\ running' = [running EXCEPT ![w] = FALSE]
         \/ /\ Head(down[w]).type = "close" /\ work' = work /\ gone' = gone \cup {w}
            /\ running' = [running EXCEPT ![w] = FALSE]
  BY DEF Process, Stops
<1> QED
  BY <1>1, <1>2, <1>3, <1>7, <1>8

\* A core takes the job as it was sent.
LEMMA TakeTyped ==
    ASSUME TypeOK, NEW w \in Workers, NEW c \in JobCommands
    PROVE  /\ Take(w, c) \in Works /\ Take(w, c) # NoWork
           /\ Take(w, c).pool = c.pool /\ Take(w, c).token = c.token
           /\ Take(w, c).id = c.id /\ Take(w, c).content = c.content
<1>1. (IF running[w] /\ work[w].content = c.content /\ c.algo \notin RandomX
       THEN work[w].cur ELSE c.nonce + w[2]) \in Nat
  <2>1. running[w] => work[w] \in Works
    BY DEF TypeOK
  <2>2. c.nonce + w[2] \in Nat
    BY WorkerNames DEF JobCommands
  <2> QED
    BY <2>1, <2>2 DEF Works
<1>2. Take(w, c) \in Works
  BY <1>1 DEF Take, Works, JobCommands
<1>3. Take(w, c).token \in 1 .. MaxToken /\ NoWork.token = 0
  BY <1>2 DEF Works, NoWork
<1> QED
  BY <1>2, <1>3 DEF Take

\* A batch moves the search on and may find a share of the core's job.
LEMMA HashCases ==
    ASSUME TypeOK, ChannelsTyped, NEW w \in Workers, Hash(w)
    PROVE  /\ UNCHANGED <<ctrlVars, down, running, gone, sent, early>>
           /\ work' \in [Workers -> Works \cup {NoWork}]
           /\ \A v \in Workers \ {w} : work'[v] = work[v]
           /\ work[w] \in Works /\ work'[w] \in Works
           /\ work'[w].pool = work[w].pool /\ work'[w].token = work[w].token
           /\ work'[w].id = work[w].id /\ work'[w].content = work[w].content
           /\ up' \in [Workers -> Seq(ResultMessages \cup PositionMessages)]
           /\ \A v \in Workers : \A m \in Range(up'[v]) :
                 m \in Range(up[v]) \/ /\ m.pool = work[w].pool /\ m.token = work[w].token
                                       /\ m.content = work[w].content
<1>1. /\ UNCHANGED <<ctrlVars, down, running, gone, sent, early>>
      /\ running[w] /\ work' = [work EXCEPT ![w].cur = @ + N]
  BY DEF Hash
<1>2. work[w] \in Works /\ work \in [Workers -> Works \cup {NoWork}]
  BY <1>1 DEF TypeOK, ChannelsTyped
<1>3. /\ work'[w] = [work[w] EXCEPT !.cur = work[w].cur + N]
      /\ \A v \in Workers \ {w} : work'[v] = work[v]
  BY <1>1, <1>2
<1>4. work[w].cur + N \in Nat
  BY <1>2, RelayAssumption DEF Works
<1>5. /\ work'[w] \in Works
      /\ work'[w].pool = work[w].pool /\ work'[w].token = work[w].token
      /\ work'[w].id = work[w].id /\ work'[w].content = work[w].content
  BY <1>2, <1>3, <1>4 DEF Works
<1>6. work' \in [Workers -> Works \cup {NoWork}]
  BY <1>1, <1>2, <1>3, <1>5
<1> DEFINE r == [type |-> "result", pool |-> work[w].pool, id |-> work[w].id,
                 token |-> work[w].token, content |-> work[w].content, nonce |-> work[w].cur]
<1>7. r \in ResultMessages
  BY <1>2 DEF Works, ResultMessages
<1>8. up' = up \/ up' = [up EXCEPT ![w] = Append(up[w], r)]
  BY DEF Hash
<1>9. up \in [Workers -> Seq(ResultMessages \cup PositionMessages)]
  BY DEF ChannelsTyped
<1>10. r.pool = work[w].pool /\ r.token = work[w].token /\ r.content = work[w].content
  OBVIOUS
<1> HIDE DEF r
<1>11. /\ Append(up[w], r) \in Seq(ResultMessages \cup PositionMessages)
       /\ Range(Append(up[w], r)) = Range(up[w]) \cup {r}
  BY <1>7, <1>9, AppendRange
<1>12. /\ up' \in [Workers -> Seq(ResultMessages \cup PositionMessages)]
       /\ \A v \in Workers : \A m \in Range(up'[v]) : m \in Range(up[v]) \/ m = r
  BY <1>8, <1>9, <1>11
<1> QED
  BY <1>1, <1>2, <1>3, <1>5, <1>6, <1>10, <1>12

\* A message is dropped, kept as a position of a background job, or written
\* as a share of the job it matches.
LEMMA DeliverCases ==
    ASSUME TypeOK, ChannelsTyped, NEW w \in Workers, Deliver(w)
    PROVE  /\ UNCHANGED <<active, lastJob, liveToken, generation, exiting, contents, down, coreVars,
                          early>>
           /\ up' \in [Workers -> Seq(ResultMessages \cup PositionMessages)]
           /\ \A v \in Workers : Range(up'[v]) \subseteq Range(up[v])
           /\ held' \in [Pools -> Jobs \cup {NoJob}] /\ held'[active] = held[active]
           /\ \A q \in Pools : held'[q] # NoJob =>
                 /\ held[q] # NoJob /\ held'[q].token = held[q].token
                 /\ held'[q].content = held[q].content
           /\ \/ sent' = sent
              \/ \E m \in ResultMessages :
                    /\ m \in Range(up[w]) /\ matchingPoolJob(m)
                    /\ sent' = Append(sent, [pool |-> m.pool, id |-> m.id, content |-> m.content,
                                             nonce |-> m.nonce])
<1> DEFINE m == Head(up[w])
<1>1. /\ up[w] # << >> /\ up' = [up EXCEPT ![w] = Tail(up[w])]
      /\ UNCHANGED <<active, lastJob, liveToken, generation, exiting, contents, down, coreVars,
                     early>>
      /\ handleResult(m) \/ handleLastNonce(m) \/ UNCHANGED <<held, sent>>
  BY DEF Deliver
<1>2. up \in [Workers -> Seq(ResultMessages \cup PositionMessages)]
  BY DEF ChannelsTyped
<1>3. /\ Tail(up[w]) \in Seq(ResultMessages \cup PositionMessages)
      /\ m \in ResultMessages \cup PositionMessages
      /\ Range(up[w]) = Range(Tail(up[w])) \cup {m}
  BY <1>1, <1>2, TailRange
<1>4. /\ up' \in [Workers -> Seq(ResultMessages \cup PositionMessages)]
      /\ \A v \in Workers : Range(up'[v]) \subseteq Range(up[v])
  BY <1>1, <1>2, <1>3
<1> HIDE DEF m
<1>5. held \in [Pools -> Jobs \cup {NoJob}] /\ active \in Pools
  BY DEF TypeOK
<1>6. CASE UNCHANGED <<held, sent>>
  BY <1>1, <1>4, <1>5, <1>6
<1>7. CASE handleResult(m)
  <2>1. m \in ResultMessages
    BY <1>3, <1>7 DEF handleResult, PositionMessages
  <2> QED
    BY <1>1, <1>3, <1>4, <1>5, <1>7, <2>1 DEF handleResult
<1>8. CASE handleLastNonce(m)
  <2>1. m.pool \in Pools /\ m.nonce \in Nat
    BY <1>3 DEF ResultMessages, PositionMessages
  <2>2. CASE m.pool # active /\ held[m.pool] # NoJob /\ held' = [held EXCEPT ![m.pool].nonce = m.nonce]
    <3>1. held[m.pool] \in Jobs
      BY <1>5, <2>1, <2>2
    <3>2. /\ held'[m.pool] = [held[m.pool] EXCEPT !.nonce = m.nonce]
          /\ \A q \in Pools \ {m.pool} : held'[q] = held[q]
      BY <1>5, <2>1, <2>2
    <3>3. /\ held'[m.pool] \in Jobs
          /\ held'[m.pool].token = held[m.pool].token
          /\ held'[m.pool].content = held[m.pool].content
      BY <2>1, <3>1, <3>2 DEF Jobs
    <3>4. held' \in [Pools -> Jobs \cup {NoJob}]
      BY <1>5, <2>2, <3>2, <3>3
    <3> QED
      BY <1>1, <1>4, <1>5, <1>8, <2>2, <3>2, <3>3, <3>4 DEF handleLastNonce
  <2>3. CASE held' = held
    BY <1>1, <1>4, <1>5, <1>8, <2>3 DEF handleLastNonce
  <2> QED
    BY <1>8, <2>2, <2>3 DEF handleLastNonce, matchingPoolJob
<1> QED
  BY <1>1, <1>6, <1>7, <1>8

-----------------------------------------------------------------------------
(* Types.                                                                  *)

\* Workers of generations not yet started have nothing.
LEMMA WrittenToStarted ==
    ASSUME TypeOK, NEW c, Written(c)
    PROVE  \A w \in Workers : w[1] > generation' => down'[w] = << >> /\ work[w] = NoWork
<1> SUFFICES ASSUME NEW w \in Workers, w[1] > generation'
             PROVE  down'[w] = << >> /\ work[w] = NoWork
  OBVIOUS
<1>1. w[1] \in Nat /\ generation \in Nat
  BY WorkerNames, RelayAssumption DEF TypeOK
<1>2. generation' \in {generation, generation + 1} /\ w[1] > generation /\ w[1] # generation
  BY <1>1 DEF Written
<1>3. generation' = generation + 1 => w[1] # generation + 1
  BY <1>1
<1> QED
  BY <1>2, <1>3 DEF Written, TypeOK

LEMMA TypeStep ==
    ASSUME TypeOK, ChannelsTyped, [Next]_vars
    PROVE  TypeOK' /\ ChannelsTyped'
<1>1. CASE UNCHANGED vars
  BY <1>1 DEF vars, ctrlVars, coreVars, TypeOK, ChannelsTyped
<1>2. ASSUME NEW p \in Pools, PoolJob(p) \/ Retargets(p) \/ Disconnect(p) \/ WindowEnds
      PROVE  TypeOK' /\ ChannelsTyped'
  <2>1. /\ UNCHANGED <<exiting, up, work, running, gone, sent>>
        /\ contents' \in 0 .. MaxContent /\ early' \subseteq 1 .. MaxContent
    BY <1>2, ControllerCases DEF coreVars
  <2>2. ASSUME NEW q \in Pools, NEW h \in [Pools -> Jobs \cup {NoJob}], Dispatches(q, h)
        PROVE  TypeOK' /\ ChannelsTyped'
    <3>1. /\ active' \in Pools /\ held' \in [Pools -> Jobs \cup {NoJob}]
          /\ liveToken' \in 0 .. MaxToken /\ generation' \in 0 .. MaxGen
          /\ lastJob' \in [content : 1 .. MaxContent, algo : Algos, pool : Pools, nonce : Nat]
                            \cup {NoJob}
          /\ down' \in [Workers -> Seq(Commands)]
      BY <2>2, DispatchStep
    <3>2. \A w \in Workers : w[1] > generation' => down'[w] = << >> /\ work[w] = NoWork
      <4>1. CASE UNCHANGED <<generation, down>>
        BY <4>1 DEF TypeOK
      <4>2. CASE \E c : Written(c)
        BY <4>2, WrittenToStarted
      <4> QED
        BY <2>2, <4>1, <4>2, DispatchStep
    <3> QED
      BY <2>1, <3>1, <3>2 DEF TypeOK, ChannelsTyped
  <2>3. CASE Stores
    <3>1. /\ active' \in Pools /\ held' \in [Pools -> Jobs \cup {NoJob}]
          /\ UNCHANGED <<lastJob, liveToken, generation>>
          /\ down' \in {down, messageWorkers([type |-> "pause"])}
      BY <2>3 DEF Stores
    <3>2. [type |-> "pause"] \in Commands
      BY DEF Commands
    <3>3. /\ messageWorkers([type |-> "pause"]) \in [Workers -> Seq(Commands)]
          /\ \A w \in Workers : w[1] # generation =>
                messageWorkers([type |-> "pause"])[w] = down[w]
      BY <3>2, MessagesWritten
    <3>4. down' \in [Workers -> Seq(Commands)]
          /\ \A w \in Workers : w[1] # generation => down'[w] = down[w]
      BY <3>1, <3>3 DEF ChannelsTyped
    <3>5. \A w \in Workers : w[1] > generation => w[1] # generation
      BY WorkerNames, RelayAssumption DEF TypeOK
    <3> QED
      BY <2>1, <3>1, <3>4, <3>5 DEF TypeOK, ChannelsTyped
  <2> QED
    BY <1>2, <2>2, <2>3, ControllerCases
<1>3. CASE Exit
  <2>1. /\ exiting' = TRUE /\ down' = messageWorkers([type |-> "close"])
        /\ UNCHANGED <<active, held, lastJob, liveToken, generation, contents, up, work, running,
                       gone, sent, early>>
    BY <1>3 DEF Exit, coreVars
  <2>2. [type |-> "close"] \in Commands
    BY DEF Commands
  <2>3. /\ down' \in [Workers -> Seq(Commands)]
        /\ \A w \in Workers : w[1] # generation => down'[w] = down[w]
    BY <2>1, <2>2, MessagesWritten
  <2>4. \A w \in Workers : w[1] > generation => w[1] # generation
    BY WorkerNames, RelayAssumption DEF TypeOK
  <2> QED
    BY <2>1, <2>3, <2>4 DEF TypeOK, ChannelsTyped
<1>4. ASSUME NEW w \in Workers, Process(w) PROVE TypeOK' /\ ChannelsTyped'
  <2>1. /\ down[w] # << >> /\ down' = [down EXCEPT ![w] = Tail(@)]
        /\ Tail(down[w]) \in Seq(Commands) /\ UNCHANGED <<ctrlVars, sent, early>>
        /\ up' \in [Workers -> Seq(ResultMessages \cup PositionMessages)]
    BY <1>4, ProcessCases
  <2>2. down' \in [Workers -> Seq(Commands)] /\ \A v \in Workers \ {w} : down'[v] = down[v]
    BY <2>1 DEF ChannelsTyped
  <2>3. ~(w[1] > generation)
    BY <2>1 DEF TypeOK
  <2>4. /\ work' \in [Workers -> Works \cup {NoWork}] /\ running' \in [Workers -> BOOLEAN]
        /\ gone' \subseteq Workers
        /\ \A v \in Workers : running'[v] => work'[v] # NoWork
        /\ \A v \in Workers \ {w} : work'[v] = work[v]
    <3>0. CASE UNCHANGED <<work, running, gone>>
      BY <3>0 DEF TypeOK, ChannelsTyped
    <3>1. CASE /\ Head(down[w]) \in JobCommands
               /\ work' = [work EXCEPT ![w] = Take(w, Head(down[w]))]
               /\ running' = [running EXCEPT ![w] = TRUE] /\ gone' = gone
      <4>1. Take(w, Head(down[w])) \in Works /\ Take(w, Head(down[w])) # NoWork
        BY <3>1, TakeTyped
      <4>2. running' \in [Workers -> BOOLEAN] /\ \A v \in Workers \ {w} : running'[v] = running[v]
        BY <3>1 DEF TypeOK
      <4> QED
        BY <3>1, <4>1, <4>2 DEF TypeOK, ChannelsTyped
    <3>2. CASE /\ work' = work /\ running' = [running EXCEPT ![w] = FALSE]
               /\ gone' \in {gone, gone \cup {w}}
      <4>1. /\ running' \in [Workers -> BOOLEAN] /\ ~running'[w]
            /\ \A v \in Workers \ {w} : running'[v] = running[v]
        BY <3>2 DEF TypeOK
      <4> QED
        BY <3>2, <4>1 DEF TypeOK, ChannelsTyped
    <3> QED
      BY <1>4, <3>0, <3>1, <3>2, ProcessCases
  <2> QED
    BY <2>1, <2>2, <2>3, <2>4 DEF TypeOK, ChannelsTyped, ctrlVars
<1>5. ASSUME NEW w \in Workers, Hash(w) PROVE TypeOK' /\ ChannelsTyped'
  <2>1. /\ UNCHANGED <<ctrlVars, down, running, gone, sent, early>>
        /\ work' \in [Workers -> Works \cup {NoWork}]
        /\ \A v \in Workers \ {w} : work'[v] = work[v]
        /\ work'[w] \in Works /\ work[w] \in Works
        /\ up' \in [Workers -> Seq(ResultMessages \cup PositionMessages)]
    BY <1>5, HashCases
  <2>2. \A x \in Works : x # NoWork
    BY DEF Works, NoWork
  <2> QED
    BY <2>1, <2>2 DEF TypeOK, ChannelsTyped, ctrlVars
<1>6. ASSUME NEW w \in Workers, Deliver(w) PROVE TypeOK' /\ ChannelsTyped'
  <2>1. /\ UNCHANGED <<active, lastJob, liveToken, generation, exiting, contents, down, coreVars,
                       early>>
        /\ up' \in [Workers -> Seq(ResultMessages \cup PositionMessages)]
        /\ held' \in [Pools -> Jobs \cup {NoJob}]
        /\ \/ sent' = sent
           \/ \E m \in ResultMessages :
                 sent' = Append(sent, [pool |-> m.pool, id |-> m.id, content |-> m.content,
                                       nonce |-> m.nonce])
    BY <1>6, DeliverCases
  <2> DEFINE Shares == [pool : Pools, id : Ids, content : 1 .. MaxContent, nonce : Nat]
  <2>2. \A m \in ResultMessages :
           [pool |-> m.pool, id |-> m.id, content |-> m.content, nonce |-> m.nonce] \in Shares
    BY DEF ResultMessages
  <2>3. sent' \in Seq(Shares)
    <3>1. sent \in Seq(Shares)
      BY DEF ChannelsTyped
    <3> HIDE DEF Shares
    <3>2. ASSUME NEW m \in ResultMessages,
                 sent' = Append(sent, [pool |-> m.pool, id |-> m.id, content |-> m.content,
                                       nonce |-> m.nonce])
          PROVE  sent' \in Seq(Shares)
      BY <2>2, <3>1, <3>2, AppendRange
    <3> QED
      BY <2>1, <3>1, <3>2
  <2> QED
    BY <2>1, <2>3 DEF TypeOK, ChannelsTyped, coreVars
<1>7. Primary \in Pools
  BY RelayAssumption
<1> QED
  BY <1>1, <1>2, <1>3, <1>4, <1>5, <1>6, <1>7 DEF Next

-----------------------------------------------------------------------------
(* Tokens.                                                                 *)

\* A change of the held jobs that reuses no token keeps the stamps.
LEMMA StampKept ==
    ASSUME TypeOK, liveToken' \in Nat, liveToken <= liveToken',
           \A q \in Pools : \/ held'[q] = NoJob
                            \/ held'[q].token = 0 \/ held'[q].token = liveToken + 1
                            \/ /\ held[q] # NoJob /\ held'[q].token = held[q].token
                               /\ held'[q].content = held[q].content
    PROVE  \A x : x.pool \in Pools /\ x.token \in 1 .. MaxToken /\ Stamped(x, liveToken, held)
                     => Stamped(x, liveToken', held')
<1> SUFFICES ASSUME NEW x, x.pool \in Pools, x.token \in 1 .. MaxToken,
                    Stamped(x, liveToken, held)
             PROVE  Stamped(x, liveToken', held')
  OBVIOUS
<1>1. x.token \in Nat /\ x.token # 0 /\ x.token <= liveToken /\ liveToken \in Nat
  BY RelayAssumption DEF Stamped, TypeOK
<1>2. x.token <= liveToken' /\ x.token # liveToken + 1
  BY <1>1
<1> QED
  BY <1>1, <1>2 DEF Stamped

\* What carries a token: job commands, cores' jobs and results.
LEMMA TokenCarriers ==
    ASSUME ChannelsTyped, NEW w \in Workers
    PROVE  /\ \A c \in Range(down[w]) : c \in Commands
           /\ \A c \in Commands : c.type = "job" => c \in JobCommands
           /\ \A m \in Range(up[w]) : m \in ResultMessages \cup PositionMessages
           /\ \A x \in JobCommands \cup Works \cup ResultMessages \cup PositionMessages :
                 x.pool \in Pools /\ x.token \in 1 .. MaxToken
<1>1. down[w] \in Seq(Commands) /\ up[w] \in Seq(ResultMessages \cup PositionMessages)
  BY DEF ChannelsTyped
<1>2. \A S : \A s \in Seq(S) : \A x \in Range(s) : x \in S
  <2> SUFFICES ASSUME NEW S, NEW s \in Seq(S), NEW x \in Range(s) PROVE x \in S
    OBVIOUS
  <2>1. DOMAIN s = 1 .. Len(s) /\ \E i \in DOMAIN s : x = s[i]
    BY LenProperties DEF Range
  <2> QED
    BY <2>1, ElementOfSeq
<1>3. \A c \in Commands : c.type = "job" => c \in JobCommands
  BY DEF Commands
<1>4. \A x \in JobCommands \cup Works \cup ResultMessages \cup PositionMessages :
         x.pool \in Pools /\ x.token \in 1 .. MaxToken
  BY DEF JobCommands, Works, ResultMessages, PositionMessages
<1> QED
  BY <1>1, <1>2, <1>3, <1>4

\* The stamps of everything in flight survive such a change.
LEMMA FlightKept ==
    ASSUME TypeOK, ChannelsTyped, TokensTell,
           \A x : x.pool \in Pools /\ x.token \in 1 .. MaxToken /\ Stamped(x, liveToken, held)
                     => Stamped(x, liveToken', held'),
           NEW w \in Workers
    PROVE  /\ \A c \in Range(down[w]) : c.type = "job" => Stamped(c, liveToken', held')
           /\ work[w] # NoWork => Stamped(work[w], liveToken', held')
           /\ \A m \in Range(up[w]) : m.type = "result" => Stamped(m, liveToken', held')
<1>1. ASSUME NEW c \in Range(down[w]), c.type = "job" PROVE Stamped(c, liveToken', held')
  <2>1. Stamped(c, liveToken, held) /\ c \in JobCommands
    BY <1>1, TokenCarriers DEF TokensTell
  <2> QED
    BY <2>1, TokenCarriers
<1>2. ASSUME work[w] # NoWork PROVE Stamped(work[w], liveToken', held')
  <2>1. Stamped(work[w], liveToken, held) /\ work[w] \in Works
    BY <1>2 DEF TokensTell, TypeOK
  <2> QED
    BY <2>1, TokenCarriers
<1>3. ASSUME NEW m \in Range(up[w]), m.type = "result" PROVE Stamped(m, liveToken', held')
  <2>1. Stamped(m, liveToken, held) /\ m \in ResultMessages \cup PositionMessages
    BY <1>3, TokenCarriers DEF TokensTell
  <2> QED
    BY <2>1, TokenCarriers
<1> QED
  BY <1>1, <1>2, <1>3

\* What the pipes hold after a dispatch.
LEMMA WrittenRange ==
    ASSUME ChannelsTyped, NEW c \in Commands, Written(c), NEW w \in Workers
    PROVE  /\ Range(down'[w]) \subseteq Range(down[w]) \cup {c, [type |-> "close"]}
           /\ w[1] # generation' /\ w[1] # generation => down'[w] = down[w]
           /\ w[1] = generation' => down'[w] # << >> /\ Last(down'[w]) = c
           /\ w[1] # generation' /\ w[1] = generation =>
                 [type |-> "close"] \in Range(down'[w])
<1>1. down[w] \in Seq(Commands) /\ [type |-> "close"] \in Commands
  BY DEF ChannelsTyped, Commands
<1>2. \A e \in Commands : /\ Append(down[w], e) # << >>
                          /\ Range(Append(down[w], e)) = Range(down[w]) \cup {e}
                          /\ Last(Append(down[w], e)) = e
  BY <1>1, AppendRange
<1>3. <<c>> # << >> /\ Range(<<c>>) = {c} /\ Last(<<c>>) = c
  BY ShortRange
<1>4. CASE /\ generation' = generation
           /\ down'[w] = IF w[1] = generation THEN Append(down[w], c) ELSE down[w]
  BY <1>2, <1>4
<1>5. CASE /\ generation' = generation + 1
           /\ down'[w] = IF w[1] = generation + 1 THEN <<c>>
                         ELSE IF w[1] = generation THEN Append(down[w], [type |-> "close"])
                         ELSE down[w]
  <2>1. CASE w[1] = generation'
    BY <1>3, <1>5, <2>1
  <2>2. CASE w[1] # generation' /\ w[1] = generation
    BY <1>1, <1>2, <1>5, <2>2
  <2>3. CASE w[1] # generation' /\ w[1] # generation
    BY <1>5, <2>3
  <2> QED
    BY <2>1, <2>2, <2>3
<1> QED
  BY <1>4, <1>5 DEF Written

LEMMA TokensStep ==
    ASSUME TypeOK, ChannelsTyped, TokensTell, [Next]_vars
    PROVE  TokensTell'
<1>0. liveToken \in Nat
  BY RelayAssumption DEF TypeOK
<1>1. CASE UNCHANGED vars
  BY <1>1 DEF vars, ctrlVars, coreVars, TokensTell
<1>2. ASSUME NEW p \in Pools, PoolJob(p) \/ Retargets(p) \/ Disconnect(p) \/ WindowEnds
      PROVE  TokensTell'
  <2>1. UNCHANGED <<up, work>>
    BY <1>2, ControllerCases DEF coreVars
  <2>2. ASSUME NEW q \in Pools, NEW h \in [Pools -> Jobs \cup {NoJob}], Dispatches(q, h)
        PROVE  TokensTell'
    <3>1. /\ liveToken' = liveToken + 1 /\ held'[q].token = liveToken + 1
          /\ \A r \in Pools \ {q} : held'[r] \in {held[r], NoJob}
      BY <2>2, DispatchStep
    <3>2. liveToken' \in Nat /\ liveToken <= liveToken' /\ \A n \in Int : n <= liveToken => n <= liveToken'
      BY <1>0, <3>1
    <3>3. \A r \in Pools : \/ held'[r] = NoJob
                           \/ held'[r].token = 0 \/ held'[r].token = liveToken + 1
                           \/ /\ held[r] # NoJob /\ held'[r].token = held[r].token
                              /\ held'[r].content = held[r].content
      BY <3>1
    <3>4. \A x : x.pool \in Pools /\ x.token \in 1 .. MaxToken /\ Stamped(x, liveToken, held)
                     => Stamped(x, liveToken', held')
      BY <3>2, <3>3, StampKept
    <3>5. \A r \in Pools : held'[r] # NoJob => held'[r].token <= liveToken'
      <4>1. \A r \in Pools : held[r] # NoJob => held[r].token \in Int /\ held[r].token <= liveToken
        BY DEF TokensTell, TypeOK, Jobs
      <4>2. liveToken + 1 <= liveToken'
        BY <1>0, <3>1
      <4> QED
        BY <3>1, <3>2, <4>1, <4>2
    <3>6. ASSUME NEW w \in Workers
          PROVE  \A c \in Range(down'[w]) : c.type = "job" => Stamped(c, liveToken', held')
      <4>1. CASE down' = down
        BY <3>4, <4>1, FlightKept
      <4>2. ASSUME NEW d \in JobCommands, d.token = liveToken + 1, Tells(d, q, held'),
                   d.content = held'[q].content, Written(d)
            PROVE  \A c \in Range(down'[w]) : c.type = "job" => Stamped(c, liveToken', held')
        <5>1. Range(down'[w]) \subseteq Range(down[w]) \cup {d, [type |-> "close"]}
          BY <4>2, WrittenRange DEF Commands
        <5>2. Stamped(d, liveToken', held')
          <6>1. d.token <= liveToken'
            BY <1>0, <3>1, <4>2
          <6> QED
            BY <4>2, <6>1 DEF Stamped, Tells, ForHeld
        <5>3. [type |-> "close"].type # "job"
          OBVIOUS
        <5> QED
          BY <3>4, <5>1, <5>2, <5>3, FlightKept
      <4> QED
        BY <2>2, <4>1, <4>2, DispatchStep
    <3> QED
      BY <2>1, <3>4, <3>5, <3>6, FlightKept DEF TokensTell
  <2>3. CASE Stores
    <3>1. /\ liveToken' = liveToken
          /\ \A r \in Pools : held'[r] \in {held[r], NoJob} \/ held'[r].token = 0
          /\ down' \in {down, messageWorkers([type |-> "pause"])}
      BY <2>3 DEF Stores
    <3>2. \A x : x.pool \in Pools /\ x.token \in 1 .. MaxToken /\ Stamped(x, liveToken, held)
                     => Stamped(x, liveToken', held')
      <4>1. liveToken' \in Nat /\ liveToken <= liveToken'
        BY <1>0, <3>1
      <4> QED
        BY <3>1, <4>1, StampKept
    <3>3. \A r \in Pools : held'[r] # NoJob => held'[r].token <= liveToken'
      BY <1>0, <3>1 DEF TokensTell
    <3>4. ASSUME NEW w \in Workers
          PROVE  \A c \in Range(down'[w]) : c.type = "job" => Stamped(c, liveToken', held')
      <4>1. [type |-> "pause"] \in Commands /\ [type |-> "pause"].type # "job"
        BY DEF Commands
      <4>2. down[w] \in Seq(Commands)
        BY DEF ChannelsTyped
      <4>3. Range(Append(down[w], [type |-> "pause"])) = Range(down[w]) \cup {[type |-> "pause"]}
        BY <4>1, <4>2, AppendRange
      <4>4. down'[w] \in {down[w], Append(down[w], [type |-> "pause"])}
        BY <3>1, <4>1, MessagesWritten
      <4> QED
        BY <3>2, <4>1, <4>3, <4>4, FlightKept
    <3> QED
      BY <2>1, <3>2, <3>3, <3>4, FlightKept DEF TokensTell
  <2> QED
    BY <1>2, <2>2, <2>3, ControllerCases
<1>3. CASE Exit
  <2>1. UNCHANGED <<held, liveToken, up, work>> /\ down' = messageWorkers([type |-> "close"])
    BY <1>3 DEF Exit, coreVars
  <2>2. ASSUME NEW w \in Workers
        PROVE  \A c \in Range(down'[w]) : c.type = "job" => c \in Range(down[w])
    <3>1. [type |-> "close"] \in Commands /\ [type |-> "close"].type # "job"
      BY DEF Commands
    <3>2. down[w] \in Seq(Commands)
      BY DEF ChannelsTyped
    <3>3. Range(Append(down[w], [type |-> "close"])) = Range(down[w]) \cup {[type |-> "close"]}
      BY <3>1, <3>2, AppendRange
    <3>4. down'[w] \in {down[w], Append(down[w], [type |-> "close"])}
      BY <2>1, <3>1, MessagesWritten
    <3> QED
      BY <3>1, <3>3, <3>4
  <2> QED
    BY <2>1, <2>2 DEF TokensTell
<1>4. ASSUME NEW w \in Workers, Process(w) PROVE TokensTell'
  <2>1. /\ UNCHANGED <<held, liveToken>> /\ down[w] # << >> /\ down[w] \in Seq(Commands)
        /\ \A v \in Workers : \A m \in Range(up'[v]) : m.type = "result" => m \in Range(up[v])
    BY <1>4, ProcessCases DEF ctrlVars, ChannelsTyped
  <2>2. /\ Range(down[w]) = Range(Tail(down[w])) \cup {Head(down[w])}
    BY <2>1, TailRange
  <2>3. \A v \in Workers : Range(down'[v]) \subseteq Range(down[v])
    <3>1. down'[w] = Tail(down[w]) /\ \A v \in Workers \ {w} : down'[v] = down[v]
      BY <1>4, ProcessCases DEF ChannelsTyped
    <3> QED
      BY <2>2, <3>1
  <2>4. ASSUME NEW v \in Workers, work'[v] # NoWork PROVE Stamped(work'[v], liveToken, held)
    <3>1. CASE work'[v] = work[v]
      BY <2>4, <3>1 DEF TokensTell
    <3>2. CASE work'[v] # work[v]
      <4>1. v = w /\ Head(down[w]) \in JobCommands /\ work'[v] = Take(w, Head(down[w]))
        BY <1>4, <3>2, ProcessCases DEF ChannelsTyped
      <4>2. Stamped(Head(down[w]), liveToken, held)
        BY <2>2, <4>1 DEF TokensTell, JobCommands
      <4> QED
        BY <4>1, <4>2, TakeTyped DEF Stamped
    <3> QED
      BY <3>1, <3>2
  <2> QED
    BY <2>1, <2>3, <2>4 DEF TokensTell
<1>5. ASSUME NEW w \in Workers, Hash(w) PROVE TokensTell'
  <2>1. /\ UNCHANGED <<held, liveToken, down>> /\ work[w] \in Works
        /\ \A v \in Workers \ {w} : work'[v] = work[v]
        /\ work'[w].pool = work[w].pool /\ work'[w].token = work[w].token
        /\ work'[w].content = work[w].content
        /\ \A v \in Workers : \A m \in Range(up'[v]) :
              m \in Range(up[v]) \/ /\ m.pool = work[w].pool /\ m.token = work[w].token
                                    /\ m.content = work[w].content
    BY <1>5, HashCases DEF ctrlVars
  <2>2. Stamped(work[w], liveToken, held)
    <3>1. work[w] # NoWork
      BY <2>1 DEF Works, NoWork
    <3> QED
      BY <3>1 DEF TokensTell
  <2>3. \A x : x.pool = work[w].pool /\ x.token = work[w].token /\ x.content = work[w].content
                 => Stamped(x, liveToken, held)
    BY <2>2 DEF Stamped
  <2>4. \A v \in Workers : work'[v] # NoWork => Stamped(work'[v], liveToken, held)
    BY <2>1, <2>3 DEF TokensTell
  <2>5. \A v \in Workers : \A m \in Range(up'[v]) :
           m.type = "result" => Stamped(m, liveToken, held)
    BY <2>1, <2>3 DEF TokensTell
  <2> QED
    BY <2>1, <2>4, <2>5 DEF TokensTell
<1>6. ASSUME NEW w \in Workers, Deliver(w) PROVE TokensTell'
  <2>1. /\ UNCHANGED <<liveToken, down, work>>
        /\ \A v \in Workers : Range(up'[v]) \subseteq Range(up[v])
        /\ \A q \in Pools : held'[q] # NoJob =>
              /\ held[q] # NoJob /\ held'[q].token = held[q].token
              /\ held'[q].content = held[q].content
    BY <1>6, DeliverCases DEF coreVars
  <2>2. \A x : x.pool \in Pools /\ x.token \in 1 .. MaxToken /\ Stamped(x, liveToken, held)
                   => Stamped(x, liveToken', held')
    <3>1. liveToken' \in Nat /\ liveToken <= liveToken'
      BY <1>0, <2>1
    <3> QED
      BY <2>1, <3>1, StampKept
  <2>3. \A q \in Pools : held'[q] # NoJob => held'[q].token <= liveToken'
    BY <2>1 DEF TokensTell
  <2> QED
    BY <2>1, <2>2, <2>3, FlightKept DEF TokensTell
<1>7. Primary \in Pools
  BY RelayAssumption
<1> QED
  BY <1>1, <1>2, <1>3, <1>4, <1>5, <1>6, <1>7 DEF Next

-----------------------------------------------------------------------------
(* Closing, and what a worker was told last.                               *)

\* Who is told to close stays so, and a generation is told before the next.
LEMMA RetiredStep ==
    ASSUME TypeOK, ChannelsTyped, RetiredClose, [Next]_vars
    PROVE  RetiredClose'
<1>0. generation \in Nat
  BY RelayAssumption DEF TypeOK
<1>1. ASSUME UNCHANGED <<generation, exiting>>, \A w \in Workers : Closing(w) => Closing(w)'
      PROVE  RetiredClose'
  BY <1>1 DEF RetiredClose
<1>2. CASE UNCHANGED vars
  BY <1>1, <1>2 DEF vars, ctrlVars, coreVars, Closing
<1>3. ASSUME NEW w \in Workers, NEW c \in Commands, down'[w] \in {down[w], Append(down[w], c)},
             gone' = gone
      PROVE  Closing(w) => Closing(w)'
  <2>1. down[w] \in Seq(Commands)
    BY DEF ChannelsTyped
  <2>2. Range(Append(down[w], c)) = Range(down[w]) \cup {c}
    BY <2>1, AppendRange
  <2> QED
    BY <1>3, <2>2 DEF Closing
<1>4. ASSUME NEW p \in Pools, PoolJob(p) \/ Retargets(p) \/ Disconnect(p) \/ WindowEnds
      PROVE  RetiredClose'
  <2>1. UNCHANGED <<exiting, gone>>
    BY <1>4, ControllerCases DEF coreVars
  <2>2. ASSUME NEW c \in JobCommands, Written(c), ~exiting PROVE RetiredClose'
    <3> SUFFICES ASSUME NEW w \in Workers, w[1] < generation' PROVE Closing(w)'
      BY <2>1, <2>2 DEF RetiredClose
    <3>1. c \in Commands
      BY DEF Commands
    <3>2. w[1] \in Nat /\ generation' \in {generation, generation + 1}
      BY <2>2, WorkerNames DEF Written
    <3>3. w[1] # generation' /\ (w[1] < generation \/ w[1] = generation)
      BY <1>0, <3>2
    <3>4. CASE w[1] = generation
      <4>1. [type |-> "close"] \in Range(down'[w])
        BY <2>2, <3>1, <3>3, <3>4, WrittenRange
      <4> QED
        BY <4>1 DEF Closing
    <3>5. CASE w[1] < generation
      <4>1. down'[w] = down[w]
        <5>1. w[1] # generation
          BY <1>0, <3>2, <3>5
        <5> QED
          BY <2>2, <3>1, <3>3, <5>1, WrittenRange
      <4> QED
        BY <2>1, <3>5, <4>1 DEF RetiredClose, Closing
    <3> QED
      BY <3>3, <3>4, <3>5
  <2>3. ASSUME NEW q \in Pools, NEW h \in [Pools -> Jobs \cup {NoJob}], Dispatches(q, h)
        PROVE  RetiredClose'
    <3>1. CASE UNCHANGED <<generation, down>>
      BY <1>1, <2>1, <3>1 DEF Closing
    <3> QED
      BY <2>2, <2>3, <3>1, DispatchStep
  <2>4. CASE Stores
    <3>1. [type |-> "pause"] \in Commands
      BY DEF Commands
    <3>2. /\ generation' = generation
          /\ \A w \in Workers : down'[w] \in {down[w], Append(down[w], [type |-> "pause"])}
      BY <2>4, <3>1, MessagesWritten DEF Stores
    <3> QED
      BY <1>1, <1>3, <2>1, <3>1, <3>2
  <2> QED
    BY <1>4, <2>3, <2>4, ControllerCases
<1>5. CASE Exit
  <2>1. UNCHANGED <<generation, gone>> /\ down' = messageWorkers([type |-> "close"]) /\ ~exiting
    BY <1>5 DEF Exit, coreVars
  <2>2. [type |-> "close"] \in Commands
    BY DEF Commands
  <2>3. \A w \in Workers : down'[w] = IF w[1] = generation THEN Append(down[w], [type |-> "close"])
                                      ELSE down[w]
    BY <2>1, <2>2, MessagesWritten
  <2>4. \A w \in Workers : w[1] < generation => Closing(w)'
    <3>1. \A w \in Workers : Closing(w) => Closing(w)'
      BY <1>3, <2>1, <2>2, <2>3
    <3> QED
      BY <3>1 DEF RetiredClose
  <2>5. \A w \in Workers : w[1] = generation => Closing(w)'
    <3> SUFFICES ASSUME NEW w \in Workers, w[1] = generation PROVE Closing(w)'
      OBVIOUS
    <3>1. down[w] \in Seq(Commands)
      BY DEF ChannelsTyped
    <3>2. [type |-> "close"] \in Range(down'[w])
      BY <2>2, <2>3, <3>1, AppendRange
    <3> QED
      BY <3>2 DEF Closing
  <2> QED
    BY <2>1, <2>4, <2>5 DEF RetiredClose
<1>6. ASSUME NEW w \in Workers, Process(w) PROVE RetiredClose'
  <2>1. /\ UNCHANGED <<generation, exiting>> /\ down[w] # << >> /\ down[w] \in Seq(Commands)
        /\ down'[w] = Tail(down[w]) /\ \A v \in Workers \ {w} : down'[v] = down[v]
    BY <1>6, ProcessCases DEF ctrlVars, ChannelsTyped
  <2>2. Range(down[w]) = Range(Tail(down[w])) \cup {Head(down[w])}
    BY <2>1, TailRange
  <2>3. gone \subseteq gone' /\ (Head(down[w]).type = "close" => w \in gone')
    BY <1>6, ProcessCases DEF JobCommands
  <2>4. Closing(w) => Closing(w)'
    BY <2>1, <2>2, <2>3 DEF Closing
  <2>5. \A v \in Workers \ {w} : Closing(v) => Closing(v)'
    BY <2>1, <2>3 DEF Closing
  <2> QED
    BY <1>1, <2>1, <2>4, <2>5
<1>7. ASSUME NEW w \in Workers, Hash(w) \/ Deliver(w) PROVE RetiredClose'
  <2>1. UNCHANGED <<generation, exiting, down, gone>>
    BY <1>7, HashCases, DeliverCases DEF ctrlVars, coreVars
  <2> QED
    BY <1>1, <2>1 DEF Closing
<1>8. Primary \in Pools
  BY RelayAssumption
<1> QED
  BY <1>2, <1>4, <1>5, <1>6, <1>7, <1>8 DEF Next

\* The job of the active pool is the last one its workers were told.
LEMMA ToldStep ==
    ASSUME TypeOK, ChannelsTyped, ToldLast, [Next]_vars
    PROVE  ToldLast'
<1>0. active \in Pools /\ \A w \in Workers : down[w] \in Seq(Commands)
  BY DEF TypeOK, ChannelsTyped
<1>1. CASE UNCHANGED vars
  BY <1>1 DEF vars, ctrlVars, coreVars, ToldLast, Current
<1>2. ASSUME NEW p \in Pools, PoolJob(p) \/ Retargets(p) \/ Disconnect(p) \/ WindowEnds
      PROVE  ToldLast'
  <2>1. UNCHANGED <<exiting, running, work>>
    BY <1>2, ControllerCases DEF coreVars
  <2>2. ASSUME NEW q \in Pools, NEW h \in [Pools -> Jobs \cup {NoJob}], Dispatches(q, h)
        PROVE  ToldLast'
    <3>1. CASE exiting
      BY <2>1, <3>1 DEF ToldLast
    <3>2. CASE ~exiting
      <4>1. PICK c \in JobCommands : Tells(c, q, held') /\ Written(c)
        BY <2>2, <3>2, DispatchStep
      <4>2. active' = q
        BY <2>2, DispatchStep
      <4>3. c \in Commands /\ c.type = "job"
        BY DEF Commands, JobCommands
      <4>4. \A w \in Workers : w[1] = generation' => down'[w] # << >> /\ Last(down'[w]) = c
        BY <4>1, <4>3, WrittenRange
      <4>5. \A w \in Current(generation') : w \in Workers /\ w[1] = generation'
        BY DEF Current
      <4> QED
        BY <4>1, <4>2, <4>3, <4>4, <4>5 DEF ToldLast
    <3> QED
      BY <3>1, <3>2
  <2>3. CASE Stores
    <3>1. CASE held'[active'] = NoJob
      BY <3>1 DEF ToldLast
    <3>2. CASE UNCHANGED <<active, generation, down>> /\ held'[active] = held[active]
      <4>1. \A x : /\ ForHeld(x, active, held) => ForHeld(x, active, held')
                   /\ Tells(x, active, held) => Tells(x, active, held')
        BY <3>2 DEF ForHeld, Tells
      <4> QED
        BY <2>1, <3>2, <4>1 DEF ToldLast
    <3> QED
      BY <2>3, <3>1, <3>2 DEF Stores
  <2> QED
    BY <1>2, <2>2, <2>3, ControllerCases
<1>3. CASE Exit
  BY <1>3 DEF Exit, ToldLast
<1>4. ASSUME NEW w \in Workers, Process(w) PROVE ToldLast'
  <2>1. /\ UNCHANGED <<active, held, generation, exiting>> /\ down[w] # << >>
        /\ down'[w] = Tail(down[w]) /\ \A v \in Workers \ {w} : down'[v] = down[v]
        /\ Head(down[w]) \in Commands
    BY <1>4, ProcessCases DEF ctrlVars, ChannelsTyped
  <2>2. \A v \in Workers \ {w} : running'[v] = running[v] /\ work'[v] = work[v]
    <3>1. /\ running' = running \/ \E b \in BOOLEAN : running' = [running EXCEPT ![w] = b]
          /\ \E x : work' = [work EXCEPT ![w] = x] \/ work' = work
      BY <1>4, ProcessCases, Zenon
    <3> QED
      BY <3>1 DEF TypeOK, ChannelsTyped
  <2>3. /\ Tail(down[w]) = << >> => Last(down[w]) = Head(down[w])
        /\ Tail(down[w]) # << >> => Last(Tail(down[w])) = Last(down[w])
    BY <1>0, <2>1, TailRange
  <2>4. Head(down[w]).type = "job" /\ Head(down[w]).sound /\ running'[w] =>
           Head(down[w]) \in JobCommands /\ work'[w] = Take(w, Head(down[w]))
    <3>1. running \in [Workers -> BOOLEAN] /\ work \in [Workers -> Works \cup {NoWork}]
      BY DEF TypeOK, ChannelsTyped
    <3>2. running' = [running EXCEPT ![w] = FALSE] => ~running'[w]
      BY <3>1, Zenon
    <3> QED
      BY <1>4, <3>1, <3>2, ProcessCases
  <2>5. Tells(Head(down[w]), active, held) /\ running'[w] /\ held[active].sound
           => ForHeld(work'[w], active, held)
    <3>1. Tells(Head(down[w]), active, held) /\ held[active].sound =>
             /\ Head(down[w]).type = "job" /\ Head(down[w]).sound
             /\ ForHeld(Head(down[w]), active, held)
      BY Zenon DEF Tells
    <3> QED
      BY <2>4, <3>1, TakeTyped DEF ForHeld
  <2>6. ASSUME ~exiting, held[active] # NoJob, NEW v \in Current(generation)
        PROVE  IF down'[v] = << >>
               THEN running'[v] /\ held[active].sound => ForHeld(work'[v], active, held)
               ELSE Tells(Last(down'[v]), active, held)
    <3>1. v \in Workers
      BY DEF Current
    <3>2. CASE v # w
      BY <2>1, <2>2, <2>6, <3>1, <3>2 DEF ToldLast
    <3>3. CASE v = w
      <4>1. Tells(Last(down[w]), active, held)
        BY <2>1, <2>6, <3>3 DEF ToldLast
      <4> QED
        BY <2>1, <2>3, <2>5, <3>3, <4>1
    <3> QED
      BY <3>2, <3>3
  <2> QED
    BY <2>1, <2>6 DEF ToldLast
<1>5. ASSUME NEW w \in Workers, Hash(w) PROVE ToldLast'
  <2>1. /\ UNCHANGED <<active, held, generation, exiting, down, running>>
        /\ \A v \in Workers \ {w} : work'[v] = work[v]
        /\ work'[w].pool = work[w].pool /\ work'[w].token = work[w].token /\ work'[w].id = work[w].id
    BY <1>5, HashCases DEF ctrlVars
  <2>2. \A v \in Workers : ForHeld(work[v], active, held) => ForHeld(work'[v], active, held)
    BY <2>1 DEF ForHeld
  <2>3. \A v \in Current(generation) : v \in Workers
    BY DEF Current
  <2> QED
    BY <2>1, <2>2, <2>3 DEF ToldLast
<1>6. ASSUME NEW w \in Workers, Deliver(w) PROVE ToldLast'
  <2>1. UNCHANGED <<active, generation, exiting, down, running, work>> /\ held'[active] = held[active]
    BY <1>6, DeliverCases DEF coreVars
  <2>2. \A x : /\ ForHeld(x, active, held) => ForHeld(x, active, held')
               /\ Tells(x, active, held) => Tells(x, active, held')
    BY <2>1 DEF ForHeld, Tells
  <2> QED
    BY <2>1, <2>2 DEF ToldLast
<1>7. Primary \in Pools
  BY RelayAssumption
<1> QED
  BY <1>1, <1>2, <1>3, <1>4, <1>5, <1>6, <1>7 DEF Next

\* set_job gives the job it dispatches a token above all others, and a core
\* takes only sound jobs.
LEMMA RefusedStep ==
    ASSUME TypeOK, ChannelsTyped, TokensTell, RefusedNewest, [Next]_vars
    PROVE  RefusedNewest'
<1>0. active \in Pools /\ liveToken \in Nat /\ \A w \in Workers : down[w] \in Seq(Commands)
  BY RelayAssumption DEF TypeOK, ChannelsTyped
<1>1. CASE UNCHANGED vars
  BY <1>1 DEF vars, ctrlVars, coreVars, RefusedNewest, Newer
<1>2. ASSUME held'[active'] = held[active],
             \A w \in Workers :
                work'[w] = work[w] \/ (work[w] # NoWork /\ work'[w].token = work[w].token),
             \A w \in Workers :
                \A c \in Range(down'[w]) : c.type = "job" => c \in Range(down[w])
      PROVE  RefusedNewest'
  BY <1>2 DEF RefusedNewest, Newer
<1>3. ASSUME NEW c \in {[type |-> "pause"], [type |-> "close"]}, NEW w \in Workers
      PROVE  \A d \in Range(messageWorkers(c)[w]) : d.type = "job" => d \in Range(down[w])
  <2>1. c \in Commands /\ c.type # "job"
    BY <1>3 DEF Commands
  <2>2. messageWorkers(c)[w] \in {down[w], Append(down[w], c)}
    BY <2>1, MessagesWritten
  <2>3. Range(Append(down[w], c)) = Range(down[w]) \cup {c}
    BY <1>0, <2>1, AppendRange
  <2> QED
    BY <2>1, <2>2, <2>3
<1>4. ASSUME NEW p \in Pools, PoolJob(p) \/ Retargets(p) \/ Disconnect(p) \/ WindowEnds
      PROVE  RefusedNewest'
  <2>1. work' = work
    BY <1>4, ControllerCases DEF coreVars
  <2>2. ASSUME NEW q \in Pools, NEW h \in [Pools -> Jobs \cup {NoJob}], Dispatches(q, h)
        PROVE  RefusedNewest'
    <3> SUFFICES ASSUME ~held'[q].sound, NEW w \in Workers
                 PROVE  /\ work[w] # NoWork => work[w].token < held'[q].token
                        /\ \A c \in Range(down'[w]) :
                              c.type = "job" /\ c.sound => c.token < held'[q].token
      <4>1. active' = q
        BY <2>2, DispatchStep
      <4> QED
        BY <2>1, <4>1 DEF RefusedNewest, Newer
    <3>1. held'[q].token = liveToken + 1
      BY <2>2, DispatchStep
    <3>2. work[w] # NoWork => work[w].token < held'[q].token
      <4>1. work[w] # NoWork => work[w].token \in Nat /\ work[w].token <= liveToken
        BY DEF TokensTell, Stamped, TypeOK, Works
      <4> QED
        BY <1>0, <3>1, <4>1
    <3>3. \A c \in Range(down[w]) : c.type = "job" => c.token < held'[q].token
      <4>1. \A c \in Range(down[w]) : c.type = "job" => c.token \in Int /\ c.token <= liveToken
        BY TokenCarriers DEF TokensTell, Stamped
      <4> QED
        BY <1>0, <3>1, <4>1
    <3>4. \A c \in Range(down'[w]) : c.type = "job" /\ c.sound => c \in Range(down[w])
      <4>1. CASE down' = down
        BY <4>1
      <4>2. ASSUME NEW d \in JobCommands, Tells(d, q, held'), Written(d)
            PROVE  \A c \in Range(down'[w]) : c.type = "job" /\ c.sound => c \in Range(down[w])
        <5>1. Range(down'[w]) \subseteq Range(down[w]) \cup {d, [type |-> "close"]}
          BY <4>2, WrittenRange DEF Commands
        <5>2. ~d.sound /\ [type |-> "close"].type # "job"
          BY <4>2 DEF Tells
        <5> QED
          BY <5>1, <5>2
      <4> QED
        BY <2>2, <4>1, <4>2, DispatchStep
    <3> QED
      BY <3>2, <3>3, <3>4
  <2>3. CASE Stores
    <3>1. CASE held'[active'] = NoJob
      BY <3>1 DEF RefusedNewest, Newer
    <3>2. CASE active' = active /\ held'[active] = held[active] /\ down' = down
      BY <1>2, <2>1, <3>2
    <3> QED
      BY <2>3, <3>1, <3>2 DEF Stores
  <2> QED
    BY <1>4, <2>2, <2>3, ControllerCases
<1>5. CASE Exit
  <2>1. UNCHANGED <<active, held, work>> /\ down' = messageWorkers([type |-> "close"])
    BY <1>5 DEF Exit, coreVars
  <2> QED
    BY <1>2, <1>3, <2>1
<1>6. ASSUME NEW w \in Workers, Process(w) PROVE RefusedNewest'
  <2>1. /\ UNCHANGED <<active, held>> /\ down[w] # << >>
        /\ down'[w] = Tail(down[w]) /\ \A v \in Workers \ {w} : down'[v] = down[v]
    BY <1>6, ProcessCases DEF ctrlVars, ChannelsTyped
  <2>2. Range(down[w]) = Range(Tail(down[w])) \cup {Head(down[w])}
    BY <1>0, <2>1, TailRange
  <2>3. \A v \in Workers : Range(down'[v]) \subseteq Range(down[v])
    BY <2>1, <2>2
  <2>4. CASE work' = work
    BY <1>2, <2>1, <2>3, <2>4
  <2>5. CASE Head(down[w]) \in JobCommands /\ Head(down[w]).sound
             /\ work' = [work EXCEPT ![w] = Take(w, Head(down[w]))]
    <3>1. Take(w, Head(down[w])).token = Head(down[w]).token /\ Head(down[w]).type = "job"
      BY <2>5, TakeTyped DEF JobCommands
    <3>2. /\ work'[w].token = Head(down[w]).token
          /\ \A v \in Workers \ {w} : work'[v] = work[v]
      BY <2>5, <3>1 DEF ChannelsTyped
    <3> QED
      BY <2>1, <2>2, <2>3, <2>5, <3>1, <3>2 DEF RefusedNewest, Newer
  <2> QED
    BY <1>6, <2>4, <2>5, ProcessCases
<1>7. ASSUME NEW w \in Workers, Hash(w) PROVE RefusedNewest'
  <2>1. /\ UNCHANGED <<active, held, down>> /\ work[w] \in Works
        /\ \A v \in Workers \ {w} : work'[v] = work[v]
        /\ work'[w].token = work[w].token
    BY <1>7, HashCases DEF ctrlVars
  <2>2. work[w] # NoWork
    BY <2>1 DEF Works, NoWork
  <2> QED
    BY <1>2, <2>1, <2>2
<1>8. ASSUME NEW w \in Workers, Deliver(w) PROVE RefusedNewest'
  <2>1. UNCHANGED <<active, down, work>> /\ held'[active] = held[active]
    BY <1>8, DeliverCases DEF coreVars
  <2> QED
    BY <1>2, <2>1
<1>9. Primary \in Pools
  BY RelayAssumption
<1> QED
  BY <1>1, <1>4, <1>5, <1>6, <1>7, <1>8, <1>9 DEF Next

-----------------------------------------------------------------------------
(* The theorems.                                                           *)

\* Tokens, pipes and workers agree in every reachable state.
THEOREM Invariance == Spec => []IInv
<1>1. Init => IInv
  <2> SUFFICES ASSUME Init PROVE IInv
    OBVIOUS
  <2>1. /\ active \in Pools /\ 0 \in 0 .. MaxToken /\ 0 \in 0 .. MaxGen /\ 0 \in 0 .. MaxContent
    BY RelayAssumption DEF Init
  <2>2. exiting \in BOOLEAN /\ running \in [Workers -> BOOLEAN]
    BY Zenon DEF Init
  <2>3. TypeOK
    BY <2>1, <2>2 DEF Init, TypeOK
  <2>4. ChannelsTyped
    BY ShortRange DEF Init, ChannelsTyped
  <2>5. TokensTell
    BY ShortRange DEF Init, TokensTell
  <2>6. RetiredClose
    <3>1. \A w \in Workers : ~(w[1] < 0)
      BY WorkerNames
    <3> QED
      BY <3>1 DEF Init, RetiredClose
  <2>7. ToldLast
    BY <2>1 DEF Init, ToldLast
  <2>8. RefusedNewest
    BY <2>1 DEF Init, RefusedNewest, Newer
  <2> QED
    BY <2>3, <2>4, <2>5, <2>6, <2>7, <2>8 DEF IInv
<1>2. IInv /\ [Next]_vars => IInv'
  BY TypeStep, TokensStep, RetiredStep, ToldStep, RefusedStep DEF IInv
<1> QED
  BY <1>1, <1>2, PTL DEF Spec

\* The state has its types in every reachable state.
THEOREM TypeCorrect == Spec => []TypeOK
<1>1. IInv => TypeOK
  BY DEF IInv
<1> QED
  BY <1>1, Invariance, PTL

\* However late a result arrives, handleResult writes it only as a share of the
\* job content it was found on: matchingPoolJob compares tokens, and set_job
\* never reuses one.
THEOREM SharesMatch == Spec => ShareForHeldJob
<1>1. IInv /\ [Next]_vars =>
        [Len(sent') > Len(sent) =>
           LET s == Last(sent') IN
           held[s.pool] # NoJob /\ s.content = held[s.pool].content
                                /\ s.id = held[s.pool].id]_vars
  <2> SUFFICES ASSUME IInv, [Next]_vars, Len(sent') > Len(sent)
               PROVE  /\ held[Last(sent').pool] # NoJob
                      /\ Last(sent').content = held[Last(sent').pool].content
                      /\ Last(sent').id = held[Last(sent').pool].id
    OBVIOUS
  <2> USE DEF IInv
  <2>1. sent' # sent
    <3>1. Len(sent) \in Nat
      BY LenProperties DEF ChannelsTyped
    <3> QED
      BY <3>1
  <2>2. PICK w \in Workers : Deliver(w)
    <3>1. Primary \in Pools
      BY RelayAssumption
    <3>2. \A v \in Workers : Process(v) \/ Hash(v) => sent' = sent
      BY ProcessCases, HashCases
    <3>3. \A p \in Pools : PoolJob(p) \/ Retargets(p) \/ Disconnect(p) \/ WindowEnds => sent' = sent
      BY ControllerCases
    <3>4. UNCHANGED vars \/ Exit => sent' = sent
      BY DEF vars, Exit
    <3> QED
      BY <2>1, <3>1, <3>2, <3>3, <3>4 DEF Next
  <2>3. PICK m \in ResultMessages :
          /\ m \in Range(up[w]) /\ matchingPoolJob(m)
          /\ sent' = Append(sent, [pool |-> m.pool, id |-> m.id, content |-> m.content,
                                   nonce |-> m.nonce])
    BY <2>1, <2>2, DeliverCases
  <2>4. Last(sent') = [pool |-> m.pool, id |-> m.id, content |-> m.content, nonce |-> m.nonce]
    <3> DEFINE Shares == [pool : Pools, id : Ids, content : 1 .. MaxContent, nonce : Nat]
               s == [pool |-> m.pool, id |-> m.id, content |-> m.content, nonce |-> m.nonce]
    <3>1. s \in Shares
      BY DEF ResultMessages
    <3>2. sent \in Seq(Shares)
      BY DEF ChannelsTyped
    <3> HIDE DEF Shares, s
    <3>3. Last(Append(sent, s)) = s
      BY <3>1, <3>2, AppendRange
    <3> QED
      BY <2>3, <3>3 DEF s
  <2>5. Stamped(m, liveToken, held)
    BY <2>3 DEF TokensTell, ResultMessages
  <2> QED
    BY <2>3, <2>4, <2>5 DEF Stamped, matchingPoolJob
<1> QED
  BY <1>1, Invariance, PTL DEF Spec, ShareForHeldJob

\* exit() sends its close commands once and nothing is dispatched afterwards, so
\* every worker ever started has closed or will read one.
THEOREM ExitIsComplete == Spec => []ExitReachesWorkers
<1>1. IInv => ExitReachesWorkers
  <2> SUFFICES ASSUME IInv, exiting, NEW w \in Workers, w[1] <= generation
               PROVE  w \in gone \/ \E i \in DOMAIN down[w] : down[w][i].type = "close"
    BY DEF ExitReachesWorkers
  <2>1. w[1] < generation \/ w[1] = generation
    BY WorkerNames, RelayAssumption DEF IInv, TypeOK
  <2>2. Closing(w)
    BY <2>1 DEF IInv, RetiredClose
  <2> QED
    BY <2>2 DEF Closing, Range
<1> QED
  BY <1>1, Invariance, PTL

\* A worker in use that has read its commands mines the job of the active pool,
\* under the token and the id its shares will be matched by; a worker whose core
\* refused that job or failed on it mines under an older token or not at all.
THEOREM MinesHeldJob == Spec => []CaughtUpWorkerMinesHeldJob
<1>1. IInv => CaughtUpWorkerMinesHeldJob
  <2> SUFFICES ASSUME IInv, NEW w \in Current(generation), ~exiting, down[w] = << >>,
                      running[w], held[active] # NoJob
               PROVE  IF held[active].sound THEN ForHeld(work[w], active, held)
                      ELSE work[w].token < held[active].token
    BY DEF CaughtUpWorkerMinesHeldJob, ForHeld
  <2>1. w \in Workers
    BY DEF Current
  <2>2. work[w] # NoWork
    BY <2>1 DEF IInv, TypeOK
  <2>3. CASE held[active].sound
    BY <2>3 DEF IInv, ToldLast
  <2>4. CASE ~held[active].sound
    BY <2>1, <2>2, <2>4 DEF IInv, RefusedNewest, Newer
  <2> QED
    BY <2>3, <2>4
<1> QED
  BY <1>1, Invariance, PTL
=============================================================================
