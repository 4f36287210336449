------------------------ MODULE ComputeThreadProofs ------------------------
(***************************************************************************)
(* The safety invariants of ComputeThread, and that it implements          *)
(* CommandChannel, for any scripts of commands, any number of RandomX      *)
(* threads and any bound on the results found.                             *)
(*                                                                         *)
(* The invariants rest on each other: the order of the queues gives the    *)
(* command in hand, which gives what set_job may do to threads and memory, *)
(* which gives what an event may be tagged with.  One lemma per part of    *)
(* the inductive invariant, one step per action in each.                   *)
(***************************************************************************)
EXTENDS ComputeThread, SequenceTheorems, TLAPS

-----------------------------------------------------------------------------
(* The inductive invariant.                                                *)

\* Places of the compute thread while it may still handle commands.
Live == pc \in {"off", "drain", "handle", "join"}
\* Places after the terminal event.
Ended == {"refuse", "mark", "release", "dead"}

\* What was drained, and then what is queued, are the commands after the last
\* one handled, in the order they were written.
QueueOrder ==
    Live =>
      /\ Len(batch) + Len(fromNode) + handled = Len(sent)
      /\ \A i \in 1 .. Len(batch) : batch[i] = handled + i
      /\ \A i \in 1 .. Len(fromNode) : fromNode[i] = handled + Len(batch) + i
      /\ pc \in {"off", "drain"} => batch = << >>

\* The compute thread exists from start() on, and its thread-safe function is
\* open until the last step of run().
ThreadStarted ==
    /\ ~started => pc = "off"
    /\ tsfn = "open" <=> pc \notin {"off", "dead"}

\* The last command handled was close exactly when the loop ended in order.
EndReason ==
    /\ over = "no" <=> pc \notin Ended
    /\ Live \/ pc \in {"unwind", "failed"} =>
         handled = 0 \/ sent[handled].kind # "close"
    /\ pc = "complete" => handled > 0 /\ sent[handled].kind = "close"

\* Nothing is written after a close: every way there asks m_accepting first.
CloseIsLast ==
    /\ \A i \in 1 .. Len(sent) : sent[i].kind = "close" =>
         /\ js \notin {"write", "writeClose"}
         /\ js \in {"shut", "join", "gone"} \/ ~accepting

\* Whom the members of Core describe.
MembersMatch ==
    /\ job # None => sent[job].input = input
    /\ dev = "fn" /\ pos # None => sent[pos].input = input
    /\ hasFn /\ mode = "mine" => job # None

\* A RandomX thread works for the job of the members, on its memory.
LanesMatch ==
    \A b \in Lanes : Alive(b) =>
        /\ pc \in {"drain", "handle", "join", "unwind"}
        /\ dev = "rx" /\ rx[b].job # None
        /\ sent[rx[b].job].kind = "mine" => job = rx[b].job
        /\ rx[b].st = "send" => sent[rx[b].job].kind = "mine"
        /\ vms /\ dataset = sent[rx[b].job].key

\* Memory counts as built for m_algo_str, unless an end freed it.
MemoryBuilt ==
    pc \in {"off", "drain", "handle", "join", "unwind"} /\ dev = "rx"
        /\ key # NoKey => vms /\ dataset = key

\* No terminal event before the end, none behind it.
EventsEnd ==
    /\ over = "no" => /\ ~told
                      /\ \A i \in 1 .. Len(events) : events[i].type \notin Terminals
    /\ \A i \in 1 .. Len(events) : events[i].type \in Terminals => i = Len(events)
    /\ told => events = << >>

\* The positions somebody still has to report.
Due == owed \ lost

\* Who owes a position: the compute thread for a job of m_fn, a RandomX thread
\* that still hashes for the lane of its job.
OwedBy ==
    /\ pc \in {"off", "drain", "handle", "join"} =>
         \A o \in Due :
            \/ o[2] = 0 /\ o[1] = job /\ dev = "fn"
            \/ /\ o[2] \in Lanes /\ Alive(o[2]) /\ rx[o[2]].job = o[1]
               /\ sent[o[1]].kind = "mine"
    /\ pc = "join" /\ Cur.kind = "close" => \A o \in Due : o[2] # 0
    /\ pc = "complete" \/ over = "complete" => Due = {}

\* What events and RandomX threads are made of, as in TypeOK.
EventType == [type : {"result", "last_nonce", "test", "answer", "error"} \cup Terminals,
              tag : Tokens, input : Inputs]
LaneType == [st : {"none", "hash", "send", "done"}, ref : Nat, job : Tokens]

IInv ==
    /\ TypeOK
    /\ QueueOrder /\ ThreadStarted /\ EndReason /\ CloseIsLast
    /\ MembersMatch /\ LanesMatch /\ MemoryBuilt /\ EventsEnd /\ TagsMatch
    /\ OwedBy

-----------------------------------------------------------------------------
(* Operators.                                                              *)

\* Every command posted has the fields of CmdType.
LEMMA CmdsTyped == Cmds \subseteq CmdType
<1>1. Close \in CmdType
  BY DEF Close, CmdType, Kinds, Inputs
<1>2. ASSUME NEW s \in Scripts, NEW i \in DOMAIN s PROVE s[i] \in CmdType
  <2>1. s \in Seq(CmdType)
    BY ThreadAssumption
  <2> QED
    BY <2>1
<1> QED
  BY <1>1, <1>2 DEF Cmds

\* Writing a command leaves the earlier ones where they are.
LEMMA WriteKeeps ==
    ASSUME TypeOK, NEW c \in Cmds, Write(c)
    PROVE  /\ sent' \in Seq(Cmds) /\ Len(sent') = Len(sent) + 1
           /\ \A i \in 1 .. Len(sent) : sent'[i] = sent[i]
           /\ sent'[Len(sent) + 1] = c
           /\ Tokens \subseteq Tokens'
           /\ fromNode' = Append(fromNode, Len(sent) + 1)
           /\ fromNode' \in Seq(Tokens')
  BY DEF TypeOK, Write, Tokens

\* An event of the model is typed when its job and its blob are.
LEMMA SendTyped ==
    ASSUME TypeOK, NEW es \in Seq(EventType), Send(es)
    PROVE  /\ events' \in Seq(EventType)
           /\ tsfn = "open" => events' = events \o es
           /\ tsfn # "open" => events' = events
  BY DEF TypeOK, Send, EventType

\* Where a command leads back to the loop, its batch shrinks by one.
LEMMA DoneTyped ==
    ASSUME TypeOK, QueueOrder, Live, batch # << >>, Done
    PROVE  /\ batch' \in Seq(Tokens) /\ handled' \in 1 .. Len(sent)
           /\ Len(batch') = Len(batch) - 1
           /\ \A i \in 1 .. Len(batch') : batch'[i] = batch[i + 1]
           /\ pc' \in {"drain", "handle"} /\ (pc' = "drain" <=> batch' = << >>)
<1>1. batch \in Seq(Nat) /\ Len(batch) > 0 /\ handled \in Nat /\ Len(sent) \in Nat
  BY DEF TypeOK, Tokens
<1>2. handled + 1 <= Len(sent)
  BY <1>1 DEF QueueOrder, TypeOK
<1>3. batch' = Tail(batch) /\ batch' \in Seq(Tokens)
  BY <1>1 DEF Done, TypeOK
<1>4. Len(batch') = Len(batch) - 1 /\ \A i \in 1 .. Len(batch') : batch'[i] = batch[i + 1]
  BY <1>1, <1>3
<1>5. batch' = << >> <=> Len(batch) = 1
  <2>1. batch' = << >> <=> Len(batch') = 0
    BY <1>3, EmptySeq
  <2>2. Len(batch) \in Nat
    BY <1>1, LenProperties
  <2> QED
    BY <1>4, <2>1, <2>2
<1>6. pc' \in {"drain", "handle"} /\ (pc' = "drain" <=> batch' = << >>)
  BY <1>5 DEF Done
<1>7. handled' \in 1 .. Len(sent)
  BY <1>1, <1>2 DEF Done
<1> QED
  BY <1>3, <1>4, <1>6, <1>7
-----------------------------------------------------------------------------
(* Types.                                                                  *)

\* The part of TypeOK that speaks of places in `sent'.
TokensOK ==
    /\ fromNode \in Seq(Tokens) /\ batch \in Seq(Tokens)
    /\ events \in Seq(EventType)
    /\ job \in Tokens /\ pos \in Tokens
    /\ rx \in [Lanes -> LaneType]
    /\ sent \in Seq(Cmds) /\ handled \in 0 .. Len(sent)
    /\ owed \cup lost \subseteq Tokens \X (0 .. B)

\* The part of TypeOK that does not.
ControlOK ==
    /\ js \in {"idle", "recheck", "write", "shut", "exchange", "writeClose",
               "join", "gone"}
    /\ cmd \in Cmds
    /\ {accepting, started, stopped, hasFn, vms, told} \subseteq BOOLEAN
    /\ tsfn \in {"none", "open", "released"}
    /\ pc \in {"off", "drain", "handle", "join", "unwind", "refuse", "mark",
               "release", "dead"} \cup Terminals
    /\ pc \in {"handle", "join"} => batch # << >>
    /\ dev \in {"fn", "rx"} /\ mode \in Work /\ input \in Inputs /\ ref \in Nat
    /\ over \in {"no", "complete", "error"}
    /\ found \in 0 .. MaxFound

\* The two parts are TypeOK.
LEMMA TypeSplit == TypeOK <=> TokensOK /\ ControlOK
  BY DEF TypeOK, TokensOK, ControlOK, EventType, LaneType

\* A command written makes room for one more token.
LEMMA WriteTokens ==
    ASSUME TokensOK, NEW c \in Cmds, Write(c),
           UNCHANGED <<batch, events, job, pos, rx, handled, owed, lost>>
    PROVE  TokensOK'
<1>1. /\ Tokens \subseteq Tokens' /\ Len(sent) + 1 \in Tokens' /\ Len(sent) \in Nat
      /\ sent' \in Seq(Cmds) /\ Len(sent') = Len(sent) + 1
  BY DEF TokensOK, Write, Tokens
<1> HIDE DEF Tokens
<1>2. fromNode' \in Seq(Tokens')
  BY <1>1, SeqMonotonic, AppendProperties DEF TokensOK, Write
<1>3. batch' \in Seq(Tokens')
  BY <1>1, SeqMonotonic DEF TokensOK
<1>4. events' \in Seq(EventType')
  <2>1. EventType \subseteq EventType'
    BY <1>1 DEF EventType
  <2> QED
    BY <2>1, SeqMonotonic DEF TokensOK
<1>5. rx' \in [Lanes -> LaneType']
  BY <1>1 DEF TokensOK, LaneType
<1>6. handled' \in 0 .. Len(sent') /\ (owed \cup lost)' \subseteq Tokens' \X (0 .. B)
  BY <1>1 DEF TokensOK
<1> QED
  BY <1>1, <1>2, <1>3, <1>4, <1>5, <1>6 DEF TokensOK

\* A command in hand is one of those written.
LEMMA CurTyped ==
    ASSUME TypeOK, QueueOrder, pc \in {"handle", "join"}
    PROVE  /\ Head(batch) \in Tokens /\ Head(batch) = handled + 1
           /\ Head(batch) \in 1 .. Len(sent)
           /\ Cur \in Cmds /\ Cur \in CmdType
<1>1. batch \in Seq(Tokens) /\ batch # << >> /\ Len(batch) \in Nat \ {0}
  BY EmptySeq DEF TypeOK
<1>2. Head(batch) = batch[1] /\ Head(batch) \in Tokens
  BY <1>1
<1>3. Head(batch) = handled + 1 /\ handled \in Nat
  BY <1>1, <1>2 DEF QueueOrder, Live, TypeOK
<1>4. Head(batch) \in 1 .. Len(sent)
  BY <1>2, <1>3 DEF Tokens, TypeOK
<1>5. Cur \in Cmds
  BY <1>4, ElementOfSeq DEF TypeOK, Cur
<1> QED
  BY <1>2, <1>3, <1>4, <1>5, CmdsTyped

\* Every event is about a job that was sent and a blob.
LEMMA EventsTyped ==
    ASSUME TypeOK
    PROVE  /\ \A t \in {"test", "answer", "error", "complete", "failed"} :
                 <<Plain(t)>> \in Seq(EventType)
           /\ LastNonce \in Seq(EventType)
           /\ \A t \in {"result", "last_nonce"}, j \in Tokens, k \in Tokens \ {None} :
                 <<Event(t, j, sent[k].input)>> \in Seq(EventType)
           /\ \A j \in Tokens : <<Event("result", j, input)>> \in Seq(EventType)
<1>1. \A k \in Tokens \ {None} : sent[k].input \in Inputs
  <2>1. \A k \in Tokens \ {None} : sent[k] \in CmdType
    BY CmdsTyped, ElementOfSeq DEF TypeOK, Tokens, None
  <2> QED
    BY <2>1 DEF CmdType
<1>2. None \in Tokens /\ job \in Tokens /\ pos \in Tokens
  BY LenProperties DEF TypeOK, Tokens, None
<1>0. "" \in Inputs /\ input \in Inputs
  BY DEF TypeOK, Inputs
<1>3. ASSUME NEW t \in {"result", "last_nonce", "test", "answer", "error"} \cup Terminals,
             NEW j \in Tokens, NEW i \in Inputs
      PROVE  <<Event(t, j, i)>> \in Seq(EventType)
  BY DEF Event, EventType
<1>4. LastNonce \in Seq(EventType)
  BY <1>1, <1>2, <1>3, EmptySeq DEF LastNonce
<1> QED
  BY <1>0, <1>1, <1>2, <1>3, <1>4 DEF Plain, Terminals

\* Tokens are those of the commands sent.
LEMMA SameSent ==
    ASSUME sent' = sent
    PROVE  Tokens' = Tokens /\ EventType' = EventType /\ LaneType' = LaneType
  BY DEF Tokens, EventType, LaneType

\* Steps that move no token.
TokensStill ==
    UNCHANGED <<fromNode, batch, events, job, pos, rx, sent, handled, owed, lost>>

\* Every step keeps the tokens typed.
LEMMA TokensStep ==
    ASSUME TypeOK, QueueOrder, LanesMatch, [Next]_vars
    PROVE  TokensOK'
<1> USE TypeSplit
<1>1. CASE TokensStill
  BY <1>1, SameSent DEF TokensStill, TokensOK
<1>2. CASE PostWrite \/ StopWrite
  <2>1. Close \in Cmds /\ cmd \in Cmds
    BY DEF Cmds, TypeOK
  <2> QED
    BY <1>2, <2>1, WriteTokens DEF PostWrite, StopWrite, jobVars
<1>3. CASE CallEvent
  BY <1>3, HeadTailProperties, SameSent DEF CallEvent, TokensOK, jobVars
<1>4. CASE Drain
  BY <1>4, EmptySeq, SameSent DEF Drain, TokensOK, jobVars, ghosts
<1>5. ASSUME NEW b \in Lanes, RxStep(b) PROVE TokensOK'
  <2>1. rx[b].job \in Tokens /\ (Alive(b) => rx[b].job # None) /\ job \in Tokens
    BY DEF TypeOK, LanesMatch
  <2>2. events' \in Seq(EventType)
    BY <1>5, <2>1, EventsTyped, SendTyped, EmptySeq
       DEF RxStep, RxFind, RxSend, RxTest, RxFails, RxLeave, Alive, RxCmd, TypeOK, EventType
  <2>3. \E st \in {"hash", "send", "done"} : RxTo(b, st)
    BY <1>5 DEF RxStep, RxFind, RxSend, RxTest, RxFails, RxLeave
  <2>4. /\ owed' \subseteq owed /\ lost' \subseteq lost \cup {<<rx[b].job, b>>}
        /\ UNCHANGED <<fromNode, batch, job, pos, sent, handled>>
    BY <1>5 DEF RxStep, RxFind, RxSend, RxTest, RxFails, RxLeave, RxUnchanged, jobVars
  <2>6. <<rx[b].job, b>> \in Tokens \X (0 .. B)
    BY <2>1, ThreadAssumption DEF Lanes
  <2>5. rx' \in [Lanes -> LaneType]
    BY <2>3 DEF RxTo, TokensOK, LaneType
  <2> QED
    BY <2>2, <2>4, <2>5, <2>6, SameSent DEF TokensOK
<1>6. CASE Dispatch
  <2>1. events' \in Seq(EventType)
    BY <1>6, EventsTyped, SendTyped DEF Dispatch, TypeOK
  <2> QED
    BY <1>6, <2>1, SameSent DEF Dispatch, TokensOK, jobVars
<1>7. CASE Begin
  <2>1. events' \in Seq(EventType) /\ owed' \subseteq owed
    BY <1>7, EventsTyped, SendTyped DEF Begin, TypeOK, EventType
  <2> QED
    BY <1>7, <2>1, SameSent DEF Begin, TokensOK, jobVars
<1>8. CASE Terminal
  <2>1. events' \in Seq(EventType)
    BY <1>8, EventsTyped, SendTyped DEF Terminal, Terminals
  <2> QED
    BY <1>8, <2>1, SameSent DEF Terminal, TokensOK, jobVars
<1>9. RxCleared \in [Lanes -> LaneType]
  BY LenProperties DEF RxCleared, Off, LaneType, Tokens, None, TypeOK
<1>10. CASE Unwound
  <2>1. rx' \in [Lanes -> LaneType]
    BY <1>10, LenProperties DEF Unwound, Off, LaneType, Tokens, None, TypeOK
  <2> QED
    BY <1>10, <2>1, SameSent DEF Unwound, TokensOK, LaneType, jobVars, ghosts
<1>11. CASE ApplyClose
  <2>1. handled' \in 0 .. Len(sent) /\ batch' \in Seq(Tokens)
    BY <1>11, CurTyped, EmptySeq DEF ApplyClose, Ready, TypeOK
  <2> QED
    BY <1>11, <1>9, <2>1, SameSent DEF ApplyClose, TokensOK, LaneType, jobVars
<1>12. ASSUME pc \in {"handle", "join"}, Done
       PROVE  batch' \in Seq(Tokens) /\ handled' \in 0 .. Len(sent)
  BY <1>12, DoneTyped DEF Live, TypeOK
<1>13. CASE HandleOther
  <2>1. events' \in Seq(EventType)
    BY <1>13, EventsTyped, SendTyped, EmptySeq DEF HandleOther
  <2> QED
    BY <1>12, <1>13, <2>1, SameSent DEF HandleOther, TokensOK, jobVars
<1>14. CASE ApplyPause
  BY <1>9, <1>12, <1>14, SameSent DEF ApplyPause, Ready, TokensOK, LaneType
<1>15. CASE SetJob(Cur)
  <2> DEFINE c == Cur
  <2>1. pc = "join"
    BY <1>15 DEF SetJob, Refresh, SetJobFails, SetJobFn, SetJobRx, SetJobRxUnwinds, Ready
  <2>2. /\ Head(batch) \in Tokens /\ JobOf(c) \in Tokens /\ None \in Tokens
        /\ Lane(c) \subseteq Tokens \X (0 .. B)
    <3>1. Head(batch) \in Tokens /\ None \in Tokens
      BY <2>1, CurTyped, LenProperties DEF Tokens, None, TypeOK
    <3>2. Lanes \subseteq 0 .. B /\ 0 \in 0 .. B
      BY ThreadAssumption DEF Lanes
    <3> QED
      BY <3>1, <3>2 DEF JobOf, Lane
  <2>3. events' \in Seq(EventType)
    BY <1>15, <2>1, EventsTyped, SendTyped
       DEF SetJob, Refresh, SetJobFails, SetJobFn, SetJobRx, SetJobRxUnwinds, TypeOK, EventType
  <2>4. CASE Refresh(c)
    BY <1>12, <2>1, <2>2, <2>3, <2>4, SameSent DEF Refresh, TokensOK
  <2>5. CASE SetJobFails(c)
    BY <1>9, <1>12, <2>1, <2>3, <2>5, SameSent DEF SetJobFails, TokensOK, LaneType
  <2>6. CASE SetJobFn(c)
    BY <1>9, <1>12, <2>1, <2>2, <2>3, <2>6, SameSent DEF SetJobFn, Members, TokensOK, LaneType
  <2>7. CASE SetJobRx(c)
    <3>1. rx' \in [Lanes -> LaneType]
      BY <2>2, <2>7 DEF SetJobRx, Members, LaneType, TypeOK
    <3> QED
      BY <1>12, <2>1, <2>2, <2>3, <2>7, <3>1, SameSent DEF SetJobRx, Members, TokensOK, LaneType
  <2>8. CASE SetJobRxUnwinds(c)
    <3>1. rx' \in [Lanes -> LaneType]
      BY <2>2, <2>8 DEF SetJobRxUnwinds, Off, LaneType, TypeOK
    <3> QED
      BY <2>2, <2>8, <3>1, SameSent DEF SetJobRxUnwinds, TokensOK, LaneType, ghosts
  <2> QED
    BY <1>15, <2>4, <2>5, <2>6, <2>7, <2>8 DEF SetJob
<1>16. (\E c \in Cmds : Post(c)) \/ StartFails \/ Destroy \/ Recheck \/ PostShut \/ Exchange
       \/ Joined \/ Unwind \/ Refuse \/ Mark \/ Release \/ UNCHANGED vars => TokensStill
  BY DEF Post, StartFails, Destroy, Recheck, PostShut, Exchange, Joined, Unwind, Refuse, Mark,
         Release, vars, jobVars, ghosts, TokensStill
<1> QED
  BY <1>1, <1>2, <1>3, <1>4, <1>5, <1>6, <1>7, <1>8, <1>10, <1>11, <1>13, <1>14, <1>15, <1>16
     DEF Next, JsStep, ComputeStep

\* The flags are Booleans, in every state and after every step.
LEMMA FlagsStep ==
    ASSUME TypeOK, [Next]_vars
    PROVE  {accepting, started, stopped, hasFn, vms, told}' \subseteq BOOLEAN
<1> DEFINE Flags == /\ accepting \in BOOLEAN /\ started \in BOOLEAN /\ stopped \in BOOLEAN
                    /\ hasFn \in BOOLEAN /\ vms \in BOOLEAN /\ told \in BOOLEAN
<1>1. Flags
  BY DEF TypeOK
<1>2. ASSUME NEW c \in Cmds, Post(c) PROVE Flags'
  BY <1>1, <1>2, Zenon DEF Post, jobVars, memVars, ghosts
<1>3. CASE StartFails \/ Destroy \/ JsStep \/ CallEvent
  BY <1>1, <1>3, Zenon
     DEF StartFails, Destroy, JsStep, Recheck, PostWrite, PostShut, Exchange, StopWrite,
         Joined, CallEvent, jobVars, memVars, jsVars, ghosts
<1>4. CASE Drain \/ HandleOther \/ Begin \/ ApplyPause \/ ApplyClose \/ Unwind \/ Unwound
  BY <1>1, <1>4, Zenon
     DEF Drain, HandleOther, Begin, ApplyPause, ApplyClose, Unwind, Unwound,
         jobVars, memVars, jsVars, ghosts
<1>5. CASE Terminal \/ Refuse \/ Mark \/ Release \/ Dispatch
  BY <1>1, <1>5, Zenon
     DEF Terminal, Refuse, Mark, Release, Dispatch, jobVars, memVars, jsVars, ghosts
<1>6. CASE SetJob(Cur)
  BY <1>1, <1>6, Zenon
     DEF SetJob, Refresh, SetJobFails, SetJobFn, SetJobRx, SetJobRxUnwinds, Members,
         jobVars, memVars, jsVars, ghosts
<1>7. ASSUME NEW b \in Lanes, RxStep(b) PROVE Flags'
  BY <1>1, <1>7, Zenon
     DEF RxStep, RxFind, RxSend, RxTest, RxFails, RxLeave, RxUnchanged, jobVars, memVars, jsVars
<1>8. CASE UNCHANGED vars
  BY <1>1, <1>8, Zenon DEF vars
<1>9. Flags'
  BY <1>2, <1>3, <1>4, <1>5, <1>6, <1>7, <1>8, Zenon DEF Next, ComputeStep
<1> QED
  BY <1>9

\* Every step keeps the control state typed.
LEMMA ControlStep ==
    ASSUME TypeOK, QueueOrder, ThreadStarted, [Next]_vars
    PROVE  ControlOK'
<1> USE TypeSplit, FlagsStep
<1>1. ASSUME NEW c \in Cmds, Post(c) PROVE ControlOK'
  BY <1>1 DEF Post, ControlOK, jobVars, ghosts
<1>2. CASE StartFails \/ Destroy \/ JsStep \/ CallEvent
  BY <1>2
     DEF StartFails, Destroy, JsStep, Recheck, PostWrite, PostShut, Exchange, StopWrite,
         Joined, CallEvent, ControlOK, jobVars, jsVars, ghosts
<1>3. CASE Drain \/ Begin \/ ApplyClose \/ Unwind \/ Unwound
  BY <1>3
     DEF Drain, Begin, ApplyClose, Unwind, Unwound, Ready, NextJobRef, ControlOK, Terminals,
         jobVars, jsVars, ghosts
<1>4. CASE Terminal \/ Refuse \/ Mark \/ Release
  BY <1>4 DEF Terminal, Refuse, Mark, Release, ControlOK, Terminals, jobVars, jsVars, ghosts
<1>5. CASE Dispatch
  BY <1>5, ThreadAssumption DEF Dispatch, ControlOK, jsVars
<1>6. ASSUME NEW b \in Lanes, RxStep(b) PROVE ControlOK'
  BY <1>6, ThreadAssumption
     DEF RxStep, RxFind, RxSend, RxTest, RxFails, RxLeave, RxUnchanged, ControlOK, jobVars, jsVars
<1>7. ASSUME pc \in {"handle", "join"}, Done
      PROVE  pc' \in {"drain", "handle"} /\ (pc' = "handle" => batch' # << >>)
  BY <1>7, DoneTyped DEF Live, ControlOK
<1>8. CASE HandleOther \/ ApplyPause
  BY <1>7, <1>8 DEF HandleOther, ApplyPause, Ready, ControlOK, jobVars, jsVars
<1>9. CASE SetJob(Cur)
  <2> DEFINE c == Cur
  <2>1. pc = "join" /\ c.kind \in Work
    BY <1>9 DEF SetJob, Refresh, SetJobFails, SetJobFn, SetJobRx, SetJobRxUnwinds, Ready
  <2>2. c.dev \in {"fn", "rx"} /\ c.input \in Inputs
    BY <2>1, CurTyped DEF CmdType
  <2> HIDE DEF c
  <2>3. CASE Refresh(c) \/ SetJobFails(c)
    BY <1>7, <2>1, <2>3 DEF Refresh, SetJobFails, ControlOK, jsVars
  <2>4. CASE SetJobFn(c) \/ SetJobRx(c)
    BY <1>7, <2>1, <2>2, <2>4 DEF SetJobFn, SetJobRx, Members, ControlOK, jsVars
  <2>5. CASE SetJobRxUnwinds(c)
    BY <2>1, <2>2, <2>5 DEF SetJobRxUnwinds, ControlOK, jsVars, ghosts
  <2> QED
    BY <1>9, <2>3, <2>4, <2>5 DEF SetJob, c
<1>10. CASE UNCHANGED vars
  BY <1>10 DEF vars, ControlOK
<1> QED
  BY <1>1, <1>2, <1>3, <1>4, <1>5, <1>6, <1>8, <1>9, <1>10 DEF Next, ComputeStep

-----------------------------------------------------------------------------
(* The order of commands.                                                  *)

\* Steps of the JavaScript thread that write nothing, and of the RandomX
\* threads, leave the queues alone.
QueueStill == UNCHANGED <<fromNode, batch, sent, handled>>

\* Every step keeps the queues in order.
LEMMA QueueStep ==
    ASSUME TypeOK, QueueOrder, ThreadStarted, [Next]_vars
    PROVE  QueueOrder'
<1>1. CASE QueueStill /\ (UNCHANGED pc \/ ~Live')
  BY <1>1 DEF QueueStill, QueueOrder, Live
<1>2. CASE PostWrite \/ StopWrite
  <2>1. PICK c \in Cmds : Write(c) /\ UNCHANGED <<pc, batch, handled>>
    BY <1>2 DEF PostWrite, StopWrite, Cmds, TypeOK
  <2>0. Len(sent) \in Nat /\ Len(batch) \in Nat /\ Len(fromNode) \in Nat /\ handled \in Nat
    BY LenProperties DEF TypeOK
  <2>8. Len(sent') = Len(sent) + 1
    BY <2>1, WriteKeeps
  <2>2. fromNode' = Append(fromNode, Len(sent) + 1) /\ fromNode \in Seq(Nat)
    <3>1. Tokens \subseteq Nat
      BY DEF Tokens
    <3> QED
      BY <2>1, <3>1, SeqMonotonic DEF TypeOK, Write
  <2>9. Len(fromNode') = Len(fromNode) + 1
    BY <2>0, <2>2, AppendProperties
  <2>3. /\ fromNode'[Len(fromNode) + 1] = Len(sent) + 1
        /\ \A i \in 1 .. Len(fromNode) : fromNode'[i] = fromNode[i]
    BY <2>0, <2>2, AppendProperties
  <2>4. SUFFICES ASSUME Live' PROVE QueueOrder'
    BY DEF QueueOrder
  <2>5. /\ Len(batch) + Len(fromNode) + handled = Len(sent)
        /\ \A i \in 1 .. Len(batch) : batch[i] = handled + i
        /\ \A i \in 1 .. Len(fromNode) : fromNode[i] = handled + Len(batch) + i
        /\ pc \in {"off", "drain"} => batch = << >>
    BY <2>1, <2>4 DEF QueueOrder, Live
  <2>6. \A i \in 1 .. Len(fromNode') : fromNode'[i] = handled + Len(batch) + i
    <3>1. Len(sent) = handled + Len(batch) + Len(fromNode)
      BY <2>0, <2>5
    <3>2. fromNode'[Len(fromNode) + 1] = handled + Len(batch) + (Len(fromNode) + 1)
      BY <2>0, <2>3, <3>1
    <3>3. \A i \in 1 .. Len(fromNode) : fromNode'[i] = handled + Len(batch) + i
      BY <2>3, <2>5
    <3>4. \A i \in 1 .. Len(fromNode') : i \in 1 .. Len(fromNode) \/ i = Len(fromNode) + 1
      BY <2>0, <2>9
    <3> QED
      BY <3>2, <3>3, <3>4
  <2>7. Len(batch) + Len(fromNode') + handled = Len(sent')
    <3>1. Len(batch) + Len(fromNode) + handled = Len(sent)
      BY <2>5
    <3> QED
      BY <2>0, <2>8, <2>9, <3>1
  <2> QED
    BY <2>1, <2>5, <2>6, <2>7 DEF QueueOrder
<1>3. CASE Drain
  BY <1>3, EmptySeq DEF Drain, QueueOrder, Live, TypeOK, Tokens, ghosts
<1>4. CASE Begin
  BY <1>4 DEF Begin, QueueOrder, Live
<1>5. ASSUME pc \in {"handle", "join"}, Done, UNCHANGED <<fromNode, sent>>
      PROVE  QueueOrder'
  <2>1. /\ Live /\ batch # << >> /\ handled' = handled + 1 /\ handled \in Nat
        /\ Len(batch) \in Nat /\ Len(fromNode) \in Nat /\ Len(sent) \in Nat
    BY <1>5, LenProperties DEF Live, TypeOK, Done
  <2>2. /\ Len(batch') = Len(batch) - 1 /\ Len(batch') \in Nat
        /\ \A i \in 1 .. Len(batch') : batch'[i] = batch[i + 1]
        /\ pc' = "drain" => batch' = << >>
        /\ pc' \in {"drain", "handle"}
    BY <1>5, <2>1, DoneTyped, LenProperties
  <2>3. /\ Len(batch) + Len(fromNode) + handled = Len(sent)
        /\ \A i \in 1 .. Len(batch) : batch[i] = handled + i
        /\ \A i \in 1 .. Len(fromNode) : fromNode[i] = handled + Len(batch) + i
    BY <2>1 DEF QueueOrder
  <2>4. Len(batch') + Len(fromNode') + handled' = Len(sent')
    <3>1. Len(fromNode') = Len(fromNode) /\ Len(sent') = Len(sent)
      BY <1>5
    <3>2. Len(batch') = Len(batch) - 1 /\ Len(batch) + Len(fromNode) + handled = Len(sent)
      BY <2>2, <2>3
    <3> QED
      BY <2>1, <3>1, <3>2
  <2>5. \A i \in 1 .. Len(batch') : batch'[i] = handled' + i
    BY <2>1, <2>2, <2>3
  <2>6. \A i \in 1 .. Len(fromNode') : fromNode'[i] = handled' + Len(batch') + i
    BY <1>5, <2>1, <2>2, <2>3
  <2> QED
    BY <2>2, <2>4, <2>5, <2>6 DEF QueueOrder
<1>6. CASE HandleOther \/ ApplyPause
  BY <1>5, <1>6 DEF HandleOther, ApplyPause, Ready
<1>7. CASE SetJob(Cur)
  <2>1. CASE SetJobRxUnwinds(Cur)
    BY <1>1, <2>1 DEF SetJobRxUnwinds, QueueStill, Live, ghosts
  <2> QED
    BY <1>5, <1>7, <2>1 DEF SetJob, Refresh, SetJobFails, SetJobFn, SetJobRx, Ready
<1>8. CASE ApplyClose \/ Unwind \/ Unwound \/ Terminal \/ Refuse \/ Mark \/ Release
  BY <1>8 DEF ApplyClose, Unwind, Unwound, Terminal, Refuse, Mark, Release, QueueOrder, Live
<1>9. ASSUME NEW c \in Cmds, Post(c) PROVE QueueOrder'
  BY <1>9 DEF Post, ThreadStarted, QueueOrder, Live, ghosts
<1>10. CASE StartFails \/ Destroy \/ Recheck \/ PostShut \/ Exchange \/ Joined \/ CallEvent
            \/ Dispatch \/ (\E b \in Lanes : RxStep(b)) \/ UNCHANGED vars
  <2>1. QueueStill /\ UNCHANGED pc
    BY <1>10 DEF StartFails, Destroy, Recheck, PostShut, Exchange, Joined, CallEvent, Dispatch,
                 RxStep, RxFind, RxSend, RxTest, RxFails, RxLeave, RxUnchanged, vars, ghosts,
                 QueueStill
  <2> QED
    BY <1>1, <2>1
<1> QED
  BY <1>2, <1>3, <1>4, <1>6, <1>7, <1>8, <1>9, <1>10 DEF Next, JsStep, ComputeStep

\* The thread-safe function is open exactly as long as the thread runs.
LEMMA StartedStep ==
    ASSUME TypeOK, QueueOrder, ThreadStarted, [Next]_vars
    PROVE  ThreadStarted'
<1>1. ASSUME NEW c \in Cmds, Post(c) PROVE ThreadStarted'
  BY <1>1 DEF Post, ThreadStarted
<1>2. CASE StartFails
  BY <1>2 DEF StartFails, ThreadStarted
<1>3. CASE UNCHANGED <<started, tsfn, pc>>
  BY <1>3 DEF ThreadStarted
<1>4. ASSUME pc \in {"handle", "join"}, Done, UNCHANGED <<started, tsfn>>
      PROVE  ThreadStarted'
  BY <1>4 DEF Done, ThreadStarted
<1>5. CASE Drain \/ HandleOther \/ Begin \/ ApplyPause \/ ApplyClose \/ Unwind \/ Unwound
  BY <1>4, <1>5 DEF Drain, HandleOther, Begin, ApplyPause, ApplyClose, Unwind, Unwound, Ready,
                    ThreadStarted, jsVars
<1>6. CASE Terminal \/ Refuse \/ Mark \/ Release
  BY <1>6 DEF Terminal, Refuse, Mark, Release, Terminals, ThreadStarted, jsVars
<1>7. CASE SetJob(Cur)
  BY <1>4, <1>7 DEF SetJob, Refresh, SetJobFails, SetJobFn, SetJobRx, SetJobRxUnwinds, Ready,
                    ThreadStarted, jsVars
<1>8. CASE Destroy \/ JsStep \/ CallEvent \/ Dispatch \/ (\E b \in Lanes : RxStep(b))
           \/ UNCHANGED vars
  BY <1>3, <1>8
     DEF Destroy, JsStep, Recheck, PostWrite, PostShut, Exchange, StopWrite, Joined, CallEvent,
         Dispatch, RxStep, RxFind, RxSend, RxTest, RxFails, RxLeave, RxUnchanged, jsVars, vars
<1> QED
  BY <1>1, <1>2, <1>5, <1>6, <1>7, <1>8 DEF Next, ComputeStep

\* A command written does not change what was handled before.
LEMMA WriteKeepsHandled ==
    ASSUME TypeOK, NEW c \in Cmds, Write(c), NEW k \in Tokens \ {None}
    PROVE  sent'[k] = sent[k]
<1>1. Len(sent) \in Nat
  BY LenProperties DEF TypeOK
<1>2. k \in 1 .. Len(sent)
  BY <1>1 DEF Tokens, None
<1> QED
  BY <1>2, WriteKeeps

\* The loop over commands ends in order only behind a close.
LEMMA EndStep ==
    ASSUME TypeOK, QueueOrder, EndReason, ThreadStarted, [Next]_vars
    PROVE  EndReason'
<1>1. CASE UNCHANGED <<over, pc, handled, sent>>
  BY <1>1 DEF EndReason, Live
<1>2. CASE PostWrite \/ StopWrite
  <2>1. PICK c \in Cmds : Write(c) /\ UNCHANGED <<pc, over, handled>>
    BY <1>2 DEF PostWrite, StopWrite, Cmds, TypeOK
  <2>2. handled # 0 => handled \in Tokens \ {None}
    BY DEF TypeOK, Tokens, None
  <2>3. handled # 0 => sent'[handled] = sent[handled]
    BY <2>1, <2>2, WriteKeepsHandled
  <2> QED
    BY <2>1, <2>3 DEF EndReason, Live, TypeOK
<1>3. ASSUME pc \in {"handle", "join"}, Done, Cur.kind # "close", UNCHANGED <<over, sent>>
      PROVE  EndReason'
  <2>1. handled' = handled + 1 /\ handled' = Head(batch) /\ pc' \in {"drain", "handle"}
    BY <1>3, CurTyped DEF Done
  <2>2. sent'[handled'].kind # "close"
    BY <1>3, <2>1 DEF Cur
  <2> QED
    BY <1>3, <2>1, <2>2 DEF EndReason, Ended, Live
<1>4. CASE HandleOther \/ ApplyPause
  BY <1>3, <1>4 DEF HandleOther, ApplyPause, Ready, Work
<1>5. CASE SetJob(Cur)
  <2>1. CASE SetJobRxUnwinds(Cur)
    BY <2>1 DEF SetJobRxUnwinds, Ready, EndReason, Ended, Live, ghosts
  <2> QED
    BY <1>3, <1>5, <2>1 DEF SetJob, Refresh, SetJobFails, SetJobFn, SetJobRx, Ready, Work
<1>6. CASE ApplyClose
  <2>1. handled' = handled + 1 /\ handled' = Head(batch) /\ Head(batch) > 0
    BY <1>6, CurTyped DEF ApplyClose, Ready
  <2> QED
    BY <1>6, <2>1 DEF ApplyClose, Ready, EndReason, Ended, Live, Cur
<1>7. CASE Drain \/ Begin \/ Unwind \/ Unwound
  BY <1>7 DEF Drain, Begin, Unwind, Unwound, Ready, EndReason, Ended, Live, ghosts
<1>8. CASE Terminal \/ Refuse \/ Mark \/ Release
  BY <1>8 DEF Terminal, Refuse, Mark, Release, Terminals, EndReason, Ended, Live, ghosts
<1>9. ASSUME NEW c \in Cmds, Post(c) PROVE EndReason'
  BY <1>9 DEF Post, ThreadStarted, EndReason, Ended, Live, ghosts
<1>10. CASE StartFails \/ Destroy \/ Recheck \/ PostShut \/ Exchange \/ Joined \/ CallEvent
            \/ Dispatch \/ (\E b \in Lanes : RxStep(b)) \/ UNCHANGED vars
  BY <1>1, <1>10
     DEF StartFails, Destroy, Recheck, PostShut, Exchange, Joined, CallEvent, Dispatch,
         RxStep, RxFind, RxSend, RxTest, RxFails, RxLeave, RxUnchanged, vars, ghosts
<1> QED
  BY <1>2, <1>4, <1>5, <1>6, <1>7, <1>8, <1>9, <1>10 DEF Next, JsStep, ComputeStep

\* Nothing is written behind a close: post() and stop() ask m_accepting, which
\* the JavaScript thread itself clears when it has written one.
LEMMA CloseStep ==
    ASSUME TypeOK, CloseIsLast, [Next]_vars
    PROVE  CloseIsLast'
<1>1. CASE UNCHANGED <<sent, js>> /\ (accepting' = accepting \/ accepting' = FALSE)
  BY <1>1 DEF CloseIsLast
<1>2. CASE PostWrite \/ StopWrite
  <2>1. PICK c \in Cmds : /\ Write(c) /\ UNCHANGED accepting
                          /\ c.kind = "close" => js' \in {"shut", "join"}
                          /\ js' \in {"shut", "idle", "join"}
    BY <1>2 DEF PostWrite, StopWrite, Cmds, TypeOK
  <2>2. js \in {"write", "writeClose"}
    BY <1>2 DEF PostWrite, StopWrite
  <2>3. \A i \in 1 .. Len(sent) : sent[i].kind # "close"
    BY <2>2 DEF CloseIsLast
  <2>4. \A i \in 1 .. Len(sent') : sent'[i].kind = "close" => c.kind = "close"
    <3>1. /\ Len(sent') = Len(sent) + 1 /\ sent'[Len(sent) + 1] = c
          /\ \A i \in 1 .. Len(sent) : sent'[i] = sent[i]
      BY <2>1, WriteKeeps
    <3>2. Len(sent) \in Nat
      BY LenProperties DEF TypeOK
    <3>3. \A i \in 1 .. Len(sent') : i \in 1 .. Len(sent) \/ i = Len(sent) + 1
      BY <3>1, <3>2
    <3> QED
      BY <2>3, <3>1, <3>3
  <2> QED
    BY <2>1, <2>4 DEF CloseIsLast
<1>3. ASSUME NEW c \in Cmds, Post(c) PROVE CloseIsLast'
  BY <1>3 DEF Post, CloseIsLast, ghosts
<1>4. CASE StartFails \/ Destroy \/ Recheck \/ PostShut \/ Exchange \/ Joined
  BY <1>4 DEF StartFails, Destroy, Recheck, PostShut, Exchange, Joined, CloseIsLast, ghosts
<1>5. CASE CallEvent \/ Dispatch \/ (\E b \in Lanes : RxStep(b)) \/ UNCHANGED vars
  BY <1>1, <1>5
     DEF CallEvent, Dispatch, RxStep, RxFind, RxSend, RxTest, RxFails, RxLeave, RxUnchanged,
         vars, jsVars
<1>6. CASE ComputeStep
  BY <1>1, <1>6
     DEF ComputeStep, Drain, HandleOther, Begin, ApplyPause, ApplyClose, Unwind, Unwound, SetJob,
         Refresh, SetJobFails, SetJobFn, SetJobRx, SetJobRxUnwinds, Terminal, Refuse, Mark,
         Release, jsVars, ghosts
<1> QED
  BY <1>2, <1>3, <1>4, <1>5, <1>6 DEF Next, JsStep

-----------------------------------------------------------------------------
(* Jobs, their threads and their memory.                                   *)

\* A set_job that gets past its checks works with a command that was sent, and
\* no RandomX thread is running any more.
LEMMA JobFacts ==
    ASSUME IInv, SetJob(Cur)
    PROVE  /\ pc = "join" /\ Cur.kind \in Work /\ Cur = sent[Head(batch)]
           /\ Head(batch) \in Tokens \ {None} /\ Cur \in CmdType /\ Cur.key # NoKey
           /\ \A b \in Lanes : ~Alive(b)
           /\ sent' = sent
<1>1. Ready /\ Cur.kind \in Work /\ sent' = sent
  BY DEF SetJob, Refresh, SetJobFails, SetJobFn, SetJobRx, SetJobRxUnwinds, ghosts
<1>2. Cur \in CmdType /\ Cur \in Cmds /\ Head(batch) \in Tokens \ {None}
  BY <1>1, CurTyped DEF IInv, Ready, None
<1>3. \A b \in Lanes : ~Alive(b)
  BY <1>1 DEF IInv, LanesMatch, Ready, Stops
<1> QED
  BY <1>1, <1>2, <1>3, ThreadAssumption DEF Ready, Cur

\* The members of Core describe one job.
LEMMA MembersStep ==
    ASSUME IInv, [Next]_vars
    PROVE  MembersMatch'
<1>1. CASE /\ UNCHANGED <<job, pos, dev, input, mode, sent>>
           /\ (hasFn' = hasFn \/ hasFn' = FALSE)
  BY <1>1 DEF IInv, MembersMatch
<1>2. CASE PostWrite \/ StopWrite
  <2>1. PICK c \in Cmds : Write(c) /\ UNCHANGED jobVars
    BY <1>2 DEF PostWrite, StopWrite, Cmds, IInv, TypeOK
  <2>2. /\ job # None => sent'[job] = sent[job]
        /\ pos # None => sent'[pos] = sent[pos]
    BY <2>1, WriteKeepsHandled DEF IInv, TypeOK
  <2> QED
    BY <2>1, <2>2 DEF IInv, MembersMatch, jobVars
<1>3. CASE SetJob(Cur)
  <2> DEFINE c == Cur
  <2>1. /\ c = sent[Head(batch)] /\ Head(batch) # None /\ sent' = sent
    BY <1>3, JobFacts
  <2>2. CASE Refresh(c)
    BY <2>1, <2>2 DEF Refresh, SameInput, SameShape, JobOf, IInv, MembersMatch
  <2>3. CASE SetJobFails(c)
    BY <1>1, <2>3 DEF SetJobFails
  <2>4. CASE SetJobFn(c)
    BY <2>1, <2>4 DEF SetJobFn, Members, JobOf, MembersMatch
  <2>5. CASE SetJobRx(c) \/ SetJobRxUnwinds(c)
    BY <2>1, <2>5 DEF SetJobRx, SetJobRxUnwinds, Members, JobOf, MembersMatch
  <2> QED
    BY <1>3, <2>2, <2>3, <2>4, <2>5 DEF SetJob
<1>4. CASE Dispatch
  <2>1. (mode = "mine" => job # None) /\ (hasFn' => mode' = "mine")
    BY <1>4 DEF Dispatch, IInv, MembersMatch
  <2> QED
    BY <1>4, <2>1 DEF Dispatch, IInv, MembersMatch
<1>5. CASE \/ \E c \in Cmds : Post(c)
           \/ StartFails \/ Destroy \/ Recheck \/ PostShut \/ Exchange \/ Joined \/ CallEvent
           \/ \E b \in Lanes : RxStep(b)
           \/ UNCHANGED vars
  BY <1>1, <1>5
     DEF Post, StartFails, Destroy, Recheck, PostShut, Exchange, Joined, CallEvent,
         RxStep, RxFind, RxSend, RxTest, RxFails, RxLeave, RxUnchanged, vars, jobVars, ghosts
<1>6. CASE Drain \/ HandleOther \/ Begin \/ ApplyPause \/ ApplyClose \/ Unwind \/ Unwound
           \/ Terminal \/ Refuse \/ Mark \/ Release
  BY <1>1, <1>6
     DEF Drain, HandleOther, Begin, ApplyPause, ApplyClose, Unwind, Unwound, Terminal, Refuse,
         Mark, Release, jobVars, ghosts
<1> QED
  BY <1>2, <1>3, <1>4, <1>5, <1>6 DEF Next, JsStep, ComputeStep

\* Memory is built for m_algo_str as long as the loop runs.
LEMMA MemoryStep ==
    ASSUME IInv, [Next]_vars
    PROVE  MemoryBuilt'
<1>1. CASE /\ UNCHANGED <<key, vms, dataset, dev>>
           /\ UNCHANGED pc \/ pc \in {"off", "drain", "handle", "join", "unwind"}
  BY <1>1 DEF IInv, MemoryBuilt
<1>2. ASSUME NEW c \in Cmds, Post(c) PROVE MemoryBuilt'
  BY <1>1, <1>2 DEF Post, IInv, ThreadStarted, memVars, jobVars
<1>3. CASE ApplyClose \/ Unwound \/ Terminal \/ Refuse \/ Mark \/ Release
  BY <1>3 DEF ApplyClose, Unwound, Terminal, Refuse, Mark, Release, MemoryBuilt
<1>4. CASE SetJob(Cur)
  <2> DEFINE c == Cur
  <2>1. pc = "join" /\ c.key # NoKey /\ c.dev \in {"fn", "rx"}
    BY <1>4, JobFacts DEF CmdType
  <2>2. CASE Refresh(c)
    BY <1>1, <2>1, <2>2 DEF Refresh, memVars
  <2>3. CASE SetJobFails(c)
    BY <2>3 DEF SetJobFails, FailedKey, MemoryBuilt
  <2>4. CASE SetJobFn(c) \/ SetJobRx(c)
    BY <2>1, <2>4 DEF SetJobFn, SetJobRx, Members, Rebuild, MemoryBuilt, IInv, memVars
  <2>5. CASE SetJobRxUnwinds(c)
    BY <2>1, <2>5 DEF SetJobRxUnwinds, Rebuild, MemoryBuilt, IInv, memVars
  <2> QED
    BY <1>4, <2>2, <2>3, <2>4, <2>5 DEF SetJob
<1>5. CASE \/ StartFails \/ Destroy \/ JsStep \/ CallEvent \/ Dispatch
           \/ \E b \in Lanes : RxStep(b)
           \/ UNCHANGED vars
  BY <1>1, <1>5
     DEF StartFails, Destroy, JsStep, Recheck, PostWrite, PostShut, Exchange, StopWrite, Joined,
         CallEvent, Dispatch, RxStep, RxFind, RxSend, RxTest, RxFails, RxLeave, RxUnchanged,
         vars, jobVars, memVars
<1>6. CASE Drain \/ HandleOther \/ Begin \/ ApplyPause \/ Unwind
  BY <1>1, <1>6
     DEF Drain, HandleOther, Begin, ApplyPause, Unwind, Ready, jobVars, memVars
<1> QED
  BY <1>2, <1>3, <1>4, <1>5, <1>6 DEF Next, ComputeStep

\* The RandomX threads work for the job of the members, on its memory.
LEMMA LanesStep ==
    ASSUME IInv, [Next]_vars
    PROVE  LanesMatch'
<1> DEFINE Run == {"drain", "handle", "join", "unwind"}
<1>1. CASE /\ UNCHANGED <<rx, dev, job, sent, vms, dataset>>
           /\ pc' = pc \/ pc' \in Run
  BY <1>1 DEF IInv, LanesMatch, Alive
<1>2. CASE \A b \in Lanes : ~Alive(b)'
  BY <1>2 DEF LanesMatch
<1>3. CASE PostWrite \/ StopWrite
  <2>1. PICK c \in Cmds : Write(c) /\ UNCHANGED <<pc, jobVars, memVars, rx>>
    BY <1>3 DEF PostWrite, StopWrite, Cmds, IInv, TypeOK
  <2>2. \A b \in Lanes : Alive(b) => sent'[rx[b].job] = sent[rx[b].job]
    BY <2>1, WriteKeepsHandled DEF IInv, TypeOK, LanesMatch
  <2> QED
    BY <2>1, <2>2 DEF IInv, LanesMatch, Alive, jobVars, memVars
<1>4. CASE ApplyPause
  BY <1>2, <1>4 DEF ApplyPause, RxCleared, Stops, Off, Alive
<1>5. CASE ApplyClose
  BY <1>2, <1>5 DEF ApplyClose, RxCleared, Stops, Off, Alive
<1>6. CASE Unwound
  BY <1>2, <1>6 DEF Unwound, Off, Alive
<1>7. CASE Terminal \/ Refuse \/ Mark \/ Release
  <2>1. \A b \in Lanes : ~Alive(b)
    BY <1>7 DEF Terminal, Refuse, Mark, Release, Terminals, IInv, LanesMatch
  <2> QED
    BY <1>2, <1>7, <2>1 DEF Terminal, Refuse, Mark, Release, Alive
<1>8. CASE SetJob(Cur)
  <2> DEFINE c == Cur
  <2>1. /\ pc = "join" /\ c.kind \in Work /\ c = sent[Head(batch)] /\ Head(batch) # None
        /\ c.key # NoKey /\ sent' = sent /\ \A b \in Lanes : ~Alive(b)
    BY <1>8, JobFacts
  <2>2. \A b \in Lanes : RxCleared[b].st \notin {"hash", "send"}
    BY <2>1 DEF RxCleared, Off, Alive
  <2>3. CASE Refresh(c)
    BY <1>2, <2>1, <2>3 DEF Refresh, Alive
  <2>4. CASE SetJobFails(c) \/ SetJobFn(c)
    BY <1>2, <2>2, <2>4 DEF SetJobFails, SetJobFn, Alive
  <2>5. ASSUME c.dev = "rx", dev' = "rx", job' = JobOf(c),
               IF Rebuild(c) THEN vms' = TRUE /\ dataset' = c.key
                             ELSE UNCHANGED memVars
        PROVE  vms' /\ dataset' = c.key
    BY <2>1, <2>5 DEF IInv, MemoryBuilt, Rebuild, memVars
  <2>6. CASE SetJobRx(c)
    <3>1. vms' /\ dataset' = c.key
      BY <2>5, <2>6 DEF SetJobRx, Members
    <3>2. \A b \in Lanes : rx'[b].st = "hash" /\ rx'[b].job = Head(batch)
      BY <2>6 DEF SetJobRx
    <3>3. pc' \in Run /\ dev' = "rx" /\ job' = JobOf(c)
      BY <2>6 DEF SetJobRx, Members, Done
    <3> QED
      BY <2>1, <3>1, <3>2, <3>3 DEF LanesMatch, JobOf
  <2>7. CASE SetJobRxUnwinds(c)
    <3>1. vms' /\ dataset' = c.key
      BY <2>5, <2>7 DEF SetJobRxUnwinds
    <3>2. \A b \in Lanes : Alive(b)' => rx'[b].st = "hash" /\ rx'[b].job = Head(batch)
      BY <2>7 DEF SetJobRxUnwinds, Alive, Off
    <3>3. pc' \in Run /\ dev' = "rx" /\ job' = JobOf(c)
      BY <2>7 DEF SetJobRxUnwinds
    <3> QED
      BY <2>1, <3>1, <3>2, <3>3 DEF LanesMatch, JobOf
  <2> QED
    BY <1>8, <2>3, <2>4, <2>6, <2>7 DEF SetJob
<1>9. ASSUME NEW b \in Lanes, RxStep(b) PROVE LanesMatch'
  <2>1. /\ UNCHANGED <<pc, jobVars, memVars, sent>>
        /\ \/ rx' = [rx EXCEPT ![b].st = "send"] /\ rx[b].st = "hash" /\ RxCmd(b).kind = "mine"
           \/ rx' = [rx EXCEPT ![b].st = "hash"] /\ rx[b].st = "send"
           \/ rx' = [rx EXCEPT ![b].st = "done"]
    BY <1>9 DEF RxStep, RxFind, RxSend, RxTest, RxFails, RxLeave, RxUnchanged, RxTo
  <2>2. ASSUME NEW d \in Lanes, Alive(d)'
        PROVE  /\ Alive(d) /\ rx'[d].job = rx[d].job
               /\ rx'[d].st = "send" => rx[d].st = "send" \/ RxCmd(d).kind = "mine"
    <3>1. rx \in [Lanes -> LaneType]
      BY DEF IInv, TypeOK, LaneType
    <3> QED
      BY <2>1, <2>2, <3>1 DEF Alive, LaneType
  <2> QED
    BY <2>1, <2>2 DEF IInv, LanesMatch, RxCmd, jobVars, memVars
<1>10. CASE \/ \E c \in Cmds : Post(c)
            \/ StartFails \/ Destroy \/ Recheck \/ PostShut \/ Exchange \/ Joined \/ CallEvent
            \/ Dispatch \/ UNCHANGED vars
  BY <1>1, <1>10
     DEF Post, StartFails, Destroy, Recheck, PostShut, Exchange, Joined, CallEvent, Dispatch,
         vars, jobVars, memVars, ghosts
<1>11. CASE Drain \/ HandleOther \/ Begin \/ Unwind
  BY <1>1, <1>11 DEF Drain, HandleOther, Begin, Unwind, Done, jobVars, memVars, ghosts
<1> QED
  BY <1>3, <1>4, <1>5, <1>6, <1>7, <1>8, <1>9, <1>10, <1>11 DEF Next, JsStep, ComputeStep

-----------------------------------------------------------------------------
(* Events.                                                                 *)

\* An event that ends nothing and whose blob is that of the job it names.
Harmless(e) ==
    /\ e.type \notin Terminals
    /\ e.type \in {"result", "last_nonce"} =>
         e.tag # None /\ sent[e.tag].input = e.input

\* At most one harmless event is queued.
SendsHarmless == UNCHANGED events \/ \E e \in EventType : Harmless(e) /\ Send(<<e>>)

\* Sending a harmless event before the end keeps the order and the tags.
LEMMA SendHarmless ==
    ASSUME IInv, over = "no", over' = "no", UNCHANGED <<told, sent>>, SendsHarmless
    PROVE  EventsEnd' /\ TagsMatch'
<1>1. CASE UNCHANGED events
  BY <1>1 DEF IInv, EventsEnd, TagsMatch
<1>2. ASSUME NEW e \in EventType, Harmless(e), events' = events \o <<e>>
      PROVE  EventsEnd' /\ TagsMatch'
  <2>1. events \in Seq(EventType) /\ Len(events) \in Nat /\ events' = Append(events, e)
    BY <1>2, LenProperties, AppendIsConcat DEF IInv, TypeOK, EventType
  <2>2. Len(events') = Len(events) + 1
    BY <2>1, AppendProperties
  <2>3. events'[Len(events) + 1] = e /\ \A i \in 1 .. Len(events) : events'[i] = events[i]
    BY <2>1, AppendProperties
  <2>4. \A i \in 1 .. Len(events') : i \in 1 .. Len(events) \/ i = Len(events) + 1
    BY <2>1, <2>2
  <2>5. \A i \in 1 .. Len(events) : Harmless(events[i])
    BY DEF IInv, EventsEnd, TagsMatch, Harmless
  <2>6. \A i \in 1 .. Len(events') : Harmless(events'[i])
    BY <1>2, <2>3, <2>4, <2>5
  <2>7. ~told
    BY DEF IInv, EventsEnd
  <2> QED
    BY <2>6, <2>7 DEF EventsEnd, TagsMatch, Harmless
<1> QED
  BY <1>1, <1>2 DEF SendsHarmless, Send

\* What the compute thread sends for itself is harmless.
LEMMA SendsAreHarmless ==
    ASSUME IInv
    PROVE  /\ Send(<< >>) => SendsHarmless
           /\ \A t \in {"test", "answer", "error"} : Send(<<Plain(t)>>) => SendsHarmless
           /\ Send(LastNonce) => SendsHarmless
           /\ hasFn /\ mode = "mine" /\ Send(<<Event("result", job, input)>>) => SendsHarmless
<1> USE DEF IInv
<1>1. Send(<< >>) => SendsHarmless
  BY ConcatEmptySeq DEF Send, SendsHarmless, TypeOK
<1>2. ASSUME NEW e, <<e>> \in Seq(EventType) PROVE e \in EventType
  BY <1>2
<1>3. ASSUME NEW t \in {"test", "answer", "error"}, Send(<<Plain(t)>>) PROVE SendsHarmless
  <2>1. Harmless(Plain(t))
    BY DEF Harmless, Plain, Event, Terminals
  <2>2. Plain(t) \in EventType
    BY <1>2, EventsTyped
  <2> QED
    BY <1>3, <2>1, <2>2 DEF SendsHarmless
<1>4. ASSUME Send(LastNonce) PROVE SendsHarmless
  <2>1. CASE dev = "rx" \/ pos = None \/ job = None
    BY <1>1, <1>4, <2>1 DEF LastNonce
  <2>2. CASE ~(dev = "rx" \/ pos = None \/ job = None)
    <3> DEFINE e == Event("last_nonce", job, sent[pos].input)
    <3>1. Harmless(e)
      BY <2>2 DEF Harmless, Event, Terminals, MembersMatch, TypeOK
    <3>2. e \in EventType /\ Send(<<e>>)
      BY <1>2, <1>4, <2>2, EventsTyped DEF LastNonce
    <3> QED
      BY <3>1, <3>2 DEF SendsHarmless
  <2> QED
    BY <2>1, <2>2
<1>5. ASSUME hasFn, mode = "mine", Send(<<Event("result", job, input)>>) PROVE SendsHarmless
  <2>1. Harmless(Event("result", job, input))
    BY <1>5 DEF Harmless, Event, Terminals, MembersMatch
  <2>2. Event("result", job, input) \in EventType
    BY <1>2, EventsTyped DEF TypeOK
  <2> QED
    BY <1>5, <2>1, <2>2 DEF SendsHarmless
<1> QED
  BY <1>1, <1>3, <1>4, <1>5

\* Every step keeps the terminal event last and the tags right.
LEMMA EventsStep ==
    ASSUME IInv, [Next]_vars
    PROVE  EventsEnd' /\ TagsMatch'
<1>1. CASE UNCHANGED <<events, told, over, sent>>
  BY <1>1 DEF IInv, EventsEnd, TagsMatch
<1>2. CASE PostWrite \/ StopWrite
  <2>1. PICK c \in Cmds : Write(c) /\ UNCHANGED <<events, told, over>>
    BY <1>2 DEF PostWrite, StopWrite, Cmds, IInv, TypeOK
  <2>2. ASSUME NEW i \in 1 .. Len(events), events[i].tag # None
        PROVE  sent'[events[i].tag] = sent[events[i].tag]
    <3>1. events \in Seq(EventType)
      BY DEF IInv, TypeOK, EventType
    <3>3. events[i] \in EventType
      BY <3>1, ElementOfSeq
    <3>2. events[i].tag \in Tokens
      BY <3>3 DEF EventType
    <3> QED
      BY <2>1, <2>2, <3>2, WriteKeepsHandled DEF IInv
  <2> QED
    BY <2>1, <2>2 DEF IInv, EventsEnd, TagsMatch
<1>3. CASE CallEvent
  <2>1. events \in Seq(EventType) /\ Len(events) \in Nat \ {0} /\ events # << >>
    BY <1>3, EmptySeq DEF CallEvent, IInv, TypeOK, EventType
  <2>2. /\ events' = Tail(events) /\ UNCHANGED <<sent, over>>
        /\ told' = (told \/ events[1].type \in Terminals)
    BY <1>3, <2>1 DEF CallEvent
  <2>3. Len(events') = Len(events) - 1 /\ events' \in Seq(EventType)
    BY <2>1, <2>2, HeadTailProperties
  <2>4. \A i \in 1 .. Len(events') : events'[i] = events[i + 1]
    BY <2>1, <2>2, HeadTailProperties
  <2>5. 1 \in 1 .. Len(events) /\ \A i \in 1 .. Len(events') : i + 1 \in 1 .. Len(events)
    BY <2>1, <2>3
  <2>6. \A i \in 1 .. Len(events') : events'[i].type \in Terminals => i = Len(events')
    <3>1. \A i \in 1 .. Len(events') : events[i + 1].type \in Terminals => i + 1 = Len(events)
      BY <2>5 DEF IInv, EventsEnd
    <3>2. \A i \in 1 .. Len(events') : i + 1 = Len(events) => i = Len(events')
      BY <2>1, <2>3
    <3> QED
      BY <2>4, <3>1, <3>2
  <2>7. told' => events' = << >>
    <3>1. ~told
      BY <2>1 DEF IInv, EventsEnd
    <3>2. told' => 1 = Len(events)
      BY <2>2, <2>5, <3>1 DEF IInv, EventsEnd
    <3> QED
      BY <2>1, <2>3, <3>2, EmptySeq
  <2>8. over = "no" => ~told' /\ \A i \in 1 .. Len(events') : events'[i].type \notin Terminals
    <3>1. over = "no" => ~told /\ \A i \in 1 .. Len(events) : events[i].type \notin Terminals
      BY DEF IInv, EventsEnd
    <3> QED
      BY <2>2, <2>4, <2>5, <3>1
  <2>9. TagsMatch'
    BY <2>2, <2>4, <2>5 DEF IInv, TagsMatch
  <2> QED
    BY <2>2, <2>6, <2>7, <2>8, <2>9 DEF EventsEnd
<1>4. CASE Terminal
  <2>1. over = "no" /\ tsfn = "open" /\ UNCHANGED <<told, sent>> /\ over' # "no"
    BY <1>4 DEF Terminal, Terminals, IInv, EndReason, Ended, ThreadStarted
  <2>2. events' = Append(events, Plain(pc)) /\ events \in Seq(EventType) /\ Plain(pc) \in EventType
    <3>1. <<Plain(pc)>> \in Seq(EventType)
      BY <1>4, EventsTyped DEF Terminal, Terminals, IInv
    <3>2. events' = events \o <<Plain(pc)>> /\ events \in Seq(EventType)
      BY <1>4, <2>1 DEF Terminal, Send, IInv, TypeOK, EventType
    <3>3. Plain(pc) \in EventType
      BY <3>1
    <3> QED
      BY <3>2, <3>3, AppendIsConcat
  <2>3. /\ Len(events') = Len(events) + 1 /\ Len(events) \in Nat
        /\ events'[Len(events) + 1] = Plain(pc)
        /\ \A i \in 1 .. Len(events) : events'[i] = events[i]
    BY <2>2, AppendProperties, LenProperties
  <2>4. \A i \in 1 .. Len(events') : i \in 1 .. Len(events) \/ i = Len(events')
    BY <2>3
  <2>5. ~told /\ \A i \in 1 .. Len(events) : events[i].type \notin Terminals
    BY <2>1 DEF IInv, EventsEnd
  <2>6. Plain(pc).type \notin {"result", "last_nonce"}
    BY <1>4 DEF Terminal, Terminals, Plain, Event
  <2>7. EventsEnd'
    BY <2>1, <2>3, <2>4, <2>5 DEF EventsEnd
  <2>8. TagsMatch'
    BY <2>1, <2>3, <2>4, <2>6 DEF TagsMatch, IInv
  <2> QED
    BY <2>7, <2>8
<1>5. ASSUME NEW b \in Lanes, RxStep(b) PROVE EventsEnd' /\ TagsMatch'
  <2>1. Alive(b) /\ UNCHANGED <<told, sent, over>>
    BY <1>5 DEF RxStep, RxFind, RxSend, RxTest, RxFails, RxLeave, RxUnchanged, Alive
  <2>2. /\ over = "no" /\ rx[b].job \in Tokens \ {None} /\ job \in Tokens
        /\ rx[b].st = "send" => job = rx[b].job
    BY <2>1 DEF IInv, LanesMatch, EndReason, Ended, TypeOK
  <2>3. ASSUME NEW t \in {"result", "last_nonce"}, Send(<<Event(t, rx[b].job, RxCmd(b).input)>>)
        PROVE  SendsHarmless
    <3> DEFINE e == Event(t, rx[b].job, RxCmd(b).input)
    <3>1. Harmless(e)
      BY <2>2 DEF Harmless, Event, RxCmd, Terminals
    <3>2. <<e>> \in Seq(EventType)
      BY <2>2, EventsTyped DEF RxCmd, IInv
    <3>3. e \in EventType
      BY <3>2
    <3> QED
      BY <2>3, <3>1, <3>3 DEF SendsHarmless
  <2>4. SendsHarmless
    <3>1. CASE RxFind(b)
      BY <3>1 DEF RxFind, SendsHarmless
    <3>2. CASE RxSend(b)
      BY <2>2, <2>3, <3>2 DEF RxSend
    <3>3. CASE RxTest(b) \/ RxFails(b)
      BY <3>3, SendsAreHarmless DEF RxTest, RxFails
    <3>4. CASE RxLeave(b)
      BY <2>3, <3>4, SendsAreHarmless DEF RxLeave
    <3> QED
      BY <1>5, <3>1, <3>2, <3>3, <3>4 DEF RxStep
  <2> QED
    BY <2>1, <2>2, <2>4, SendHarmless
<1>6. ASSUME pc \notin Ended, UNCHANGED <<told, sent, over>>, SendsHarmless
      PROVE  EventsEnd' /\ TagsMatch'
  BY <1>6, SendHarmless DEF IInv, EndReason
<1>7. CASE Dispatch
  <2>1. SendsHarmless
    BY <1>7, SendsAreHarmless DEF Dispatch
  <2> QED
    BY <1>6, <1>7, <2>1 DEF Dispatch, Ended
<1>8. CASE HandleOther \/ Begin
  <2>1. SendsHarmless
    BY <1>8, SendsAreHarmless DEF HandleOther, Begin, SendsHarmless
  <2> QED
    BY <1>6, <1>8, <2>1 DEF HandleOther, Begin, Ended
<1>9. CASE SetJob(Cur)
  <2>1. pc \notin Ended
    BY <1>9, JobFacts DEF Ended
  <2>2. SendsHarmless
    BY <1>9, SendsAreHarmless
       DEF SetJob, Refresh, SetJobFails, SetJobFn, SetJobRx, SetJobRxUnwinds, SendsHarmless
  <2> QED
    BY <1>6, <1>9, <2>1, <2>2
       DEF SetJob, Refresh, SetJobFails, SetJobFn, SetJobRx, SetJobRxUnwinds, ghosts
<1>10. CASE \/ \E c \in Cmds : Post(c)
            \/ StartFails \/ Destroy \/ Recheck \/ PostShut \/ Exchange \/ Joined
            \/ UNCHANGED vars
  BY <1>1, <1>10
     DEF Post, StartFails, Destroy, Recheck, PostShut, Exchange, Joined, vars, ghosts
<1>11. CASE Drain \/ ApplyPause \/ ApplyClose \/ Unwind \/ Unwound \/ Refuse \/ Mark \/ Release
  BY <1>1, <1>11
     DEF Drain, ApplyPause, ApplyClose, Unwind, Unwound, Refuse, Mark, Release, ghosts
<1> QED
  BY <1>2, <1>3, <1>4, <1>5, <1>7, <1>8, <1>9, <1>10, <1>11 DEF Next, JsStep, ComputeStep

-----------------------------------------------------------------------------
(* Search positions.                                                       *)

\* Who still owes the entry o: the compute thread for a job of m_fn, or the
\* RandomX thread of its lane.
Owes(o) ==
    \/ o[2] = 0 /\ o[1] = job /\ dev = "fn"
    \/ /\ o[2] \in Lanes /\ Alive(o[2]) /\ rx[o[2]].job = o[1]
       /\ sent[o[1]].kind = "mine"

\* A step keeps every owed position with somebody who will report it.
LEMMA OwedStep ==
    ASSUME IInv, [Next]_vars
    PROVE  OwedBy'
<1>1. /\ Live => \A o \in Due : Owes(o)
      /\ pc = "join" /\ Cur.kind = "close" => \A o \in Due : o[2] # 0
      /\ pc = "complete" \/ over = "complete" => Due = {}
  BY DEF IInv, OwedBy, Owes, Live
<1>2. SUFFICES
        /\ Live' => \A o \in Due' : Owes(o)'
        /\ pc' = "join" /\ Cur'.kind = "close" => \A o \in Due' : o[2] # 0
        /\ pc' = "complete" \/ over' = "complete" => Due' = {}
  BY DEF OwedBy, Owes, Live
<1> DEFINE Goal == /\ Live' => \A o \in Due' : Owes(o)'
                   /\ pc' = "join" /\ Cur'.kind = "close" => \A o \in Due' : o[2] # 0
                   /\ pc' = "complete" \/ over' = "complete" => Due' = {}
<1>3. CASE UNCHANGED <<owed, lost, dev, job, rx, sent, batch, pc, over>>
  BY <1>1, <1>3 DEF Owes, Alive, Live, Cur, Due
<1>4. CASE PostWrite \/ StopWrite
  <2>1. PICK c \in Cmds : Write(c) /\ UNCHANGED <<Due, dev, job, rx, batch, pc, over>>
    BY <1>4 DEF Due, PostWrite, StopWrite, Cmds, IInv, TypeOK, jobVars
  <2>2. \A k \in Tokens \ {None} : sent'[k] = sent[k]
    BY <2>1, WriteKeepsHandled DEF IInv
  <2>3. ASSUME NEW o \in Due, Owes(o) PROVE Owes(o)'
    <3>1. o[2] \in Lanes /\ Alive(o[2]) /\ rx[o[2]].job = o[1] => o[1] \in Tokens \ {None}
      BY DEF IInv, LanesMatch, TypeOK
    <3> QED
      BY <2>1, <2>2, <2>3, <3>1 DEF Owes, Alive
  <2>4. pc = "join" => Cur' = Cur
    <3>1. ASSUME pc = "join" PROVE Head(batch) \in Tokens \ {None}
      BY <3>1, CurTyped DEF IInv, None
    <3> QED
      BY <2>1, <2>2, <3>1 DEF Cur
  <2> QED
    BY <1>1, <2>1, <2>3, <2>4 DEF Live
<1>5. ASSUME NEW b \in Lanes, RxStep(b) PROVE Goal
  <2> DEFINE Others == \A d \in Lanes \ {b} : rx'[d] = rx[d]
  <2>0. UNCHANGED <<sent, batch, pc, over, dev, job>>
    BY <1>5 DEF RxStep, RxFind, RxSend, RxTest, RxFails, RxLeave, RxUnchanged, jobVars
  <2>4. rx \in [Lanes -> LaneType]
    BY DEF IInv, TypeOK, LaneType
  <2>5. ASSUME NEW st, RxTo(b, st)
        PROVE  /\ Others /\ rx'[b].job = rx[b].job /\ rx'[b].st = st
    BY <2>4, <2>5 DEF RxTo, LaneType
  <2>1. /\ UNCHANGED <<sent, batch, pc, over, dev, job>>
        /\ \/ UNCHANGED Due /\ Others /\ Alive(b)' /\ rx'[b].job = rx[b].job
           \/ Due' = Due \ {<<rx[b].job, b>>} /\ Others
           \/ UNCHANGED Due /\ RxCmd(b).kind = "test" /\ Others
    <3>1. CASE RxFind(b) \/ RxSend(b)
      BY <2>0, <2>5, <3>1 DEF RxFind, RxSend, Alive, Due
    <3>2. CASE RxFails(b) \/ RxLeave(b)
      BY <2>0, <2>5, <3>2 DEF RxFails, RxLeave, Due
    <3>3. CASE RxTest(b)
      BY <2>0, <2>5, <3>3 DEF RxTest, Due
    <3> QED
      BY <1>5, <3>1, <3>2, <3>3 DEF RxStep
  <2>2. Due' \subseteq Due
    BY <2>1
  <2>3. ASSUME NEW o \in Due', Owes(o) PROVE Owes(o)'
    <3>1. CASE o[2] = 0 /\ o[1] = job /\ dev = "fn"
      BY <2>1, <3>1 DEF Owes
    <3>2. CASE /\ o[2] \in Lanes /\ Alive(o[2]) /\ rx[o[2]].job = o[1]
               /\ sent[o[1]].kind = "mine"
      <4>1. o \in Tokens \X (0 .. B) /\ o = <<o[1], o[2]>>
        BY <2>2 DEF IInv, TypeOK, Due
      <4>2. CASE o[2] # b
        BY <2>1, <3>2, <4>2 DEF Owes, Alive
      <4>3. CASE o[2] = b
        <5>1. Due' # Due \ {<<rx[b].job, b>>}
          BY <3>2, <4>1, <4>3
        <5>2. RxCmd(b).kind = "mine"
          BY <3>2, <4>3 DEF RxCmd
        <5> QED
          BY <2>1, <3>2, <4>3, <5>1, <5>2 DEF Owes
      <4> QED
        BY <4>2, <4>3
    <3> QED
      BY <2>3, <3>1, <3>2 DEF Owes
  <2> QED
    BY <1>1, <2>1, <2>2, <2>3 DEF Live, Cur
<1>6. CASE Begin
  <2>1. /\ pc = "handle" /\ pc' = "join" /\ Due' \subseteq Due
        /\ UNCHANGED <<sent, batch, over, dev, job, rx>>
    BY <1>6 DEF Begin, Due, jobVars
  <2>2. ASSUME Cur.kind = "close", NEW o \in Due' PROVE o[2] # 0
    <3>1. Due' = Due \ {<<job, 0>>}
      BY <1>6, <2>2 DEF Begin, Reported, Due
    <3>2. o \in Due /\ o = <<o[1], o[2]>> /\ Owes(o) /\ o # <<job, 0>>
      BY <1>1, <2>1, <3>1 DEF Live, IInv, TypeOK, Due
    <3>3. 0 \notin Lanes
      BY DEF Lanes
    <3> QED
      BY <3>2, <3>3 DEF Owes
  <2>3. \A o \in Due' : Owes(o)'
    BY <1>1, <2>1 DEF Live, Owes, Alive
  <2>4. over = "no"
    BY <2>1 DEF IInv, EndReason, Ended
  <2> QED
    BY <2>1, <2>2, <2>3, <2>4 DEF Cur
<1>7. CASE ApplyClose
  <2>1. Ready /\ Stops(Cur) /\ pc = "join" /\ Cur.kind = "close"
    BY <1>7 DEF ApplyClose, Ready, Stops
  <2>2. Due = {}
    BY <1>1, <2>1 DEF Owes, Live, Ready
  <2> QED
    BY <1>7, <2>2 DEF ApplyClose, Live, Due
<1>8. CASE Unwind \/ Unwound
  <2>1. over = "no" /\ UNCHANGED over /\ pc' \in {"unwind", "failed"}
    BY <1>8 DEF Unwind, Unwound, Ready, IInv, EndReason, Ended, ghosts
  <2> QED
    BY <2>1 DEF Live
<1>9. CASE Terminal \/ Refuse \/ Mark \/ Release
  <2>1. /\ UNCHANGED Due /\ pc' \in {"refuse", "mark", "release", "dead"}
        /\ over' = "complete" => over = "complete" \/ pc = "complete"
    BY <1>9 DEF Terminal, Refuse, Mark, Release, ghosts, Due
  <2> QED
    BY <1>1, <2>1 DEF Live
<1>10. ASSUME pc \in {"drain", "handle", "join"}, UNCHANGED over, pc' \in {"drain", "handle"},
              \A o \in Due' : Owes(o)'
       PROVE  Goal
  <2>1. over = "no"
    BY <1>10 DEF IInv, EndReason, Ended
  <2> QED
    BY <1>10, <2>1
<1>11. CASE Drain \/ HandleOther
  BY <1>1, <1>10, <1>11 DEF Drain, HandleOther, Done, Live, Owes, Alive, jobVars, ghosts, Due
<1>12. CASE ApplyPause
  <2>1. Ready /\ Stops(Cur)
    BY <1>12 DEF ApplyPause, Stops
  <2>2. \A o \in Due' : Owes(o)'
    BY <1>1, <1>12, <2>1 DEF ApplyPause, Ready, Live, Owes, Due
  <2> QED
    BY <1>10, <1>12, <2>2 DEF ApplyPause, Ready, Done
<1>13. CASE SetJob(Cur)
  <2> DEFINE c == Cur
  <2>1. /\ pc = "join" /\ c.kind \in Work /\ c = sent[Head(batch)] /\ Head(batch) # None
        /\ sent' = sent /\ \A b \in Lanes : ~Alive(b)
    BY <1>13, JobFacts
  <2>2. \A o \in Due : o = <<job, 0>> /\ dev = "fn"
    <3>1. \A o \in Due : o = <<o[1], o[2]>>
      BY DEF IInv, TypeOK, Due
    <3> QED
      BY <1>1, <2>1, <3>1 DEF Owes, Live
  <2>3. CASE SetJobRxUnwinds(c)
    <3>1. over = "no"
      BY <2>1 DEF IInv, EndReason, Ended
    <3> QED
      BY <2>3, <3>1 DEF SetJobRxUnwinds, Live, ghosts
  <2>4. CASE SetJobFails(c)
    <3>1. \A o \in Due' : Owes(o)'
      BY <2>2, <2>4 DEF SetJobFails, Owes, Due
    <3> QED
      BY <1>10, <2>1, <2>4, <3>1 DEF SetJobFails, Done
  <2>5. ASSUME Refresh(c) \/ SetJobFn(c) \/ SetJobRx(c)
        PROVE  /\ Due' \subseteq Lane(c) /\ pc' \in {"drain", "handle"} /\ UNCHANGED over
               /\ job' = JobOf(c) /\ dev' = c.dev
    <3>1. Due' \subseteq Lane(c)
      BY <2>2, <2>5 DEF Refresh, SetJobFn, SetJobRx, Reported, Due
    <3> QED
      BY <2>5, <3>1 DEF Refresh, SetJobFn, SetJobRx, Members, SameInput, SameShape, Done
  <2>6. CASE Refresh(c) \/ SetJobFn(c)
    <3>1. c.dev = "fn"
      BY <2>6 DEF Refresh, SetJobFn, SameInput
    <3>2. \A o \in Due' : Owes(o)'
      BY <2>5, <2>6, <3>1 DEF Lane, JobOf, Owes
    <3> QED
      BY <1>10, <2>1, <2>5, <2>6, <3>2
  <2>7. CASE SetJobRx(c)
    <3>1. c.dev = "rx" /\ \A b \in Lanes : rx'[b].st = "hash" /\ rx'[b].job = Head(batch)
      BY <2>7 DEF SetJobRx
    <3>2. \A o \in Due' : Owes(o)'
      BY <2>1, <2>5, <2>7, <3>1 DEF Lane, Owes, Alive
    <3> QED
      BY <1>10, <2>1, <2>5, <2>7, <3>2
  <2> QED
    BY <1>13, <2>3, <2>4, <2>6, <2>7 DEF SetJob
<1>14. CASE \/ StartFails \/ Destroy \/ Recheck \/ PostShut \/ Exchange \/ Joined
            \/ CallEvent \/ Dispatch \/ UNCHANGED vars
  BY <1>3, <1>14
     DEF StartFails, Destroy, Recheck, PostShut, Exchange, Joined, CallEvent, Dispatch, vars,
         jobVars, ghosts
<1>15. ASSUME NEW c \in Cmds, Post(c) PROVE Goal
  <2>1. UNCHANGED <<Due, dev, job, rx, sent, over, batch>>
    BY <1>15 DEF Post, jobVars, ghosts, Due
  <2>2. pc' = pc \/ (pc' = "drain" /\ pc = "off")
    BY <1>15 DEF Post, IInv, ThreadStarted
  <2> QED
    BY <1>1, <2>1, <2>2 DEF Live, Owes, Alive, Cur
<1> QED
  BY <1>4, <1>5, <1>6, <1>7, <1>8, <1>9, <1>11, <1>12, <1>13, <1>14, <1>15
     DEF Next, JsStep, ComputeStep

-----------------------------------------------------------------------------
(* The theorems.                                                           *)

\* The inductive invariant holds initially.
LEMMA InitIInv == Init => IInv
<1> SUFFICES ASSUME Init PROVE IInv
  OBVIOUS
<1>1. /\ sent = << >> /\ events = << >> /\ fromNode = << >> /\ batch = << >>
      /\ handled = 0 /\ job = None /\ pos = None /\ owed = {} /\ lost = {}
      /\ rx = [b \in Lanes |-> Off]
  BY DEF Init
<1>2. Len(sent) = 0 /\ Len(events) = 0 /\ Len(fromNode) = 0 /\ Len(batch) = 0
  BY <1>1, EmptySeq
<1>3. \A b \in Lanes : ~Alive(b)
  BY <1>1 DEF Alive, Off
<1>4. TokensOK
  <2>1. 0 \in Tokens /\ None = 0 /\ 0 \in 0 .. Len(sent)
    BY <1>2 DEF Tokens, None
  <2>2. rx \in [Lanes -> LaneType]
    BY <1>1, <2>1 DEF Off, LaneType
  <2> QED
    BY <1>1, <2>1, <2>2, EmptySeq DEF TokensOK
<1>5. ControlOK
  <2>1. {accepting, started, stopped, hasFn, vms, told} \subseteq BOOLEAN
    BY Zenon DEF Init
  <2>2. cmd \in Cmds /\ input \in Inputs /\ 0 \in 0 .. MaxFound
    <3>1. cmd = Close /\ input = ""
      BY DEF Init
    <3>2. Close \in Cmds /\ "" \in Inputs
      BY DEF Cmds, Inputs
    <3>3. MaxFound \in Nat
      BY ThreadAssumption
    <3>4. 0 \in 0 .. MaxFound
      BY <3>3
    <3> QED
      BY <3>1, <3>2, <3>4
  <2> QED
    BY <2>1, <2>2 DEF Init, ControlOK, Work
<1>6. TypeOK
  BY <1>4, <1>5, TypeSplit
<1>0. pc = "off" /\ over = "no" /\ told = FALSE
  BY DEF Init
<1>7. QueueOrder /\ EndReason /\ CloseIsLast
  BY <1>0, <1>1, <1>2 DEF QueueOrder, EndReason, CloseIsLast, Ended, Live
<1>8. ThreadStarted /\ MembersMatch /\ LanesMatch /\ MemoryBuilt
  BY <1>3 DEF Init, ThreadStarted, MembersMatch, LanesMatch, MemoryBuilt
<1>9. EventsEnd /\ TagsMatch /\ OwedBy
  BY <1>0, <1>1, <1>2 DEF EventsEnd, TagsMatch, OwedBy, Due
<1> QED
  BY <1>6, <1>7, <1>8, <1>9 DEF IInv

\* The inductive invariant is an invariant of the compute core.
THEOREM Invariance == Spec => []IInv
<1>1. IInv /\ [Next]_vars => IInv'
  <2> SUFFICES ASSUME IInv, [Next]_vars PROVE IInv'
    OBVIOUS
  <2>1. TypeOK'
    <3>1. TypeOK /\ QueueOrder /\ LanesMatch /\ ThreadStarted
      BY DEF IInv
    <3>2. TokensOK' /\ ControlOK'
      BY <3>1, TokensStep, ControlStep
    <3>3. TypeOK' <=> TokensOK' /\ ControlOK'
      BY TypeSplit, PTL
    <3> QED
      BY <3>2, <3>3
  <2>2. QueueOrder' /\ ThreadStarted' /\ EndReason' /\ CloseIsLast'
    BY QueueStep, StartedStep, EndStep, CloseStep DEF IInv
  <2>3. MembersMatch' /\ LanesMatch' /\ MemoryBuilt'
    BY MembersStep, LanesStep, MemoryStep
  <2>4. EventsEnd' /\ TagsMatch' /\ OwedBy'
    BY EventsStep, OwedStep
  <2> QED
    BY <2>1, <2>2, <2>3, <2>4 DEF IInv
<1> QED
  BY <1>1, InitIInv, PTL DEF Spec

\* Types.
THEOREM TypeCorrect == Spec => []TypeOK
<1>1. IInv => TypeOK
  BY DEF IInv
<1> QED
  BY <1>1, Invariance, PTL

\* Whatever threads JavaScript, the compute thread and the RandomX threads are
\* interleaved like, a result or a position names the job of its blob:
\* send_result reads the ids while set_job cannot replace them.
THEOREM TagsAreRight == Spec => []TagsMatch
<1>1. IInv => TagsMatch
  BY DEF IInv
<1> QED
  BY <1>1, Invariance, PTL

\* The terminal event is the last one queued, and no RandomX thread outlives
\* the thread-safe function.
THEOREM EndIsLast == Spec => []TerminalLast
<1>1. IInv => TerminalLast
  BY DEF IInv, TerminalLast, EventsEnd, LanesMatch, ThreadStarted, EndReason, Ended
<1> QED
  BY <1>1, Invariance, PTL

\* A RandomX thread hashes on machines that exist, over its own dataset.
THEOREM MemoryIsValid == Spec => []RxMemoryValid
<1>1. IInv => RxMemoryValid
  BY DEF IInv, RxMemoryValid, LanesMatch
<1> QED
  BY <1>1, Invariance, PTL

\* A job's position is reported before the job is forgotten, or an error ended
\* the job.
THEOREM PositionsReported == Spec => []PositionReported
<1>1. ASSUME IInv PROVE PositionReported
  <2>1. ASSUME pc = "drain", NEW o \in owed \ lost PROVE o[1] = job
    BY <1>1, <2>1 DEF IInv, OwedBy, LanesMatch, Due
  <2> QED
    BY <1>1, <2>1 DEF IInv, OwedBy, PositionReported, Due
<1>2. IInv => PositionReported
  BY <1>1
<1> QED
  BY <1>2, Invariance, PTL

-----------------------------------------------------------------------------
(* The compute core implements the command channel.                        *)

\* The compute core does nothing the command channel does not allow: a write is
\* an Accept, the end of a command a Handle, the terminal event Complete or
\* Fail, and the last store to m_accepting a Shut.  Everything else is a
\* stuttering step of the channel.
THEOREM ChannelImplemented == Spec => CommandsInOrder
<1> DEFINE Open == accepting \/ js = "write"
<1>1. Init => Channel!Init
  BY DEF Init, Channel!Init
<1>2. IInv /\ [Next]_vars => [Channel!Next]_(Channel!vars)
  <2> SUFFICES ASSUME IInv, [Next]_vars PROVE [Channel!Next]_(Channel!vars)
    OBVIOUS
  <2> USE DEF IInv
  <2> DEFINE Same == UNCHANGED <<sent, handled, over>>
  <2>1. ASSUME Same, Open' = Open \/ (Open /\ Open' = FALSE) PROVE [Channel!Next]_(Channel!vars)
    BY <2>1 DEF Channel!Next, Channel!Shut, Channel!vars
  <2>2. (js \in {"write", "writeClose"}) => ~Channel!Closing(sent)
    BY DEF CloseIsLast, Channel!Closing
  <2>3. CASE PostWrite
    <3>1. cmd \in Cmds /\ js = "write"
      BY <2>3 DEF PostWrite, TypeOK
    <3>2. sent' = Append(sent, cmd) /\ UNCHANGED <<accepting, handled, over>>
      BY <2>3 DEF PostWrite, Write
    <3>3. js' # "write"
      BY <2>3 DEF PostWrite
    <3>4. Open /\ Open' \in {Open, FALSE}
      BY <3>1, <3>2, <3>3, Zenon
    <3>5. Channel!Accept(cmd)
      BY <2>2, <3>1, <3>2, <3>4 DEF Channel!Accept
    <3> QED
      BY <3>1, <3>5 DEF Channel!Next
  <2>4. CASE StopWrite
    <3>1. Close \in Cmds /\ js = "writeClose" /\ Close.kind = "close"
      BY <2>4 DEF StopWrite, Cmds, Close
    <3>2. sent' = Append(sent, Close) /\ UNCHANGED <<accepting, handled, over>>
      BY <2>4 DEF StopWrite, Write
    <3>3. js' # "write"
      BY <2>4 DEF StopWrite
    <3>4. Open' \in {Open, FALSE}
      BY <3>1, <3>2, <3>3
    <3>5. Channel!Accept(Close)
      BY <2>2, <3>1, <3>2, <3>4 DEF Channel!Accept
    <3> QED
      BY <3>1, <3>5 DEF Channel!Next
  <2>5. ASSUME NEW c \in Cmds, Post(c) PROVE [Channel!Next]_(Channel!vars)
    <3>1. Same /\ Open' = Open
      BY <2>5 DEF Post, ghosts
    <3> QED
      BY <2>1, <3>1
  <2>6. CASE StartFails \/ PostShut \/ Exchange
    <3>1. Same /\ Open' = FALSE
      BY <2>6 DEF StartFails, PostShut, Exchange, ghosts
    <3> QED
      BY <2>1, <3>1
  <2>7. CASE Destroy \/ Recheck \/ Joined
    <3>1. Same /\ Open' = Open
      BY <2>7 DEF Destroy, Recheck, Joined, ghosts
    <3> QED
      BY <2>1, <3>1
  <2>8. CASE Refuse
    <3>1. Same /\ accepting' = FALSE /\ js' = js
      BY <2>8 DEF Refuse, ghosts
    <3> QED
      BY <2>1, <3>1
  <2>9. CASE \/ CallEvent \/ Dispatch \/ (\E b \in Lanes : RxStep(b)) \/ UNCHANGED vars
             \/ Drain \/ Begin \/ Unwind \/ Unwound \/ Mark \/ Release \/ SetJobRxUnwinds(Cur)
    <3>1. Same /\ UNCHANGED <<accepting, js>>
      BY <2>9 DEF CallEvent, Dispatch, RxStep, RxFind, RxSend, RxTest, RxFails, RxLeave,
                  RxUnchanged, vars, Drain, Begin, Unwind, Unwound, Mark, Release,
                  SetJobRxUnwinds, jsVars, ghosts
    <3> QED
      BY <2>1, <3>1
  <2>10. ASSUME pc \in {"handle", "join"}, handled' = handled + 1,
                UNCHANGED <<accepting, js, sent, over>>
         PROVE  [Channel!Next]_(Channel!vars)
    <3>1. handled < Len(sent) /\ (handled = 0 \/ sent[handled].kind # "close") /\ over = "no"
      <4>1. handled + 1 \in 1 .. Len(sent) /\ handled \in Nat /\ Len(sent) \in Nat
        BY <2>10, CurTyped, LenProperties DEF TypeOK
      <4> QED
        BY <2>10, <4>1 DEF EndReason, Ended, Live
    <3>2. Channel!Handle
      BY <2>10, <3>1 DEF Channel!Handle
    <3> QED
      BY <3>2 DEF Channel!Next
  <2>11. CASE HandleOther \/ ApplyPause \/ ApplyClose
    BY <2>10, <2>11 DEF HandleOther, ApplyPause, ApplyClose, Ready, Done, jsVars
  <2>12. CASE SetJob(Cur)
    BY <2>9, <2>10, <2>12
       DEF SetJob, Refresh, SetJobFails, SetJobFn, SetJobRx, Ready, Done, jsVars
  <2>13. CASE Terminal
    <3>1. over = "no" /\ UNCHANGED <<accepting, js, sent, handled>>
      BY <2>13 DEF Terminal, Terminals, EndReason, Ended, jsVars
    <3>2. CASE pc = "complete"
      BY <2>13, <3>1, <3>2 DEF Terminal, EndReason, Channel!Complete, Channel!Next
    <3>3. CASE pc = "failed"
      BY <2>13, <3>1, <3>3 DEF Terminal, Channel!Fail, Channel!Next
    <3> QED
      BY <2>13, <3>2, <3>3 DEF Terminal, Terminals
  <2> QED
    BY <2>3, <2>4, <2>5, <2>6, <2>7, <2>8, <2>9, <2>11, <2>12, <2>13
       DEF Next, JsStep, ComputeStep
<1> QED
  BY <1>1, <1>2, Invariance, PTL DEF Spec, CommandsInOrder, Channel!Spec
=============================================================================
