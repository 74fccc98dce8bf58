---------------------------- MODULE BridgeProofs ----------------------------
(***************************************************************************)
(* Proofs about the bridge for any number of POST and GET handlers, ids,   *)
(* pipe sizes and messages of the child's.  What the theorems assume of    *)
(* the ids in use is stated in them: the code does not see to it (see      *)
(* SharedIds in MCBridge).                                                 *)
(***************************************************************************)
EXTENDS Bridge, SequenceTheorems, TLAPS

(* No two requests to the child have the same JSON-RPC id.                 *)
DistinctRequestIds == \A p, q \in Posts : IsRequest(p) /\ IdOf[p] = IdOf[q] => p = q

(* The child numbers its own requests differently from the clients.        *)
OwnServerIds == \A p \in Posts : IsRequest(p) => IdOf[p] \notin ServerIds

(* The lines a child writes, and the value for no line.                    *)
Lines == {None} \cup {Answer(p) : p \in Posts} \cup {ServerMsg(id) : id \in ServerIds}

PostsOK ==
    /\ pc \in [Posts -> {"idle", "register", "send", "writing", "wait", "leave", "done"}]
    /\ status \in [Posts -> {"none", "200", "202", "400", "502", "gone"}]
    /\ got \in [Posts -> Lines]
ChansOK ==
    /\ pending \in [Ids -> Posts \cup {NoPost}]
    /\ buf \in [Posts -> Lines]
    /\ closed \subseteq Posts
ChildOK ==
    /\ mu \in Posts \cup {NoPost}
    /\ stdin \in Seq(Posts) /\ working \subseteq Posts /\ stdout \in Seq(Lines) /\ smsgs \in Nat
    /\ proc \in {"running", "exited", "reaped", "swept", "done"}
ReadOK ==
    /\ reader \in {"scan", "lookup", "deliver", "notify", "stopped"}
    /\ rmsg \in Lines
    /\ rch \in Posts \cup {NoPost}
    /\ notifs \in Seq(Lines)
    /\ gpc \in [Gets -> {"idle", "stream"}]
    /\ crashed \in BOOLEAN

(* The type invariant: what each field of Server and each local holds.     *)
TypeOK == PostsOK /\ ChansOK /\ ChildOK /\ ReadOK

(* A channel is registered under its own id, by a handler that has still   *)
(* to run its deferred delete.                                             *)
EntriesOwned ==
    \A k \in Ids : pending[k] # NoPost =>
        IdOf[pending[k]] = k /\ pc[pending[k]] \in {"send", "writing", "wait", "leave"}

(* readLoop looks up lines with an id only, and the channel it found is    *)
(* the one of a request with the id of its line.                           *)
LookedUp ==
    /\ reader = "lookup" => rmsg.id \in Ids
    /\ reader = "deliver" => rch \in Posts /\ rmsg.id \in Ids /\ IdOf[rch] = rmsg.id

(* Only requests register, wait and have a deferred delete.                *)
WaitersAreRequests == \A p \in Posts : pc[p] \in {"register", "wait", "leave"} => IsRequest(p)

(* The inductive invariant that needs no assumption about ids.             *)
MapInv == TypeOK /\ EntriesOwned /\ LookedUp /\ WaitersAreRequests

(* With distinct ids a handler keeps its entry from register to its own    *)
(* deferred delete, or until the sweep.                                    *)
StaysRegistered ==
    \A p \in Posts :
        (IsRequest(p) /\ pc[p] \in {"send", "writing", "wait"}) =>
            pending[IdOf[p]] = p \/ proc \in {"swept", "done"}

(* x is in the sequence; it is there no more than once.                    *)
Occurs(s, x) == \E i \in 1..Len(s) : s[i] = x
Once(s, x) == \A i, j \in 1..Len(s) : s[i] = x /\ s[j] = x => i = j

(* p has not been written to the child yet; readLoop has the answer to p   *)
(* and is about to look it up or to deliver it.                            *)
Early(p) == pc[p] \in {"idle", "register", "send", "writing"}
Reading(p) == reader \in {"lookup", "deliver"} /\ rmsg = Answer(p)

(* A request, and then its answer, is in one place at a time on its way    *)
(* through stdin, the child, stdout, readLoop and the channel.             *)
OnePlace(p) ==
    /\ Once(stdin, p) /\ Once(stdout, Answer(p))
    /\ Occurs(stdin, p) => ~ Early(p)
    /\ p \in working => ~ Early(p) /\ ~ Occurs(stdin, p)
    /\ Occurs(stdout, Answer(p)) => ~ Early(p) /\ ~ Occurs(stdin, p) /\ p \notin working
    /\ Reading(p) => /\ ~ Early(p) /\ ~ Occurs(stdin, p) /\ p \notin working
                     /\ ~ Occurs(stdout, Answer(p))
    /\ buf[p] # None => /\ ~ Early(p) /\ ~ Occurs(stdin, p) /\ p \notin working
                        /\ ~ Occurs(stdout, Answer(p)) /\ ~ Reading(p)
OneAnswer == \A p \in Posts : OnePlace(p)

(* The send of readLoop does not block: the channel has room for it.       *)
DeliveryHasRoom == reader = "deliver" => buf[rch] = None

(* One handler at a time writes to stdin, the one that holds s.mu.         *)
OneWriter == \A p \in Posts : pc[p] = "writing" <=> mu = p

(* A panic of readLoop needs a channel that the exit goroutine has closed. *)
PanicNeedsSweep == (crashed \/ closed # {}) => proc \in {"swept", "done"}

(* What sits in a channel is the answer to the request it belongs to.      *)
OwnAnswers ==
    \A p \in Posts : (buf[p] # None => buf[p] = Answer(p)) /\ (status[p] = "200" => got[p] = Answer(p))

-----------------------------------------------------------------------------
(* None is a line, and a line with an id is an answer or a request of the  *)
(* child's.                                                                *)
LEMMA LineFacts ==
    /\ None \in Lines
    /\ \A p \in Posts : Answer(p) \in Lines
    /\ \A id \in ServerIds : ServerMsg(id) \in Lines
    /\ \A m \in Lines : m.id \in Ids \cup {NoId}
    /\ \A m \in Lines : \/ \E p \in Posts : m = Answer(p)
                        \/ m.id \in ServerIds \cup {NoId}
  BY BridgeAssumption DEF Lines, None, Answer, ServerMsg

(* Sequences of a type stay so when read from and written to.              *)
LEMMA PipeType ==
    ASSUME NEW S, NEW s \in Seq(S)
    PROVE  /\ \A x \in S : Append(s, x) \in Seq(S)
           /\ s # <<>> => Head(s) \in S /\ Tail(s) \in Seq(S)
           /\ <<>> \in Seq(S)
  OBVIOUS

(* Every step keeps the variables in their types.                          *)
LEMMA TypeStep == TypeOK /\ LookedUp /\ [Next]_vars => TypeOK'
<1> SUFFICES ASSUME TypeOK, LookedUp, [Next]_vars PROVE TypeOK'
  OBVIOUS
<1> USE BridgeAssumption DEF TypeOK, PostsOK, ChansOK, ChildOK, ReadOK, Finish, Failed,
        postVars, chanVars, childVars, readVars, sseVars
<1>in. /\ \A p \in Posts : Append(stdin, p) \in Seq(Posts)
       /\ stdin # <<>> => Head(stdin) \in Posts /\ Tail(stdin) \in Seq(Posts)
       /\ <<>> \in Seq(Posts)
  BY PipeType
<1>out. /\ \A m \in Lines : Append(stdout, m) \in Seq(Lines)
        /\ stdout # <<>> => Head(stdout) \in Lines /\ Tail(stdout) \in Seq(Lines)
        /\ <<>> \in Seq(Lines)
  BY PipeType
<1>sse. /\ \A m \in Lines : Append(notifs, m) \in Seq(Lines)
        /\ notifs # <<>> => Tail(notifs) \in Seq(Lines)
  BY PipeType
<1>1. ASSUME NEW p \in Posts, PostStart(p) PROVE TypeOK'
  BY <1>1 DEF PostStart
<1>2. ASSUME NEW p \in Posts, PostRegister(p) PROVE TypeOK'
  BY <1>2 DEF PostRegister
<1>3. ASSUME NEW p \in Posts, SendLock(p) PROVE TypeOK'
  BY <1>3 DEF SendLock
<1>4. ASSUME NEW p \in Posts, SendWrite(p) PROVE TypeOK'
  <2>1. CASE proc = "running"
    <3>1. stdin' \in Seq(Posts)
      <4>1. stdin' = Append(stdin, p)
        BY <1>4, <2>1 DEF SendWrite
      <4> QED
        BY <4>1, <1>in
    <3>2. PostsOK'
      BY <1>4, <2>1 DEF SendWrite
    <3> QED
      BY <1>4, <3>1, <3>2 DEF SendWrite
  <2>2. CASE proc # "running"
    <3>1. PostsOK'
      BY <1>4, <2>2 DEF SendWrite
    <3> QED
      BY <1>4, <2>2, <3>1 DEF SendWrite
  <2> QED
    BY <2>1, <2>2
<1>5. ASSUME NEW p \in Posts, WaitAnswer(p) PROVE TypeOK'
  <2>1. PostsOK'
    <3>1. got' = got \/ got' = [got EXCEPT ![p] = buf[p]]
      BY <1>5 DEF WaitAnswer
    <3>2. got' \in [Posts -> Lines]
      BY <3>1
    <3>3. \E s \in {"200", "502"} : Finish(p, s, "leave")
      BY <1>5 DEF WaitAnswer
    <3> QED
      BY <3>2, <3>3
  <2>2. buf' \in [Posts -> Lines]
    <3>1. buf' = buf \/ buf' = [buf EXCEPT ![p] = None]
      BY <1>5 DEF WaitAnswer
    <3>2. None \in Lines
      BY LineFacts
    <3> QED
      BY <3>1, <3>2
  <2> QED
    BY <1>5, <2>1, <2>2 DEF WaitAnswer
<1>6. ASSUME NEW p \in Posts, PostLeave(p) PROVE TypeOK'
  BY <1>6 DEF PostLeave
<1>7. ASSUME NEW p \in Posts, WaitGone(p) PROVE TypeOK'
  BY <1>7 DEF WaitGone
<1>8. CASE ChildRead
  BY <1>8, <1>in DEF ChildRead
<1>9. ASSUME NEW p \in Posts, ChildAnswer(p) PROVE TypeOK'
  BY <1>9, <1>out, LineFacts DEF ChildAnswer
<1>10. ASSUME NEW id \in ServerIds, ChildServerMsg(id) PROVE TypeOK'
  BY <1>10, <1>out, LineFacts DEF ChildServerMsg
<1>11. CASE ChildExit
  BY <1>11 DEF ChildExit
<1>12. CASE Reap
  BY <1>12, <1>in, <1>out DEF Reap
<1>13. CASE FailPending
  BY <1>13 DEF FailPending
<1>14. CASE CloseDone
  BY <1>14 DEF CloseDone
<1>15. CASE ReadLine
  BY <1>15, <1>out DEF ReadLine
<1>16. CASE ReadTooLong \/ ReadEOF
  BY <1>16 DEF ReadTooLong, ReadEOF
<1>17. CASE ReadDeliver
  <2>1. buf' \in [Posts -> Lines]
    <3>1. buf' = buf \/ buf' = [buf EXCEPT ![rch] = rmsg]
      BY <1>17 DEF ReadDeliver
    <3> QED
      BY <3>1
  <2>2. ReadOK'
    BY <1>17, LineFacts DEF ReadDeliver
  <2> QED
    BY <1>17, <2>1, <2>2 DEF ReadDeliver
<1>18. CASE ReadLookup
  BY <1>18 DEF ReadLookup, LookedUp
<1>19. CASE ReadNotify
  BY <1>19, <1>sse, LineFacts DEF ReadNotify
<1>20. ASSUME NEW g \in Gets, GetStart(g) \/ GetTake(g) \/ GetEnd(g) PROVE TypeOK'
  BY <1>20, <1>sse DEF GetStart, GetTake, GetEnd
<1>21. CASE UNCHANGED vars
  BY <1>21 DEF vars
<1> QED
  BY <1>1, <1>2, <1>3, <1>4, <1>5, <1>6, <1>8, <1>9, <1>10, <1>11, <1>15, <1>16, <1>18, <1>19,
     <1>20, <1>21, <1>7, <1>12, <1>13, <1>14, <1>17 DEF Next, PostStep, WaitStep, ReadStep, ChildStep

-----------------------------------------------------------------------------
(* The steps that touch a handler's position or the pending map.           *)
LEMMA MapMoves ==
    ASSUME [Next]_vars
    PROVE  \/ UNCHANGED <<pc, pending>>
           \/ \E p \in Posts : \/ PostStart(p) \/ PostRegister(p) \/ SendLock(p) \/ SendWrite(p)
                               \/ WaitAnswer(p) \/ WaitGone(p) \/ PostLeave(p)
           \/ FailPending
  BY DEF Next, PostStep, WaitStep, ReadStep, ChildStep, ChildRead, ChildAnswer, ChildServerMsg,
     ChildExit, Reap, CloseDone, ReadLine, ReadTooLong, ReadEOF, ReadLookup, ReadDeliver,
     ReadNotify, GetStart, GetTake, GetEnd, vars, postVars, chanVars

(* How a handler's own step moves it: nobody else moves, and only          *)
(* registering and leaving change the map.                                 *)
LEMMA HandlerMoves ==
    ASSUME TypeOK, NEW p \in Posts,
           \/ PostStart(p) \/ PostRegister(p) \/ SendLock(p) \/ SendWrite(p)
           \/ WaitAnswer(p) \/ WaitGone(p) \/ PostLeave(p)
    PROVE  /\ \A q \in Posts \ {p} : pc'[q] = pc[q]
           /\ \/ /\ pc[p] = "idle" /\ pending' = pending
                 /\ \/ pc'[p] = "done"
                    \/ pc'[p] = "register" /\ IsRequest(p)
                    \/ pc'[p] = "send" /\ ~ IsRequest(p)
              \/ /\ pc[p] = "register" /\ pc'[p] = "send"
                 /\ pending' = [pending EXCEPT ![IdOf[p]] = p]
              \/ /\ pc[p] \in {"send", "writing", "wait"} /\ pending' = pending
                 /\ \/ pc'[p] \in {"writing", "leave", "wait"}
                    \/ pc'[p] = "done" /\ ~ IsRequest(p)
                 /\ pc'[p] \in {"wait", "leave"} => IsRequest(p) \/ pc[p] = "wait"
                 /\ pc[p] = "wait" => pc'[p] = "leave"
              \/ /\ pc[p] = "leave" /\ pc'[p] = "done"
                 /\ pending' = [pending EXCEPT ![IdOf[p]] = NoPost]
<1> USE DEF TypeOK, PostsOK, Finish, Failed, chanVars
<1>1. CASE PostStart(p)
  BY <1>1 DEF PostStart
<1>2. CASE PostRegister(p)
  BY <1>2 DEF PostRegister
<1>3. CASE SendLock(p)
  BY <1>3 DEF SendLock
<1>4. CASE SendWrite(p)
  BY <1>4 DEF SendWrite
<1>5. CASE WaitAnswer(p)
  BY <1>5 DEF WaitAnswer
<1>6. CASE WaitGone(p)
  BY <1>6 DEF WaitGone
<1>7. CASE PostLeave(p)
  BY <1>7 DEF PostLeave
<1> QED
  BY <1>1, <1>2, <1>3, <1>4, <1>5, <1>6, <1>7

(* Every step keeps the map's entries with the handlers that own them.     *)
LEMMA EntriesStep == MapInv /\ [Next]_vars => EntriesOwned' /\ WaitersAreRequests'
<1> SUFFICES ASSUME MapInv, [Next]_vars PROVE EntriesOwned' /\ WaitersAreRequests'
  OBVIOUS
<1>1. CASE UNCHANGED <<pc, pending>>
  BY <1>1 DEF MapInv, EntriesOwned, WaitersAreRequests
<1>2. ASSUME NEW p \in Posts,
             \/ PostStart(p) \/ PostRegister(p) \/ SendLock(p) \/ SendWrite(p)
             \/ WaitAnswer(p) \/ WaitGone(p) \/ PostLeave(p)
      PROVE  EntriesOwned' /\ WaitersAreRequests'
  <2>1. EntriesOwned'
    <3> SUFFICES ASSUME NEW k \in Ids, pending'[k] # NoPost
                 PROVE  /\ IdOf[pending'[k]] = k
                        /\ pc'[pending'[k]] \in {"send", "writing", "wait", "leave"}
      BY DEF EntriesOwned
    <3>1. pending'[k] \in {pending[k], p}
      BY <1>2, HandlerMoves DEF MapInv, TypeOK, ChansOK
    <3> QED
      BY <1>2, <3>1, HandlerMoves, BridgeAssumption
      DEF MapInv, TypeOK, ChansOK, EntriesOwned, IsRequest, WaitersAreRequests
  <2>2. WaitersAreRequests'
    BY <1>2, HandlerMoves DEF MapInv, WaitersAreRequests
  <2> QED
    BY <2>1, <2>2
<1>3. CASE FailPending
  BY <1>3 DEF FailPending, postVars, MapInv, EntriesOwned, WaitersAreRequests
<1> QED
  BY <1>1, <1>2, <1>3, MapMoves

(* Every step keeps readLoop's line and channel matched.                   *)
LEMMA LookedUpStep == MapInv /\ [Next]_vars => LookedUp'
<1> SUFFICES ASSUME MapInv, [Next]_vars PROVE LookedUp'
  OBVIOUS
<1>1. CASE UNCHANGED readVars
  BY <1>1 DEF readVars, MapInv, LookedUp
<1>2. CASE ReadLine
  <2>1. Head(stdout) \in Lines
    BY <1>2, PipeType DEF ReadLine, MapInv, TypeOK, ChildOK
  <2>2. Head(stdout).id \in Ids \cup {NoId}
    BY <2>1, LineFacts
  <2> QED
    BY <1>2, <2>2 DEF ReadLine, LookedUp
<1>3. CASE ReadLookup
  BY <1>3, BridgeAssumption DEF ReadLookup, LookedUp, MapInv, TypeOK, ChansOK, EntriesOwned
<1>4. CASE ReadTooLong \/ ReadEOF \/ ReadNotify
  BY <1>4 DEF ReadTooLong, ReadEOF, ReadNotify, LookedUp
<1>5. CASE ReadDeliver
  BY <1>5 DEF ReadDeliver, readVars, MapInv, LookedUp
<1> QED
  BY <1>1, <1>2, <1>3, <1>4, <1>5
  DEF Next, PostStep, WaitStep, ReadStep, ChildStep, ChildRead, ChildAnswer, ChildServerMsg,
      ChildExit, Reap, FailPending, CloseDone, GetStart, GetTake, GetEnd, vars,
      PostStart, PostRegister, SendLock, SendWrite, WaitAnswer, WaitGone, PostLeave

(* MapInv holds at first and every step keeps it.                          *)
LEMMA MapInvariant == Spec => []MapInv
<1>1. Init => MapInv
  <2> SUFFICES ASSUME Init PROVE MapInv
    OBVIOUS
  <2>1. None \in Lines
    BY LineFacts
  <2>2. PostsOK /\ ChansOK
    BY <2>1 DEF Init, PostsOK, ChansOK
  <2>3. ChildOK
    BY DEF Init, ChildOK
  <2>4. ReadOK
    <3>1. gpc \in [Gets -> {"idle", "stream"}] /\ notifs \in Seq(Lines)
      BY DEF Init
    <3>2. rmsg \in Lines
      BY <2>1 DEF Init
    <3> QED
      BY <3>1, <3>2 DEF Init, ReadOK
  <2>5. EntriesOwned /\ LookedUp /\ WaitersAreRequests
    BY DEF Init, EntriesOwned, LookedUp, WaitersAreRequests
  <2> QED
    BY <2>2, <2>3, <2>4, <2>5 DEF MapInv, TypeOK
<1>2. MapInv /\ [Next]_vars => MapInv'
  BY TypeStep, EntriesStep, LookedUpStep DEF MapInv
<1> QED
  BY <1>1, <1>2, PTL DEF Spec

(* Every variable of the bridge keeps its type: readLoop, in particular,   *)
(* only looks up ids and only sends on a handler's channel.                *)
THEOREM BridgeTypeCorrect == Spec => []TypeOK
  BY MapInvariant, PTL DEF MapInv

(* The deferred delete of handlePost: no channel stays in s.pending after  *)
(* its handler has returned.  This holds also when clients share ids: an   *)
(* overwritten entry is gone, and any other one is deleted by its owner.   *)
THEOREM EntriesAreLive == Spec => []NoStaleRegistration
<1>1. MapInv => NoStaleRegistration
  BY DEF MapInv, EntriesOwned, NoStaleRegistration
<1> QED
  BY <1>1, MapInvariant, PTL

-----------------------------------------------------------------------------
(* With distinct ids no step of another handler takes an entry away.       *)
LEMMA RegisteredStep ==
    ASSUME DistinctRequestIds
    PROVE  MapInv /\ StaysRegistered /\ [Next]_vars => StaysRegistered'
<1> SUFFICES ASSUME MapInv, StaysRegistered, [Next]_vars PROVE StaysRegistered'
  OBVIOUS
<1>0. proc \in {"swept", "done"} => proc' \in {"swept", "done"}
  BY DEF Next, PostStep, WaitStep, ReadStep, ChildStep, ChildRead, ChildAnswer, ChildServerMsg,
     ChildExit, Reap, FailPending, CloseDone, GetStart, GetTake, GetEnd, vars,
     PostStart, PostRegister, SendLock, SendWrite, WaitAnswer, WaitGone, PostLeave,
     ReadLine, ReadTooLong, ReadEOF, ReadLookup, ReadDeliver, ReadNotify
<1>1. CASE UNCHANGED <<pc, pending>>
  BY <1>0, <1>1 DEF StaysRegistered
<1>2. ASSUME NEW p \in Posts,
             \/ PostStart(p) \/ PostRegister(p) \/ SendLock(p) \/ SendWrite(p)
             \/ WaitAnswer(p) \/ WaitGone(p) \/ PostLeave(p)
      PROVE  StaysRegistered'
  <2> SUFFICES ASSUME NEW q \in Posts, IsRequest(q), pc'[q] \in {"send", "writing", "wait"},
                      proc' \notin {"swept", "done"}
               PROVE  pending'[IdOf[q]] = q
    BY DEF StaysRegistered
  <2>1. IdOf[q] \in Ids /\ pending \in [Ids -> Posts \cup {NoPost}]
    BY BridgeAssumption DEF IsRequest, MapInv, TypeOK, ChansOK
  <2>2. CASE q = p
    BY <1>0, <1>2, <2>1, <2>2, HandlerMoves DEF MapInv, StaysRegistered
  <2>3. CASE q # p
    <3>1. IdOf[q] # IdOf[p]
      BY <2>3 DEF DistinctRequestIds
    <3>2. pending[IdOf[q]] = q
      BY <1>0, <1>2, <2>3, HandlerMoves DEF MapInv, StaysRegistered
    <3> QED
      BY <1>2, <2>1, <3>1, <3>2, HandlerMoves DEF MapInv
  <2> QED
    BY <2>2, <2>3
<1>3. CASE FailPending
  BY <1>3 DEF FailPending, StaysRegistered
<1> QED
  BY <1>1, <1>2, <1>3, MapMoves

(* No wakeup is lost in handlePost: with distinct ids in use, a waiting    *)
(* request is registered until the exit goroutine has swept s.pending.     *)
THEOREM WaitersAreReachable == DistinctRequestIds => (Spec => []WaiterReachable)
<1> SUFFICES ASSUME DistinctRequestIds PROVE Spec => []WaiterReachable
  OBVIOUS
<1>1. Init => StaysRegistered
  BY DEF Init, StaysRegistered
<1>2. MapInv /\ StaysRegistered => WaiterReachable
  BY DEF MapInv, WaitersAreRequests, StaysRegistered, WaiterReachable
<1> QED
  BY <1>1, <1>2, RegisteredStep, MapInvariant, PTL DEF Spec

(* A line delivered to a handler is the answer to its request: its id is   *)
(* the handler's, which neither another request nor the child itself uses. *)
LEMMA DeliveredLine ==
    ASSUME DistinctRequestIds, OwnServerIds, MapInv, reader = "deliver"
    PROVE  rmsg = Answer(rch)
<1>1. rch \in Posts /\ rmsg.id \in Ids /\ IdOf[rch] = rmsg.id /\ rmsg \in Lines
  BY DEF MapInv, LookedUp, TypeOK, ReadOK
<1>2. rmsg.id \notin ServerIds \cup {NoId}
  BY <1>1, BridgeAssumption DEF OwnServerIds, IsRequest
<1>3. PICK p \in Posts : rmsg = Answer(p)
  BY <1>1, <1>2, LineFacts
<1>4. IdOf[p] = IdOf[rch] /\ IsRequest(p)
  BY <1>1, <1>3, BridgeAssumption DEF Answer, IsRequest
<1>5. p = rch
  BY <1>1, <1>4 DEF DistinctRequestIds
<1> QED
  BY <1>3, <1>5

(* With distinct ids every step keeps a handler's answer its own.          *)
LEMMA AnswersStep ==
    ASSUME DistinctRequestIds, OwnServerIds
    PROVE  MapInv /\ OwnAnswers /\ [Next]_vars => OwnAnswers'
<1> SUFFICES ASSUME MapInv, OwnAnswers, [Next]_vars PROVE OwnAnswers'
  OBVIOUS
<1> USE DEF MapInv, TypeOK, PostsOK, ChansOK
<1>1. CASE UNCHANGED <<status, got, buf>>
  BY <1>1 DEF OwnAnswers
<1>2. CASE ReadDeliver
  <2>1. UNCHANGED <<status, got>>
    BY <1>2 DEF ReadDeliver, postVars
  <2>2. buf' = buf \/ buf' = [buf EXCEPT ![rch] = Answer(rch)]
    BY <1>2, DeliveredLine DEF ReadDeliver
  <2> QED
    BY <2>1, <2>2 DEF OwnAnswers
<1>3. ASSUME NEW p \in Posts, WaitAnswer(p) PROVE OwnAnswers'
  <2>1. \/ /\ buf[p] # None
           /\ status' = [status EXCEPT ![p] = "200"]
           /\ got' = [got EXCEPT ![p] = buf[p]]
           /\ buf' = [buf EXCEPT ![p] = None]
        \/ status' = [status EXCEPT ![p] = "502"] /\ UNCHANGED <<got, buf>>
    BY <1>3 DEF WaitAnswer, Finish
  <2> QED
    BY <2>1 DEF OwnAnswers
<1>4. ASSUME NEW p \in Posts,
             PostStart(p) \/ SendLock(p) \/ SendWrite(p) \/ WaitGone(p)
      PROVE  OwnAnswers'
  <2>1. /\ UNCHANGED <<got, buf>>
        /\ \/ UNCHANGED status
           \/ \E s \in {"202", "400", "502", "gone"} : status' = [status EXCEPT ![p] = s]
    BY <1>4 DEF PostStart, SendLock, SendWrite, WaitGone, Finish, chanVars
  <2> QED
    BY <2>1 DEF OwnAnswers
<1> QED
  BY <1>1, <1>2, <1>3, <1>4
  DEF Next, PostStep, WaitStep, ReadStep, ChildStep, ChildRead, ChildAnswer, ChildServerMsg,
      ChildExit, Reap, FailPending, CloseDone, GetStart, GetTake, GetEnd, vars,
      PostRegister, PostLeave, ReadLine, ReadTooLong, ReadEOF, ReadLookup, ReadNotify,
      postVars, chanVars

(* A POST is answered with the response to its own request, if the clients *)
(* and the child use distinct ids, whatever order the child answers in.    *)
THEOREM AnswersMatch ==
    DistinctRequestIds /\ OwnServerIds => (Spec => []ResponseMatchesRequest)
<1> SUFFICES ASSUME DistinctRequestIds, OwnServerIds PROVE Spec => []ResponseMatchesRequest
  OBVIOUS
<1>1. Init => OwnAnswers
  BY DEF Init, OwnAnswers
<1>2. OwnAnswers => ResponseMatchesRequest
  BY DEF OwnAnswers, ResponseMatchesRequest
<1> QED
  BY <1>1, <1>2, AnswersStep, MapInvariant, PTL DEF Spec

-----------------------------------------------------------------------------
(* Writing to a pipe and reading from it, as to what is in it.             *)
LEMMA AppendOccurs ==
    ASSUME NEW S, NEW s \in Seq(S), NEW x \in S
    PROVE  /\ \A y : Occurs(Append(s, x), y) => Occurs(s, y) \/ y = x
           /\ \A y : Once(s, y) /\ (y = x => ~ Occurs(s, y)) => Once(Append(s, x), y)
  BY DEF Occurs, Once

(* Taking the head off a sequence leaves at most what was there.           *)
LEMMA TailOccurs ==
    ASSUME NEW S, NEW s \in Seq(S), s # <<>>
    PROVE  /\ \A y : Occurs(Tail(s), y) => Occurs(s, y)
           /\ \A y : Once(s, y) => Once(Tail(s), y)
           /\ Occurs(s, Head(s))
           /\ Once(s, Head(s)) => ~ Occurs(Tail(s), Head(s))
<1> DEFINE t == Tail(s)
<1>1. /\ Len(s) \in Nat /\ Len(s) >= 1 /\ Len(t) = Len(s) - 1 /\ Head(s) = s[1]
      /\ \A i \in 1..Len(t) : i + 1 \in 1..Len(s) /\ t[i] = s[i + 1]
  OBVIOUS
<1> HIDE DEF t
<1>2. \A y : Occurs(t, y) => Occurs(s, y)
  BY <1>1 DEF Occurs
<1>3. \A y : Once(s, y) => Once(t, y)
  BY <1>1 DEF Once
<1>4. 1 \in 1..Len(s)
  BY <1>1
<1>5. Once(s, Head(s)) => ~ Occurs(t, Head(s))
  BY <1>1, <1>4 DEF Once, Occurs
<1> QED
  BY <1>1, <1>2, <1>3, <1>4, <1>5 DEF Occurs, t

(* Losing the end of a sequence leaves at most what was there.             *)
LEMMA PrefixOccurs ==
    ASSUME NEW S, NEW s \in Seq(S), NEW n \in 0..Len(s)
    PROVE  /\ SubSeq(s, 1, n) \in Seq(S)
           /\ \A y : Occurs(SubSeq(s, 1, n), y) => Occurs(s, y)
           /\ \A y : Once(s, y) => Once(SubSeq(s, 1, n), y)
<1> DEFINE t == SubSeq(s, 1, n)
<1>1. /\ Len(s) \in Nat /\ t \in Seq(S) /\ Len(t) = n
      /\ \A i \in 1..n : i \in 1..Len(s) /\ t[i] = s[i]
  OBVIOUS
<1> HIDE DEF t
<1>2. \A y : Occurs(t, y) => Occurs(s, y)
  BY <1>1 DEF Occurs
<1>3. \A y : Once(s, y) => Once(t, y)
  BY <1>1 DEF Once
<1> QED
  BY <1>1, <1>2, <1>3 DEF t

(* Answers tell the requests apart.                                        *)
LEMMA AnswersDiffer ==
    /\ \A p, q \in Posts : Answer(p) = Answer(q) => p = q
    /\ \A p \in Posts : Answer(p) # None
    /\ \A p \in Posts, id \in ServerIds : ServerMsg(id) # Answer(p)
  BY BridgeAssumption DEF Answer, None, ServerMsg

(* A step that leaves pipes, child and channels alone.                     *)
LEMMA PlaceFrame ==
    ASSUME NEW p \in Posts, OnePlace(p), UNCHANGED <<stdin, working, stdout, buf>>,
           Early(p)' => Early(p), Reading(p)' => Reading(p)
    PROVE  OnePlace(p)'
  BY DEF OnePlace, Occurs, Once

(* No step of a handler brings a request back before the write.            *)
LEMMA EarlyMoves ==
    ASSUME TypeOK, [Next]_vars, NEW p \in Posts
    PROVE  Early(p)' => Early(p)
<1>1. CASE UNCHANGED <<pc, pending>>
  BY <1>1 DEF Early
<1>2. CASE FailPending
  BY <1>2 DEF FailPending, postVars, Early
<1>3. ASSUME NEW q \in Posts,
             \/ PostStart(q) \/ PostRegister(q) \/ SendLock(q) \/ SendWrite(q)
             \/ WaitAnswer(q) \/ WaitGone(q) \/ PostLeave(q)
      PROVE  Early(p)' => Early(p)
  BY <1>3, HandlerMoves DEF Early
<1> QED
  BY <1>1, <1>2, <1>3, MapMoves

(* Every step keeps an answer in one place.                                *)
LEMMA PlaceStep ==
    ASSUME DistinctRequestIds, OwnServerIds
    PROVE  MapInv /\ OneAnswer /\ [Next]_vars => OneAnswer'
<1> SUFFICES ASSUME MapInv, OneAnswer, [Next]_vars, NEW p \in Posts PROVE OnePlace(p)'
  BY DEF OneAnswer
<1>0. /\ TypeOK /\ OnePlace(p) /\ (Early(p)' => Early(p))
      /\ stdin \in Seq(Posts) /\ stdout \in Seq(Lines)
  BY EarlyMoves DEF MapInv, OneAnswer, TypeOK, ChildOK
<1>1. CASE UNCHANGED <<stdin, working, stdout, buf, reader, rmsg>>
  <2>1. Reading(p)' => Reading(p)
    BY <1>1 DEF Reading
  <2> QED
    BY <1>0, <1>1, <2>1, PlaceFrame
<1>2. CASE ReadTooLong \/ ReadEOF \/ ReadLookup \/ ReadNotify
  <2>1. UNCHANGED <<stdin, working, stdout, buf>>
    BY <1>2 DEF ReadTooLong, ReadEOF, ReadLookup, ReadNotify, chanVars, childVars
  <2>2. Reading(p)' => Reading(p)
    BY <1>2 DEF ReadTooLong, ReadEOF, ReadLookup, ReadNotify, Reading
  <2> QED
    BY <1>0, <2>1, <2>2, PlaceFrame
<1>3. ASSUME NEW q \in Posts, SendWrite(q), proc = "running" PROVE OnePlace(p)'
  <2>1. /\ UNCHANGED <<working, stdout, buf, reader, rmsg>>
        /\ stdin' = Append(stdin, q)
    BY <1>3 DEF SendWrite, chanVars, readVars
  <2>2. Early(q) /\ ~ Early(q)'
    BY <1>3 DEF SendWrite, Finish, MapInv, TypeOK, PostsOK, Early
  <2>3. /\ Occurs(stdin', p) => Occurs(stdin, p) \/ p = q
        /\ Once(stdin, p) /\ (p = q => ~ Occurs(stdin, p)) => Once(stdin', p)
    BY <1>0, <2>1, AppendOccurs
  <2>4. Reading(p)' = Reading(p)
    BY <2>1 DEF Reading
  <2> QED
    BY <1>0, <2>1, <2>2, <2>3, <2>4 DEF OnePlace
<1>4. ASSUME NEW q \in Posts, WaitAnswer(q) PROVE OnePlace(p)'
  <2>1. /\ UNCHANGED <<stdin, working, stdout, reader, rmsg>>
        /\ buf' = buf \/ buf' = [buf EXCEPT ![q] = None]
    BY <1>4 DEF WaitAnswer, childVars, readVars
  <2>2. buf'[p] # None => buf[p] # None
    BY <2>1 DEF MapInv, TypeOK, ChansOK
  <2>3. Reading(p)' = Reading(p)
    BY <2>1 DEF Reading
  <2> QED
    BY <1>0, <2>1, <2>2, <2>3 DEF OnePlace
<1>5. CASE ChildRead
  <2>1. /\ stdin # <<>> /\ stdin' = Tail(stdin)
        /\ working' \subseteq working \cup {Head(stdin)}
        /\ UNCHANGED <<pc, stdout, buf, reader, rmsg>>
    BY <1>5 DEF ChildRead, postVars, chanVars, readVars
  <2>2. /\ Occurs(stdin', p) => Occurs(stdin, p)
        /\ Once(stdin, p) => Once(stdin', p)
        /\ p = Head(stdin) => Occurs(stdin, p) /\ (Once(stdin, p) => ~ Occurs(stdin', p))
    BY <1>0, <2>1, TailOccurs
  <2>3. Reading(p)' = Reading(p)
    BY <2>1 DEF Reading
  <2> QED
    BY <1>0, <2>1, <2>2, <2>3 DEF OnePlace
<1>6. ASSUME NEW q \in Posts, ChildAnswer(q) PROVE OnePlace(p)'
  <2>1. /\ q \in working /\ working' = working \ {q} /\ stdout' = Append(stdout, Answer(q))
        /\ UNCHANGED <<pc, stdin, buf, reader, rmsg>>
    BY <1>6 DEF ChildAnswer, postVars, chanVars, readVars
  <2>2. /\ Occurs(stdout', Answer(p)) => Occurs(stdout, Answer(p)) \/ Answer(p) = Answer(q)
        /\ Once(stdout, Answer(p)) /\ (Answer(p) = Answer(q) => ~ Occurs(stdout, Answer(p)))
             => Once(stdout', Answer(p))
    BY <1>0, <2>1, LineFacts, AppendOccurs
  <2>3. Answer(p) = Answer(q) => p = q
    BY AnswersDiffer
  <2>4. Reading(p)' = Reading(p)
    BY <2>1 DEF Reading
  <2> QED
    BY <1>0, <2>1, <2>2, <2>3, <2>4 DEF OnePlace
<1>7. ASSUME NEW id \in ServerIds, ChildServerMsg(id) PROVE OnePlace(p)'
  <2>1. /\ stdout' = Append(stdout, ServerMsg(id))
        /\ UNCHANGED <<pc, stdin, working, buf, reader, rmsg>>
    BY <1>7 DEF ChildServerMsg, postVars, chanVars, readVars
  <2>2. Answer(p) # ServerMsg(id)
    BY AnswersDiffer
  <2>3. /\ Occurs(stdout', Answer(p)) => Occurs(stdout, Answer(p))
        /\ Once(stdout, Answer(p)) => Once(stdout', Answer(p))
    BY <1>0, <2>1, <2>2, LineFacts, AppendOccurs
  <2>4. Reading(p)' = Reading(p)
    BY <2>1 DEF Reading
  <2> QED
    BY <1>0, <2>1, <2>3, <2>4 DEF OnePlace
<1>8. CASE Reap
  <2>1. /\ stdin' = <<>>
        /\ UNCHANGED <<pc, working, buf, reader, rmsg>>
    BY <1>8 DEF Reap, postVars, chanVars, readVars
  <2>2. \A y : Once(<<>>, y) /\ ~ Occurs(<<>>, y)
    BY DEF Once, Occurs
  <2>3. /\ Occurs(stdout', Answer(p)) => Occurs(stdout, Answer(p))
        /\ Once(stdout, Answer(p)) => Once(stdout', Answer(p))
    <3>1. PICK n \in 0..Len(stdout) : stdout' = SubSeq(stdout, 1, n)
      BY <1>8 DEF Reap
    <3> QED
      BY <1>0, <3>1, PrefixOccurs
  <2>4. Reading(p)' = Reading(p)
    BY <2>1 DEF Reading
  <2> QED
    BY <1>0, <2>1, <2>2, <2>3, <2>4 DEF OnePlace
<1>9. CASE ReadLine
  <2>1. /\ stdout # <<>> /\ rmsg' = Head(stdout) /\ stdout' = Tail(stdout)
        /\ reader = "scan"
        /\ UNCHANGED <<pc, stdin, working, buf>>
    BY <1>9 DEF ReadLine, postVars, chanVars
  <2>2. /\ Occurs(stdout', Answer(p)) => Occurs(stdout, Answer(p))
        /\ Once(stdout, Answer(p)) => Once(stdout', Answer(p))
        /\ Answer(p) = Head(stdout) =>
             Occurs(stdout, Answer(p)) /\ (Once(stdout, Answer(p)) => ~ Occurs(stdout', Answer(p)))
    BY <1>0, <2>1, TailOccurs
  <2>3. Reading(p)' => Answer(p) = Head(stdout)
    BY <2>1 DEF Reading
  <2> QED
    BY <1>0, <2>1, <2>2, <2>3 DEF OnePlace
<1>10. CASE ReadDeliver
  <2>1. UNCHANGED <<pc, stdin, working, stdout>>
    BY <1>10 DEF ReadDeliver, postVars, childVars
  <2>2. rch \in Posts /\ Reading(rch)
    BY <1>10, DeliveredLine DEF ReadDeliver, MapInv, LookedUp, Reading
  <2>3. CASE UNCHANGED <<buf, readVars>>
    BY <1>0, <1>1, <2>1, <2>3 DEF readVars
  <2>4. CASE buf' = [buf EXCEPT ![rch] = rmsg] /\ reader' = "scan"
    <3>1. ~ Reading(p)'
      BY <2>4 DEF Reading
    <3>2. buf'[p] # None => buf[p] # None \/ p = rch
      BY <2>4 DEF MapInv, TypeOK, ChansOK
    <3> QED
      BY <1>0, <2>1, <2>2, <3>1, <3>2 DEF OnePlace
  <2> QED
    BY <1>10, <2>3, <2>4 DEF ReadDeliver
<1>11. ASSUME NEW q \in Posts, SendWrite(q), proc # "running" PROVE OnePlace(p)'
  BY <1>1, <1>11 DEF SendWrite, chanVars, readVars
<1> QED
  BY <1>1, <1>2, <1>3, <1>4, <1>5, <1>6, <1>7, <1>8, <1>9, <1>10, <1>11
  DEF Next, PostStep, WaitStep, ReadStep, ChildStep, ChildExit, FailPending, CloseDone,
      GetStart, GetTake, GetEnd, vars, PostStart, PostRegister, SendLock, WaitGone, PostLeave,
      chanVars, childVars, readVars

(* readLoop's send on the one-slot channel of a waiter never blocks, if    *)
(* the clients and the child use distinct ids: a channel gets one answer.  *)
THEOREM DeliveryNeverBlocks ==
    DistinctRequestIds /\ OwnServerIds => (Spec => []DeliveryHasRoom)
<1> SUFFICES ASSUME DistinctRequestIds, OwnServerIds PROVE Spec => []DeliveryHasRoom
  OBVIOUS
<1>1. Init => OneAnswer
  BY DEF Init, OneAnswer, OnePlace, Once, Occurs, Reading
<1>2. MapInv /\ OneAnswer => DeliveryHasRoom
  BY DeliveredLine DEF MapInv, LookedUp, OneAnswer, OnePlace, Reading, DeliveryHasRoom
<1> QED
  BY <1>1, <1>2, PlaceStep, MapInvariant, PTL DEF Spec

-----------------------------------------------------------------------------
(* Two messages are never interleaved on the child's stdin: the handler    *)
(* that writes is the one that holds s.mu.                                 *)
THEOREM WritesAreExclusive == Spec => []OneWriter
<1>1. Init => OneWriter
  BY BridgeAssumption DEF Init, OneWriter
<1>2. MapInv /\ OneWriter /\ [Next]_vars => OneWriter'
  <2> SUFFICES ASSUME MapInv, OneWriter, [Next]_vars PROVE OneWriter'
    OBVIOUS
  <2>1. pc \in [Posts -> {"idle", "register", "send", "writing", "wait", "leave", "done"}]
    BY DEF MapInv, TypeOK, PostsOK
  <2>2. ASSUME NEW p \in Posts, SendLock(p) \/ SendWrite(p) PROVE OneWriter'
    BY <2>1, <2>2, BridgeAssumption DEF SendLock, SendWrite, Finish, Failed, MuFree, OneWriter
  <2>3. ASSUME NEW p \in Posts,
               PostStart(p) \/ PostRegister(p) \/ WaitAnswer(p) \/ WaitGone(p) \/ PostLeave(p)
        PROVE  OneWriter'
    BY <2>1, <2>3 DEF PostStart, PostRegister, WaitAnswer, WaitGone, PostLeave, Finish, OneWriter
  <2>4. CASE UNCHANGED <<pc, mu>>
    BY <2>4 DEF OneWriter
  <2> QED
    BY <2>2, <2>3, <2>4
    DEF Next, PostStep, WaitStep, ReadStep, ChildStep, ChildRead, ChildAnswer, ChildServerMsg,
        ChildExit, Reap, FailPending, CloseDone, ReadLine, ReadTooLong, ReadEOF, ReadLookup,
        ReadDeliver, ReadNotify, GetStart, GetTake, GetEnd, vars, postVars
<1> QED
  BY <1>1, <1>2, MapInvariant, PTL DEF Spec

(* When readLoop can panic (see ReaderNeverPanics): only once the child    *)
(* has been reaped and the exit goroutine has closed the channels.         *)
THEOREM PanicsOnlyAfterSweep == Spec => []PanicNeedsSweep
<1>1. Init => PanicNeedsSweep
  BY DEF Init, PanicNeedsSweep
<1>2. PanicNeedsSweep /\ [Next]_vars => PanicNeedsSweep'
  <2> SUFFICES ASSUME PanicNeedsSweep, [Next]_vars PROVE PanicNeedsSweep'
    OBVIOUS
  <2>1. CASE ReadDeliver
    BY <2>1 DEF ReadDeliver, PanicNeedsSweep
  <2>2. CASE FailPending \/ CloseDone
    BY <2>2 DEF FailPending, CloseDone, PanicNeedsSweep
  <2>3. CASE ChildExit \/ Reap
    BY <2>3 DEF ChildExit, Reap, chanVars, PanicNeedsSweep
  <2>4. CASE UNCHANGED <<crashed, closed, proc>>
    BY <2>4 DEF PanicNeedsSweep
  <2> QED
    BY <2>1, <2>2, <2>3, <2>4
    DEF Next, PostStep, WaitStep, ReadStep, ChildStep, ChildRead, ChildAnswer, ChildServerMsg,
        PostStart, PostRegister, SendLock, SendWrite, WaitAnswer, WaitGone, PostLeave,
        ReadLine, ReadTooLong, ReadEOF, ReadLookup, ReadNotify, GetStart, GetTake, GetEnd,
        vars, chanVars
<1> QED
  BY <1>1, <1>2, PTL DEF Spec

(* The circular wait of send, readLoop and the child (see RequestsComplete)*)
(* stands until the child exits: no departure of a client, no other        *)
(* request and no GET breaks it.                                           *)
THEOREM DeadlockNeedsExit == Spec => [][CircularWait => CircularWait' \/ proc' # "running"]_vars
<1>1. CircularWait /\ [Next]_vars => CircularWait' \/ proc' # "running"
  <2> SUFFICES ASSUME CircularWait, [Next]_vars PROVE CircularWait' \/ proc' # "running"
    OBVIOUS
  <2>1. /\ ~ MuFree /\ reader = "lookup" /\ proc = "running"
        /\ ~ (Len(stdin) < PipeCap) /\ ~ (Len(stdout) < PipeCap)
        /\ ~ (Cardinality(working) < ChildConc)
    BY BridgeAssumption DEF CircularWait, MuFree
  <2>2. CASE ChildExit
    BY <2>2 DEF ChildExit
  <2>3. CASE UNCHANGED <<mu, stdin, reader, proc, stdout, working>>
    BY <2>3 DEF CircularWait
  <2> QED
    BY <2>1, <2>2, <2>3
    DEF Next, PostStep, WaitStep, ReadStep, ChildStep, ChildRead, ChildAnswer, ChildServerMsg,
        PostStart, PostRegister, SendLock, SendWrite, WaitAnswer, WaitGone, PostLeave, Reap,
        FailPending, CloseDone, ReadLine, ReadTooLong, ReadEOF, ReadLookup, ReadDeliver,
        ReadNotify, GetStart, GetTake, GetEnd, vars, childVars, readVars
<1> QED
  BY <1>1, PTL DEF Spec
=============================================================================
