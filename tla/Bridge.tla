------------------------------- MODULE Bridge -------------------------------
(***************************************************************************)
(* internal/bridge: one stdio MCP child process behind an HTTP handler.    *)
(* HTTP POSTs (Posts, one request each) write JSON-RPC messages to the     *)
(* child's stdin and wait for the answer with their id; readLoop takes     *)
(* lines off the child's stdout and hands each to the waiter registered    *)
(* under its id, or to the queue of the SSE stream; a third goroutine      *)
(* waits for the child to exit and fails whoever is still waiting.         *)
(*                                                                         *)
(* s.mu guards the pending map and the writes to stdin.  A write may block *)
(* on a full pipe with s.mu held (variable mu); the other critical         *)
(* sections never block and are single actions that need mu to be free.    *)
(* A send on a closed channel panics and ends the mcptunnel process.       *)
(***************************************************************************)
EXTENDS Naturals, Sequences, FiniteSets

CONSTANTS
    Posts,        \* POST handlers
    Gets,         \* GET (SSE) handlers
    Ids,          \* JSON-RPC ids
    NoId,         \* a message without id
    IdOf,         \* each POST's id; NoId for a notification or a response
    ServerIds,    \* ids of the child's own messages; NoId for a notification
    NoPost,
    PipeCap,      \* bound: messages a pipe holds
    ChildConc,    \* requests the child works on before it stops reading
    NotifQueue,   \* capacity of s.notifs
    MaxServerMsgs \* bound: messages the child sends on its own

ASSUME BridgeAssumption ==
    /\ NoId \notin Ids
    /\ NoPost \notin Posts
    /\ IdOf \in [Posts -> Ids \cup {NoId}]
    /\ ServerIds \subseteq Ids \cup {NoId}
    /\ PipeCap \in Nat \ {0}
    /\ ChildConc \in Nat \ {0}
    /\ NotifQueue \in Nat \ {0}
    /\ MaxServerMsgs \in Nat

VARIABLES
    pc,        \* where each POST handler is
    status,    \* what it answered
    got,       \* the message it answered 200 with
    pending,   \* s.pending: the POST whose channel is registered under an id
    buf,       \* each POST's channel: the buffered message, or none
    closed,    \* POSTs whose channel is closed
    mu,        \* the POST that holds s.mu across a blocking write
    stdin, working, stdout,   \* the child: its pipes and the requests in hand
    proc,      \* the child and the goroutine that waits for it
    reader, rmsg, rch,        \* readLoop: pc, message, looked-up channel
    notifs,    \* s.notifs
    gpc,       \* GET handlers
    smsgs,     \* messages the child sent on its own
    crashed    \* the process panicked

postVars == <<pc, status, got>>
chanVars == <<pending, buf, closed>>
childVars == <<stdin, working, stdout, smsgs>>
readVars == <<reader, rmsg, rch>>
sseVars == <<notifs, gpc>>
vars == <<postVars, chanVars, mu, childVars, proc, readVars, sseVars, crashed>>

(* Lines from the child: the answer to a POST, or a message of its own.    *)
None == [id |-> NoId, of |-> NoPost]
Answer(p) == [id |-> IdOf[p], of |-> p]
ServerMsg(id) == [id |-> id, of |-> NoPost]

MuFree == mu = NoPost
IsRequest(p) == IdOf[p] # NoId
Up == ~ crashed

Init ==
    /\ pc = [p \in Posts |-> "idle"]
    /\ status = [p \in Posts |-> "none"]
    /\ got = [p \in Posts |-> None]
    /\ pending = [k \in Ids |-> NoPost]
    /\ buf = [p \in Posts |-> None]
    /\ closed = {}
    /\ mu = NoPost
    /\ stdin = <<>> /\ working = {} /\ stdout = <<>> /\ smsgs = 0
    /\ proc = "running"
    /\ reader = "scan" /\ rmsg = None /\ rch = NoPost
    /\ notifs = <<>>
    /\ gpc = [g \in Gets |-> "idle"]
    /\ crashed = FALSE

-----------------------------------------------------------------------------
(* ServeHTTP and handlePost                                                *)

Finish(p, s, next) ==
    /\ status' = [status EXCEPT ![p] = s]
    /\ pc' = [pc EXCEPT ![p] = next]

(* 502 once done is closed, 400 for a body that is not one JSON object or  *)
(* is too large; otherwise a request registers and anything else is sent.  *)
PostStart(p) ==
    /\ Up /\ pc[p] = "idle"
    /\ \/ /\ proc = "done"
          /\ Finish(p, "502", "done")
       \/ /\ proc # "done"
          /\ Finish(p, "400", "done")
       \/ /\ proc # "done"
          /\ pc' = [pc EXCEPT ![p] = IF IsRequest(p) THEN "register" ELSE "send"]
          /\ UNCHANGED status
    /\ UNCHANGED <<got, chanVars, mu, childVars, proc, readVars, sseVars, crashed>>

(* s.pending[key] = ch: an entry already there is overwritten.             *)
PostRegister(p) ==
    /\ Up /\ pc[p] = "register" /\ MuFree
    /\ pending' = [pending EXCEPT ![IdOf[p]] = p]
    /\ pc' = [pc EXCEPT ![p] = "send"]
    /\ UNCHANGED <<status, got, buf, closed, mu, childVars, proc, readVars, sseVars, crashed>>

(* Where a failed send leads: a request still has its deferred delete.     *)
Failed(p) == IF IsRequest(p) THEN "leave" ELSE "done"

(* send takes s.mu and tests done ...                                      *)
SendLock(p) ==
    /\ Up /\ pc[p] = "send" /\ MuFree
    /\ IF proc = "done"
       THEN Finish(p, "502", Failed(p)) /\ UNCHANGED mu
       ELSE pc' = [pc EXCEPT ![p] = "writing"] /\ mu' = p /\ UNCHANGED status
    /\ UNCHANGED <<got, chanVars, childVars, proc, readVars, sseVars, crashed>>

(* ... then writes, blocking while the pipe is full and failing once the   *)
(* child is gone, and releases s.mu.                                       *)
SendWrite(p) ==
    /\ Up /\ pc[p] = "writing"
    /\ \/ /\ proc = "running" /\ Len(stdin) < PipeCap
          /\ stdin' = Append(stdin, p)
          /\ IF IsRequest(p)
             THEN pc' = [pc EXCEPT ![p] = "wait"] /\ UNCHANGED status
             ELSE Finish(p, "202", "done")
       \/ /\ proc # "running"
          /\ Finish(p, "502", Failed(p))
          /\ UNCHANGED stdin
    /\ mu' = NoPost
    /\ UNCHANGED <<got, chanVars, working, stdout, smsgs, proc, readVars, sseVars, crashed>>

(* Seeded bug: waits for the answer alone.                                 *)
WaitAnswerOnly(p) ==
    /\ Up /\ pc[p] = "wait" /\ buf[p] # None
    /\ Finish(p, "200", "leave")
    /\ got' = [got EXCEPT ![p] = buf[p]]
    /\ buf' = [buf EXCEPT ![p] = None]
    /\ UNCHANGED <<pending, closed, mu, childVars, proc, readVars, sseVars, crashed>>

(* The select at the end of handlePost: Go picks any ready case.           *)
WaitAnswer(p) ==
    /\ Up /\ pc[p] = "wait"
    /\ \/ /\ buf[p] # None
          /\ Finish(p, "200", "leave")
          /\ got' = [got EXCEPT ![p] = buf[p]]
          /\ buf' = [buf EXCEPT ![p] = None]
       \/ /\ buf[p] = None /\ p \in closed
          /\ Finish(p, "502", "leave")
          /\ UNCHANGED <<got, buf>>
       \/ /\ proc = "done"
          /\ Finish(p, "502", "leave")
          /\ UNCHANGED <<got, buf>>
    /\ UNCHANGED <<pending, closed, mu, childVars, proc, readVars, sseVars, crashed>>

(* The client goes away (r.Context().Done()).                              *)
WaitGone(p) ==
    /\ Up /\ pc[p] = "wait"
    /\ Finish(p, "gone", "leave")
    /\ UNCHANGED <<got, chanVars, mu, childVars, proc, readVars, sseVars, crashed>>

(* Seeded bugs: the map is emptied, or the entry is left behind.           *)
PostLeaveClearsAll(p) ==
    /\ Up /\ pc[p] = "leave" /\ MuFree
    /\ pending' = [k \in Ids |-> NoPost]
    /\ pc' = [pc EXCEPT ![p] = "done"]
    /\ UNCHANGED <<status, got, buf, closed, mu, childVars, proc, readVars, sseVars, crashed>>
PostLeaveKeepsEntry(p) ==
    /\ Up /\ pc[p] = "leave"
    /\ pc' = [pc EXCEPT ![p] = "done"]
    /\ UNCHANGED <<status, got, chanVars, mu, childVars, proc, readVars, sseVars, crashed>>

(* The deferred delete(s.pending, key): by id, whoever is registered.      *)
PostLeave(p) ==
    /\ Up /\ pc[p] = "leave" /\ MuFree
    /\ pending' = [pending EXCEPT ![IdOf[p]] = NoPost]
    /\ pc' = [pc EXCEPT ![p] = "done"]
    /\ UNCHANGED <<status, got, buf, closed, mu, childVars, proc, readVars, sseVars, crashed>>

-----------------------------------------------------------------------------
(* The child process: not part of the repository, assumed to answer every  *)
(* request it reads once, in any order, unless it exits.                   *)

ChildRead ==
    /\ Up /\ proc = "running" /\ stdin # <<>> /\ Cardinality(working) < ChildConc
    /\ stdin' = Tail(stdin)
    /\ working' = IF IsRequest(Head(stdin)) THEN working \cup {Head(stdin)} ELSE working
    /\ UNCHANGED <<postVars, chanVars, mu, stdout, smsgs, proc, readVars, sseVars, crashed>>

ChildAnswer(p) ==
    /\ Up /\ proc = "running" /\ p \in working /\ Len(stdout) < PipeCap
    /\ stdout' = Append(stdout, Answer(p))
    /\ working' = working \ {p}
    /\ UNCHANGED <<postVars, chanVars, mu, stdin, smsgs, proc, readVars, sseVars, crashed>>

ChildServerMsg(id) ==
    /\ Up /\ proc = "running" /\ smsgs < MaxServerMsgs /\ Len(stdout) < PipeCap
    /\ smsgs' = smsgs + 1
    /\ stdout' = Append(stdout, ServerMsg(id))
    /\ UNCHANGED <<postVars, chanVars, mu, stdin, working, proc, readVars, sseVars, crashed>>

(* It exits, is killed by Close, or crashes.                               *)
ChildExit ==
    /\ Up /\ proc = "running"
    /\ proc' = "exited"
    /\ UNCHANGED <<postVars, chanVars, mu, childVars, readVars, sseVars, crashed>>

-----------------------------------------------------------------------------
(* Start's last goroutine                                                  *)

(* cmd.Wait returns and closes the pipes: of the lines on stdout only those*)
(* already in the Scanner's buffer are still read, the rest are lost.      *)
Reap ==
    /\ Up /\ proc = "exited"
    /\ proc' = "reaped"
    /\ stdin' = <<>>
    /\ \E n \in 0..Len(stdout) : stdout' = SubSeq(stdout, 1, n)
    /\ UNCHANGED <<postVars, chanVars, mu, working, smsgs, readVars, sseVars, crashed>>

(* Under s.mu: close and forget every registered channel.                  *)
FailPending ==
    /\ Up /\ proc = "reaped" /\ MuFree
    /\ proc' = "swept"
    /\ closed' = closed \cup ({pending[k] : k \in Ids} \ {NoPost})
    /\ pending' = [k \in Ids |-> NoPost]
    /\ UNCHANGED <<postVars, buf, mu, childVars, readVars, sseVars, crashed>>

CloseDone ==
    /\ Up /\ proc = "swept"
    /\ proc' = "done"
    /\ UNCHANGED <<postVars, chanVars, mu, childVars, readVars, sseVars, crashed>>

-----------------------------------------------------------------------------
(* readLoop                                                                *)

ReadLine ==
    /\ Up /\ reader = "scan" /\ stdout # <<>>
    /\ rmsg' = Head(stdout)
    /\ stdout' = Tail(stdout)
    /\ reader' = IF Head(stdout).id = NoId THEN "notify" ELSE "lookup"
    /\ UNCHANGED <<postVars, chanVars, mu, stdin, working, smsgs, proc, rch, sseVars, crashed>>

(* A line over maxLine ends the scan for good, while the child runs on.    *)
ReadTooLong ==
    /\ Up /\ reader = "scan" /\ stdout # <<>> /\ proc = "running"
    /\ reader' = "stopped"
    /\ UNCHANGED <<postVars, chanVars, mu, childVars, proc, rmsg, rch, sseVars, crashed>>

ReadEOF ==
    /\ Up /\ reader = "scan" /\ stdout = <<>> /\ proc # "running"
    /\ reader' = "stopped"
    /\ UNCHANGED <<postVars, chanVars, mu, childVars, proc, rmsg, rch, sseVars, crashed>>

(* Seeded bugs: the answer goes to any waiter, or, when s.mu is busy, to   *)
(* the SSE queue.                                                          *)
ReadLookupAny ==
    /\ Up /\ reader = "lookup" /\ MuFree
    /\ \E k \in Ids :
         /\ rch' = pending[k]
         /\ reader' = IF pending[k] = NoPost THEN "notify" ELSE "deliver"
    /\ UNCHANGED <<postVars, chanVars, mu, childVars, proc, rmsg, sseVars, crashed>>
ReadLookupTry ==
    /\ Up /\ reader = "lookup"
    /\ LET found == IF MuFree THEN pending[rmsg.id] ELSE NoPost IN
       /\ rch' = found
       /\ reader' = IF found = NoPost THEN "notify" ELSE "deliver"
    /\ UNCHANGED <<postVars, chanVars, mu, childVars, proc, rmsg, sseVars, crashed>>

(* s.pending[key], under s.mu, which is released before the send.          *)
ReadLookup ==
    /\ Up /\ reader = "lookup" /\ MuFree
    /\ rch' = pending[rmsg.id]
    /\ reader' = IF pending[rmsg.id] = NoPost THEN "notify" ELSE "deliver"
    /\ UNCHANGED <<postVars, chanVars, mu, childVars, proc, rmsg, sseVars, crashed>>

(* ch <- msg: panics on a closed channel, blocks while the buffer is full. *)
ReadDeliver ==
    /\ Up /\ reader = "deliver"
    /\ \/ /\ rch \in closed
          /\ crashed' = TRUE
          /\ UNCHANGED <<buf, readVars>>
       \/ /\ rch \notin closed /\ buf[rch] = None
          /\ buf' = [buf EXCEPT ![rch] = rmsg]
          /\ reader' = "scan" /\ rmsg' = None /\ rch' = NoPost
          /\ UNCHANGED crashed
    /\ UNCHANGED <<postVars, pending, closed, mu, childVars, proc, sseVars>>

(* Queued for the SSE stream, or dropped when the queue is full.           *)
ReadNotify ==
    /\ Up /\ reader = "notify"
    /\ notifs' = IF Len(notifs) < NotifQueue THEN Append(notifs, rmsg) ELSE notifs
    /\ reader' = "scan" /\ rmsg' = None /\ rch' = NoPost
    /\ UNCHANGED <<postVars, chanVars, mu, childVars, proc, gpc, crashed>>

-----------------------------------------------------------------------------
(* handleGet                                                               *)

GetStart(g) ==
    /\ Up /\ gpc[g] = "idle" /\ proc # "done"
    /\ gpc' = [gpc EXCEPT ![g] = "stream"]
    /\ UNCHANGED <<postVars, chanVars, mu, childVars, proc, readVars, notifs, crashed>>

GetTake(g) ==
    /\ Up /\ gpc[g] = "stream" /\ notifs # <<>>
    /\ notifs' = Tail(notifs)
    /\ UNCHANGED <<postVars, chanVars, mu, childVars, proc, readVars, gpc, crashed>>

GetEnd(g) ==
    /\ Up /\ gpc[g] = "stream"
    /\ gpc' = [gpc EXCEPT ![g] = "idle"]
    /\ UNCHANGED <<postVars, chanVars, mu, childVars, proc, readVars, notifs, crashed>>

-----------------------------------------------------------------------------
PostStep(p) == PostRegister(p) \/ SendLock(p) \/ SendWrite(p) \/ WaitAnswer(p) \/ PostLeave(p)
WaitStep == Reap \/ FailPending \/ CloseDone
ReadStep == ReadLine \/ ReadEOF \/ ReadLookup \/ ReadDeliver \/ ReadNotify
ChildStep == ChildRead \/ \E p \in Posts : ChildAnswer(p)

Next ==
    \/ \E p \in Posts : PostStart(p) \/ PostStep(p) \/ WaitGone(p)
    \/ ChildStep
    \/ \E id \in ServerIds : ChildServerMsg(id)
    \/ ChildExit
    \/ WaitStep
    \/ ReadStep \/ ReadTooLong
    \/ \E g \in Gets : GetStart(g) \/ GetTake(g) \/ GetEnd(g)

Spec == Init /\ [][Next]_vars

(* Goroutines run and s.mu is handed to everyone who waits for it (Go's    *)
(* mutex is starvation-free), hence strong fairness.  A running child      *)
(* keeps reading and answering while it can.  Clients need not leave, the  *)
(* child need not exit or speak on its own.  Every handler, line and       *)
(* request takes finitely many of these steps, so one condition for all of *)
(* them says the same as one for each: in the end none of them can move.   *)
Progress == (\E p \in Posts : PostStep(p)) \/ WaitStep \/ ReadStep \/ ChildStep
FairSpec == Spec /\ SF_vars(Progress)

-----------------------------------------------------------------------------
(* `Request: forward and wait for the matching response by id': a POST     *)
(* answered 200 carries the child's answer to that very POST, never        *)
(* another client's answer or a request of the child's own.  It needs the  *)
(* ids in use to be distinct (see DistinctIds and SharedIds in MCBridge).  *)
ResponseMatchesRequest == \A p \in Posts : status[p] = "200" => got[p] = Answer(p)

(* No wakeup is lost: a waiting request stays registered, so that its      *)
(* answer finds it, until the exit goroutine has swept the map, after      *)
(* which done is closed.  No other handler's departure removes it (with    *)
(* distinct ids, again).                                                   *)
WaiterReachable ==
    \A p \in Posts : pc[p] = "wait" => pending[IdOf[p]] = p \/ proc \in {"swept", "done"}

(* The pending map never grows past the requests in progress: once its     *)
(* handler has returned, no channel is registered.                         *)
NoStaleRegistration == \A k \in Ids : pending[k] # NoPost => pc[pending[k]] \notin {"idle", "done"}

(* A channel found in the map is never closed before the send: readLoop    *)
(* does not panic.                                                         *)
ReaderNeverPanics == ~ crashed

(* `Fail every pending request so callers get a 502 instead of hanging':   *)
(* after the child exits there comes a point where no handler is left,     *)
(* those stuck behind a write to a full pipe nobody read any more and      *)
(* those that still started meanwhile included.                            *)
ExitEndsHandlers ==
    (proc = "exited") ~> ((\A p \in Posts : pc[p] \in {"idle", "done"}) \/ crashed)

(* The deadlock of send, readLoop and the child: a writer holds s.mu and   *)
(* waits for room on stdin, readLoop has a line with an id and waits for   *)
(* s.mu, and the child, with as many requests in hand as it takes, waits   *)
(* for room on stdout.  Only the child's exit ends it: a write to the pipe *)
(* heeds neither the client's departure nor a timeout.                     *)
CircularWait ==
    /\ mu # NoPost /\ Len(stdin) = PipeCap
    /\ reader = "lookup"
    /\ proc = "running" /\ Len(stdout) = PipeCap /\ Cardinality(working) = ChildConc

(* While the child answers what it can, every request is answered or       *)
(* failed, however the handlers, the read loop and full pipes contend for  *)
(* s.mu, with two exceptions, both while the child runs: a line over       *)
(* maxLine has stopped the read loop, or the three wait for each other.    *)
RequestsComplete ==
    \A p \in {p \in Posts : IsRequest(p)} : (pc[p] = "register") ~>
        \/ pc[p] = "done" \/ crashed
        \/ reader = "stopped" /\ proc = "running"
        \/ CircularWait
=============================================================================
