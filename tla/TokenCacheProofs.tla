-------------------------- MODULE TokenCacheProofs --------------------------
(***************************************************************************)
(* Proofs about the token cache for any number of processes, requests,     *)
(* tokens and faults, and for both kinds of authorization server.          *)
(***************************************************************************)
EXTENDS TokenCache, TLAPS

(* Where a request holds its process's Source.mu, and where it holds a     *)
(* token response.                                                         *)
Locked == {"refresh", "granted", "save", "cmd"}
Answered == {"granted", "save"}

(* Source.mu is held by exactly the request that works under it.           *)
Locks == \A r \in Reqs : rpc[r] \in Locked <=> mu[ProcOf[r]] = r

(* Requests run in processes that have a Transport, and hold a token       *)
(* response only between the grant and the end of Save.                    *)
Running ==
    \A r \in Reqs :
        /\ rpc[r] \notin {"idle", "done"} => mem[ProcOf[r]] # NoEntry
        /\ rpc[r] \notin Answered => answer[r] = NoAnswer

(* The access tokens in use are issued ones, and what a refresh was        *)
(* granted is younger than what was refused before.                        *)
AccessOrder ==
    /\ file # NoEntry => file.access <= issued
    /\ \A p \in Procs : mem[p] # NoEntry => mem[p].access <= issued
    /\ \A r \in Reqs :
         /\ rtok[r] <= issued /\ refused[r] <= issued /\ answer[r].access <= issued
         /\ rpc[r] \in {"idle", "token"} => refused[r] = 0
         /\ rpc[r] \in Answered => answer[r].access > refused[r]

(* The refresh tokens in use are issued ones, and so are their successors. *)
RefreshIssued ==
    /\ \A t \in accepted : t > 0 /\ t <= issued
    /\ file # NoEntry => file.refresh <= issued
    /\ \A p \in Procs : mem[p] # NoEntry => mem[p].refresh <= issued
    /\ \A r \in Reqs : answer[r].refresh <= issued
    /\ \A t \in Gens : succ[t] <= issued
    /\ redeemer[0] = NoProc

(* A refresh token nobody has saved yet is known to the process of the     *)
(* request that got it and to no other, so nobody else can have spent it.  *)
Secret(r) ==
    LET g == answer[r].refresh
        p == ProcOf[r] IN
    /\ g \in accepted
    /\ file # NoEntry => file.refresh # g
    /\ \A q \in Procs \ {p} : mem[q] # NoEntry => mem[q].refresh # g
    /\ \A s \in Reqs \ {r} : answer[s].refresh # g
    /\ \A t \in Gens : succ[t] = g => redeemer[t] = p
    /\ rpc[r] = "save" => mem[p].refresh = g
Secrets == \A r \in Reqs : answer[r].refresh # 0 => Secret(r)

(* A server that rotates always answers with a new refresh token; with one *)
(* that does not, a refresh token is good for ever.                        *)
Rotation ==
    /\ rotates => \A r \in Reqs : rpc[r] \in Answered => answer[r].refresh # 0
    /\ ~ rotates =>
         /\ file # NoEntry => file.refresh \in accepted \cup {0}
         /\ \A p \in Procs : mem[p] # NoEntry => mem[p].refresh \in accepted \cup {0}

(* RestartCanRefresh, with a successor that is a token.                    *)
FileRefreshable ==
    (file # NoEntry /\ file.refresh \notin accepted \cup {0}) =>
        LET g == succ[file.refresh] IN
        g # 0 /\ (g \in unsaved \/ \E r \in Reqs : answer[r].refresh = g)

(* A spent refresh token in a process's memory was spent by another one,   *)
(* or its successor was lost, or is about to be applied.                   *)
OwnTokens ==
    \A p \in Procs :
        (mem[p] # NoEntry /\ mem[p].refresh \notin accepted \cup {0}) =>
            LET t == mem[p].refresh IN
            \/ redeemer[t] # p
            \/ succ[t] \in unsaved
            \/ \E r \in Reqs : ProcOf[r] = p /\ rpc[r] = "granted" /\ answer[r].refresh = succ[t]

(* The inductive invariant.                                                *)
Inv ==
    /\ TypeOK /\ Locks /\ Running /\ AccessOrder /\ RefreshIssued /\ Secrets /\ Rotation
    /\ FileRefreshable /\ OwnTokens

-----------------------------------------------------------------------------
(* Tokens are numbers, an entry has tokens for fields and NoEntry is none. *)
LEMMA Basics ==
    /\ Gens \subseteq Nat /\ 0 \in Gens
    /\ NoAnswer \in Answers /\ NoAnswer.access = 0 /\ NoAnswer.refresh = 0
    /\ \A e \in Entries : e.access \in Gens /\ e.refresh \in Gens /\ e # NoEntry
    /\ \A a \in Answers : a.access \in Gens /\ a.refresh \in Gens
  BY TokenCacheAssumption, NoEntryAssumption DEF Gens, NoAnswer, Answers, Entries

(* The tokens in the variables' fields.                                    *)
LEMMA FieldTypes ==
    ASSUME TypeOK
    PROVE  /\ issued \in Nat
           /\ file # NoEntry => file.access \in Gens /\ file.refresh \in Gens
           /\ \A p \in Procs : mem[p] # NoEntry => mem[p].access \in Gens /\ mem[p].refresh \in Gens
           /\ \A r \in Reqs : /\ answer[r].access \in Gens /\ answer[r].refresh \in Gens
                              /\ rtok[r] \in Gens /\ refused[r] \in Gens
  BY Basics DEF TypeOK

(* Two requests of a process do not both hold its mutex.                   *)
LEMMA OneHolder ==
    ASSUME TypeOK, Locks, NEW r \in Reqs, NEW s \in Reqs, ProcOf[r] = ProcOf[s],
           rpc[r] \in Locked, rpc[s] \in Locked
    PROVE  r = s
  BY DEF Locks

(* A step of one request outside the mutex, that changes nothing but where *)
(* the request is and the tokens in its header.                            *)
LEMMA MoveUnlocked ==
    ASSUME Inv, NEW r \in Reqs, rpc[r] \notin Locked,
           UNCHANGED <<file, mem, mu, answer, serverVars, unsaved, faults>>,
           NEW x \in {"token", "force", "send", "resend", "done"}, NEW a \in Gens, NEW b \in Gens,
           rpc' = [rpc EXCEPT ![r] = x],
           rtok' = [rtok EXCEPT ![r] = a],
           refused' = [refused EXCEPT ![r] = b],
           a <= issued, b <= issued,
           x = "token" => b = 0,
           x # "done" => mem[ProcOf[r]] # NoEntry
    PROVE  Inv'
<1> USE DEF Inv, serverVars
<1>1. TypeOK'
  BY DEF TypeOK
<1>2. Locks'
  BY DEF TypeOK, Locks, Locked
<1>3. Running'
  BY DEF TypeOK, Locks, Running, Locked, Answered
<1>4. AccessOrder'
  BY DEF TypeOK, AccessOrder, Answered
<1>5. RefreshIssued'
  BY DEF RefreshIssued
<1>6. Secrets'
  BY DEF Secrets, Secret, TypeOK
<1>7. Rotation'
  BY DEF Rotation, Answered, TypeOK
<1>8. FileRefreshable' 
  BY DEF FileRefreshable
<1>9. OwnTokens'
  BY DEF OwnTokens, TypeOK, Locked
<1> QED
  BY <1>1, <1>2, <1>3, <1>4, <1>5, <1>6, <1>7, <1>8, <1>9

(* A request that fails under the mutex, in refreshGrant, Save or runCmd:  *)
(* what it was granted is lost to the file.                                *)
LEMMA FailUnderLock ==
    ASSUME Inv, NEW r \in Reqs, rpc[r] \in Locked, FailLocked(r),
           UNCHANGED <<file, mem, serverVars>>,
           unsaved' = unsaved \cup ({answer[r].refresh} \ {0}),
           faults' \in 0..MaxFaults
    PROVE  Inv'
<1> USE Basics, TokenCacheAssumption DEF Inv, serverVars, FailLocked, End
<1>1. TypeOK'
  BY DEF TypeOK
<1>2. Locks'
  BY DEF TypeOK, Locks, Locked
<1>3. Running'
  BY DEF TypeOK, Running, Answered
<1>4. AccessOrder'
  BY DEF TypeOK, AccessOrder, Answered
<1>5. RefreshIssued'
  BY DEF RefreshIssued, TypeOK
<1>6. Secrets'
  BY DEF Secrets, Secret, TypeOK
<1>7. Rotation'
  BY DEF Rotation, Answered, TypeOK
<1>8. FileRefreshable'
  BY DEF FileRefreshable, TypeOK
<1>9. OwnTokens'
  <2> SUFFICES ASSUME NEW p \in Procs, mem[p] # NoEntry, mem[p].refresh \notin accepted \cup {0},
                      redeemer[mem[p].refresh] = p, succ[mem[p].refresh] \notin unsaved'
               PROVE  \E s \in Reqs : /\ ProcOf[s] = p /\ rpc'[s] = "granted"
                                      /\ answer'[s].refresh = succ[mem[p].refresh]
    BY DEF OwnTokens
  <2>1. PICK s \in Reqs : /\ ProcOf[s] = p /\ rpc[s] = "granted"
                          /\ answer[s].refresh = succ[mem[p].refresh]
    BY DEF OwnTokens
  <2>2. answer[s].refresh # 0
    BY <2>1 DEF Rotation, Answered
  <2>3. s # r
    BY <2>1, <2>2
  <2> QED
    BY <2>1, <2>3 DEF TypeOK
<1> QED
  BY <1>1, <1>2, <1>3, <1>4, <1>5, <1>6, <1>7, <1>8, <1>9

-----------------------------------------------------------------------------
(* The token command and the start of a process.                           *)
LEMMA AddStep == Inv /\ TokenAdd => Inv'
<1> SUFFICES ASSUME Inv, TokenAdd PROVE Inv'
  OBVIOUS
<1> USE Basics, TokenCacheAssumption DEF Inv, procVars, reqVars
<1>1. PICK e \in NewEntries(issued + 1) :
        file' = e /\ accepted' = (accepted \cup {e.refresh}) \ {0}
  BY DEF TokenAdd
<1>2. /\ issued \in Nat /\ issued' = issued + 1 /\ issued' \in Gens
      /\ e \in Entries /\ e # NoEntry
      /\ e.access \in {0, issued + 1} /\ e.refresh \in {0, issued + 1}
  <2>1. issued \in Nat /\ issued' = issued + 1 /\ issued' \in Gens
    BY DEF TokenAdd, TypeOK, Gens
  <2>2. /\ e.access \in {0, issued'} /\ e.refresh \in {0, issued'}
        /\ e = [access |-> e.access, refresh |-> e.refresh, expires |-> e.expires, cmd |-> e.cmd]
        /\ e.expires \in BOOLEAN /\ e.cmd \in BOOLEAN
    <3>1. CASE \E f \in {0, issued + 1}, x \in BOOLEAN :
                 e = [access |-> issued + 1, refresh |-> f, expires |-> x, cmd |-> FALSE]
      BY <2>1, <3>1
    <3>2. CASE e = [access |-> 0, refresh |-> 0, expires |-> FALSE, cmd |-> TRUE]
      BY <3>2
    <3> QED
      BY <3>1, <3>2 DEF NewEntries
  <2>3. e \in Entries
    BY <2>1, <2>2 DEF Entries
  <2> QED
    BY <2>1, <2>2, <2>3
<1>3. UNCHANGED <<rotates, succ, redeemer, procVars, reqVars, unsaved, faults>>
  BY DEF TokenAdd
<1>4. /\ accepted \subseteq accepted'
      /\ \A t \in Gens : t <= issued /\ t \notin accepted => t \notin accepted'
  BY <1>1, <1>2 DEF RefreshIssued
<1> \A x \in Gens : x <= issued => x <= issued'
  BY <1>2
<1>5. TypeOK'
  BY <1>1, <1>2, <1>3 DEF TypeOK
<1>6. Locks' /\ Running'
  BY <1>3 DEF Locks, Running
<1>7. AccessOrder'
  <2>1. file' # NoEntry /\ file'.access <= issued'
    BY <1>1, <1>2
  <2>2. \A p \in Procs : mem'[p] # NoEntry => mem'[p].access <= issued'
    BY <1>3, FieldTypes DEF AccessOrder
  <2>3. \A r \in Reqs : rtok'[r] <= issued' /\ refused'[r] <= issued' /\ answer'[r].access <= issued'
    BY <1>3, FieldTypes DEF AccessOrder
  <2> QED
    BY <1>3, <2>1, <2>2, <2>3 DEF AccessOrder
<1>8. RefreshIssued'
  <2>1. \A t \in accepted' : t > 0 /\ t <= issued'
    BY <1>1, <1>2 DEF RefreshIssued, TypeOK
  <2>2. file'.refresh <= issued'
    BY <1>1, <1>2
  <2>3. \A p \in Procs : mem'[p] # NoEntry => mem'[p].refresh <= issued'
    BY <1>3, FieldTypes DEF RefreshIssued
  <2>4. \A r \in Reqs : answer'[r].refresh <= issued'
    BY <1>3, FieldTypes DEF RefreshIssued
  <2>5. \A t \in Gens : succ'[t] <= issued'
    BY <1>3 DEF RefreshIssued, TypeOK
  <2> QED
    BY <1>3, <2>1, <2>2, <2>3, <2>4, <2>5 DEF RefreshIssued
<1>9. Secrets'
  BY <1>1, <1>2, <1>3, <1>4 DEF Secrets, Secret, RefreshIssued, TypeOK
<1>10. Rotation'
  BY <1>1, <1>2, <1>3, <1>4 DEF Rotation
<1>11. FileRefreshable'
  BY <1>1, <1>2 DEF FileRefreshable
<1>12. OwnTokens'
  BY <1>3, <1>4 DEF OwnTokens
<1> QED
  BY <1>5, <1>6, <1>7, <1>8, <1>9, <1>10, <1>11, <1>12

(* token remove deletes the file and nothing else.                         *)
LEMMA RemoveStep == Inv /\ TokenRemove => Inv'
<1> SUFFICES ASSUME Inv, TokenRemove PROVE Inv'
  OBVIOUS
<1> USE DEF Inv, TokenRemove, procVars, reqVars, serverVars
<1>1. TypeOK' /\ Locks' /\ Running'
  BY DEF TypeOK, Locks, Running
<1>2. AccessOrder' /\ RefreshIssued'
  BY DEF AccessOrder, RefreshIssued
<1>3. Secrets' /\ Rotation'
  BY DEF Secrets, Secret, Rotation
<1>4. FileRefreshable' /\ OwnTokens'
  BY DEF FileRefreshable, OwnTokens
<1> QED
  BY <1>1, <1>2, <1>3, <1>4

(* Lookup at the start of a process takes what the file holds.             *)
LEMMA StartStep == ASSUME NEW p \in Procs PROVE Inv /\ ProcStart(p) => Inv'
<1> SUFFICES ASSUME Inv, ProcStart(p) PROVE Inv'
  OBVIOUS
<1> USE Basics, TokenCacheAssumption DEF Inv, reqVars, serverVars
<1>1. /\ mem[p] = NoEntry /\ file # NoEntry
      /\ mem' = [mem EXCEPT ![p] = file]
      /\ UNCHANGED <<file, mu, reqVars, serverVars, unsaved, faults>>
  BY DEF ProcStart
<1>2. mem'[p] = file /\ \A q \in Procs \ {p} : mem'[q] = mem[q]
  BY <1>1 DEF TypeOK
<1>3. TypeOK'
  BY <1>1 DEF TypeOK
<1>4. Locks' /\ Running'
  BY <1>1, <1>2 DEF Locks, Running
<1>5. AccessOrder' /\ RefreshIssued'
  BY <1>1, <1>2 DEF AccessOrder, RefreshIssued
<1>6. Secrets'
  BY <1>1, <1>2 DEF Secrets, Secret, Running
<1>7. Rotation' /\ FileRefreshable'
  BY <1>1, <1>2 DEF Rotation, FileRefreshable
<1>8. OwnTokens'
  <2> SUFFICES ASSUME file.refresh \notin accepted \cup {0},
                      redeemer[file.refresh] = p, succ[file.refresh] \notin unsaved
               PROVE  FALSE
    BY <1>1, <1>2 DEF OwnTokens
  <2>1. PICK r \in Reqs : answer[r].refresh = succ[file.refresh] /\ answer[r].refresh # 0
    BY <1>1 DEF FileRefreshable
  <2>2. ProcOf[r] = p
    BY <1>1, <2>1 DEF Secrets, Secret, TypeOK
  <2> QED
    BY <1>1, <2>1, <2>2 DEF Running, Answered
<1> QED
  BY <1>3, <1>4, <1>5, <1>6, <1>7, <1>8

(* Where a request goes when it does not touch the mutex.                  *)
LEMMA BeginStep == ASSUME NEW r \in Reqs PROVE Inv /\ Begin(r) => Inv'
<1> SUFFICES ASSUME Inv, Begin(r) PROVE Inv'
  OBVIOUS
<1>1. /\ rtok' = [rtok EXCEPT ![r] = rtok[r]] /\ refused' = [refused EXCEPT ![r] = refused[r]]
      /\ rtok[r] \in Gens /\ refused[r] \in Gens
      /\ UNCHANGED <<file, mem, mu, answer, serverVars, unsaved, faults>>
  BY DEF Begin, Inv, TypeOK, procVars
<1>2. /\ rpc[r] \notin Locked /\ rpc' = [rpc EXCEPT ![r] = "token"]
      /\ rtok[r] <= issued /\ refused[r] <= issued /\ refused[r] = 0 /\ mem[ProcOf[r]] # NoEntry
  BY DEF Begin, Inv, AccessOrder, Locked
<1> QED
  BY <1>1, <1>2, MoveUnlocked

(* RoundTrip: the upstream's answer, a 401 that is retried included.       *)
LEMMA UpstreamStep == ASSUME NEW r \in Reqs PROVE Inv /\ Upstream(r) => Inv'
<1> SUFFICES ASSUME Inv, Upstream(r) PROVE Inv'
  OBVIOUS
<1>1. /\ rpc[r] \notin Locked /\ mem[ProcOf[r]] # NoEntry
      /\ UNCHANGED <<file, mem, mu, answer, serverVars, unsaved, faults>>
      /\ rtok[r] \in Gens /\ rtok[r] <= issued /\ 0 \in Gens /\ 0 <= issued
  <2>1. rtok[r] \in Gens /\ rtok[r] <= issued /\ 0 \in Gens /\ 0 <= issued
    BY Basics, FieldTypes DEF Inv, AccessOrder
  <2> QED
    BY <2>1 DEF Upstream, Inv, Running, procVars, Locked
<1>2. CASE End(r)
  BY <1>1, <1>2, MoveUnlocked DEF End
<1>3. CASE /\ rpc' = [rpc EXCEPT ![r] = "force"]
           /\ refused' = [refused EXCEPT ![r] = rtok[r]]
           /\ UNCHANGED rtok
  <2>1. rtok' = [rtok EXCEPT ![r] = rtok[r]]
    BY <1>3 DEF Inv, TypeOK
  <2> QED
    BY <1>1, <1>3, <2>1, MoveUnlocked
<1> QED
  BY <1>2, <1>3 DEF Upstream

(* Token and Refresh: the cached token, a failure, or the mutex is taken.  *)
LEMMA LockedTokenStep ==
    ASSUME NEW r \in Reqs, NEW choices, Inv, LockedToken(r, choices),
           rpc[r] \in {"token", "force"}, TRUE \in choices => rpc[r] = "token"
    PROVE  Inv'
<1> DEFINE p == ProcOf[r]
<1>1. /\ p \in Procs /\ mem[p] # NoEntry /\ mem[p].access \in Gens /\ mem[p].access <= issued
      /\ rpc[r] \notin Locked /\ mu[p] = NoReq
      /\ 0 \in Gens /\ 0 <= issued /\ refused[r] \in Gens /\ refused[r] <= issued
  <2>1. p \in Procs /\ mem[p] # NoEntry
    BY TokenCacheAssumption DEF Inv, Running
  <2>2. mem[p].access \in Gens /\ mem[p].access <= issued
    BY <2>1, FieldTypes DEF Inv, AccessOrder
  <2>3. 0 \in Gens /\ 0 <= issued /\ refused[r] \in Gens /\ refused[r] <= issued
    BY Basics, FieldTypes DEF Inv, AccessOrder
  <2> QED
    BY <2>1, <2>2, <2>3 DEF LockedToken, Locked
<1>2. UNCHANGED <<file, mem, answer, serverVars, unsaved, faults>>
  BY DEF LockedToken
<1>3. CASE TRUE \in choices /\ SendWith(r, mem[p].access) /\ UNCHANGED mu
  <2>1. refused[r] = 0 /\ refused' = [refused EXCEPT ![r] = 0]
    BY <1>3 DEF Inv, AccessOrder, TypeOK, SendWith
  <2>2. rpc' = [rpc EXCEPT ![r] = "send"] /\ rtok' = [rtok EXCEPT ![r] = mem[p].access]
    BY <1>3, <2>1 DEF SendWith
  <2> QED
    BY <1>1, <1>2, <1>3, <2>1, <2>2, MoveUnlocked
<1>4. CASE End(r) /\ UNCHANGED mu
  BY <1>1, <1>2, <1>4, MoveUnlocked DEF End
<1>5. CASE /\ mem[p].refresh # 0 \/ mem[p].cmd
           /\ mu' = [mu EXCEPT ![p] = r]
           /\ rpc' = [rpc EXCEPT ![r] = IF mem[p].refresh # 0 THEN "refresh" ELSE "cmd"]
           /\ UNCHANGED <<rtok, refused>>
  <2> USE <1>1, <1>2, <1>5, TokenCacheAssumption DEF Inv, serverVars
  <2>1. rpc'[r] \in {"refresh", "cmd"} /\ \A s \in Reqs \ {r} : rpc'[s] = rpc[s]
    BY DEF TypeOK
  <2>2. TypeOK'
    BY DEF TypeOK
  <2>3. Locks'
    BY <2>1 DEF TypeOK, Locks, Locked
  <2>4. Running'
    BY <2>1 DEF Running, Answered
  <2>5. AccessOrder' /\ RefreshIssued'
    BY <2>1 DEF AccessOrder, Answered, RefreshIssued
  <2>6. Secrets'
    BY <2>1 DEF Secrets, Secret
  <2>7. Rotation' /\ FileRefreshable'
    BY <2>1 DEF Rotation, Answered, FileRefreshable
  <2>8. OwnTokens'
    BY <2>1 DEF OwnTokens
  <2> QED
    BY <2>2, <2>3, <2>4, <2>5, <2>6, <2>7, <2>8
<1> QED
  BY <1>3, <1>4, <1>5 DEF LockedToken

(* refreshGrant: the request gets a token that is known to nobody else.    *)
LEMMA GrantStep == ASSUME NEW r \in Reqs PROVE Inv /\ Grant(r) => Inv'
<1> SUFFICES ASSUME Inv, Grant(r) PROVE Inv'
  OBVIOUS
<1> DEFINE p == ProcOf[r]
           g == issued + 1
           old == mem[p].refresh
<1>1. /\ rpc[r] = "refresh" /\ issued < MaxTokens
      /\ old \in accepted
      /\ issued' = g
      /\ accepted' = IF rotates THEN (accepted \ {old}) \cup {g} ELSE accepted
      /\ succ' = IF rotates THEN [succ EXCEPT ![old] = g] ELSE succ
      /\ redeemer' = IF rotates THEN [redeemer EXCEPT ![old] = p] ELSE redeemer
      /\ answer' = [answer EXCEPT ![r] = [access |-> g, refresh |-> IF rotates THEN g ELSE 0]]
      /\ rpc' = [rpc EXCEPT ![r] = "granted"]
      /\ UNCHANGED <<file, mem, mu, rtok, refused, unsaved, faults, rotates>>
  BY DEF Grant, Redeem, procVars
<1>2. /\ g \in Gens /\ issued \in Nat /\ p \in Procs /\ mem[p] # NoEntry
      /\ old \in Gens /\ old # 0 /\ old <= issued
  <2>1. g \in Gens /\ issued \in Nat
    BY <1>1, TokenCacheAssumption DEF Inv, TypeOK, Gens
  <2>2. p \in Procs /\ mem[p] # NoEntry
    BY <1>1, TokenCacheAssumption DEF Inv, Running
  <2>3. old \in Gens /\ old # 0 /\ old <= issued
    BY <1>1 DEF Inv, TypeOK, RefreshIssued
  <2> QED
    BY <2>1, <2>2, <2>3
<1>3. /\ rpc'[r] = "granted" /\ \A s \in Reqs \ {r} : rpc'[s] = rpc[s]
      /\ answer'[r] = [access |-> g, refresh |-> IF rotates THEN g ELSE 0]
      /\ \A s \in Reqs \ {r} : answer'[s] = answer[s]
  BY <1>1 DEF Inv, TypeOK
<1>4. \A x \in Gens : x <= issued => x <= issued' /\ x # g
  BY <1>1, <1>2, Basics
<1>5. answer[r] = NoAnswer /\ answer[r].refresh = 0
  BY <1>1, Basics DEF Inv, Running, Answered
<1>6. TypeOK'
  <2>1. answer'[r] \in Answers
    BY <1>2, <1>3, Basics DEF Answers
  <2>2. answer' \in [Reqs -> Answers]
    BY <1>1, <1>3, <2>1 DEF Inv, TypeOK
  <2>3. succ' \in [Gens -> Gens] /\ redeemer' \in [Gens -> Procs \cup {NoProc}]
    BY <1>1, <1>2 DEF Inv, TypeOK
  <2>4. accepted' \subseteq Gens
    BY <1>1, <1>2 DEF Inv, TypeOK
  <2> QED
    BY <1>1, <1>2, <2>2, <2>3, <2>4 DEF Inv, TypeOK
<1>7. Locks'
  BY <1>1, <1>3 DEF Inv, Locks, Locked
<1>8. Running'
  BY <1>1, <1>2, <1>3 DEF Inv, Running, Answered
<1>9. AccessOrder'
  <2>1. file' # NoEntry => file'.access <= issued'
    BY <1>1, <1>4, FieldTypes DEF Inv, AccessOrder
  <2>2. \A q \in Procs : mem'[q] # NoEntry => mem'[q].access <= issued'
    BY <1>1, <1>4, FieldTypes DEF Inv, AccessOrder
  <2>3. \A s \in Reqs : rtok'[s] <= issued' /\ refused'[s] <= issued' /\ answer'[s].access <= issued'
    BY <1>1, <1>2, <1>3, <1>4, FieldTypes DEF Inv, AccessOrder
  <2>4. answer'[r].access > refused'[r]
    <3>1. answer'[r].access = g
      BY <1>3
    <3>2. refused'[r] \in Nat /\ refused'[r] <= issued
      BY <1>1, FieldTypes, Basics DEF Inv, AccessOrder
    <3> QED
      BY <1>2, <3>1, <3>2
  <2> QED
    BY <1>1, <1>3, <2>1, <2>2, <2>3, <2>4 DEF Inv, AccessOrder, Answered
<1>10. RefreshIssued'
  <2>1. \A t \in accepted' : t > 0 /\ t <= issued'
    BY <1>1, <1>2, <1>4 DEF Inv, RefreshIssued, TypeOK
  <2>2. file' # NoEntry => file'.refresh <= issued'
    BY <1>1, <1>4, FieldTypes DEF Inv, RefreshIssued
  <2>3. \A q \in Procs : mem'[q] # NoEntry => mem'[q].refresh <= issued'
    BY <1>1, <1>4, FieldTypes DEF Inv, RefreshIssued
  <2>4. \A s \in Reqs : answer'[s].refresh <= issued'
    BY <1>1, <1>2, <1>3, <1>4, FieldTypes DEF Inv, RefreshIssued
  <2>5. \A t \in Gens : succ'[t] <= issued'
    <3> SUFFICES ASSUME NEW t \in Gens PROVE succ'[t] <= issued'
      OBVIOUS
    <3>1. succ'[t] = g \/ succ'[t] = succ[t]
      BY <1>1 DEF Inv, TypeOK
    <3>2. succ[t] \in Gens /\ succ[t] <= issued
      BY DEF Inv, RefreshIssued, TypeOK
    <3> QED
      BY <1>1, <1>2, <1>4, <3>1, <3>2
  <2>6. redeemer'[0] = NoProc
    BY <1>1, <1>2, Basics DEF Inv, RefreshIssued, TypeOK
  <2> QED
    BY <2>1, <2>2, <2>3, <2>4, <2>5, <2>6 DEF RefreshIssued
<1>11. Secrets'
  <2> SUFFICES ASSUME NEW s \in Reqs, answer'[s].refresh # 0 PROVE Secret(s)'
    BY DEF Secrets
  <2>1. CASE s = r
    <3>1. rotates /\ answer'[s].refresh = g /\ g \in accepted' /\ ProcOf[s] = p
      BY <1>1, <1>3, <2>1
    <3>2. file' # NoEntry => file'.refresh # g
      BY <1>1, <1>4, FieldTypes DEF Inv, RefreshIssued
    <3>3. \A q \in Procs : mem'[q] # NoEntry => mem'[q].refresh # g
      BY <1>1, <1>4, FieldTypes DEF Inv, RefreshIssued
    <3>4. \A x \in Reqs \ {s} : answer'[x].refresh # g
      BY <1>3, <1>4, <2>1, FieldTypes DEF Inv, RefreshIssued
    <3>5. \A t \in Gens : succ'[t] = g => redeemer'[t] = p
      BY <1>1, <1>2, <1>4, <3>1 DEF Inv, RefreshIssued, TypeOK
    <3> QED
      BY <1>3, <2>1, <3>1, <3>2, <3>3, <3>4, <3>5 DEF Secret
  <2>2. CASE s # r
    <3>1. /\ Secret(s) /\ answer'[s] = answer[s] /\ answer[s].refresh # 0
          /\ answer[s].refresh \in Gens /\ answer[s].refresh <= issued
      BY <1>3, <2>2, FieldTypes DEF Inv, Secrets, RefreshIssued
    <3>2. ProcOf[s] # p
      <4>1. rpc[s] \in Locked /\ rpc[r] \in Locked
        BY <1>1, <3>1, Basics DEF Inv, Running, Answered, Locked
      <4> QED
        BY <2>2, <4>1, OneHolder DEF Inv
    <3>3. old # answer[s].refresh
      BY <1>2, <3>1, <3>2 DEF Secret
    <3>4. answer[s].refresh \in accepted'
      BY <1>1, <3>1, <3>3 DEF Secret
    <3>5. \A t \in Gens : succ'[t] = answer[s].refresh => redeemer'[t] = ProcOf[s]
      BY <1>1, <1>2, <1>4, <3>1 DEF Inv, TypeOK, Secret
    <3>6. \A x \in Reqs \ {s} : answer'[x].refresh # answer[s].refresh
      BY <1>3, <1>4, <3>1 DEF Secret
    <3> QED
      BY <1>1, <1>3, <2>2, <3>1, <3>4, <3>5, <3>6 DEF Secret
  <2> QED
    BY <2>1, <2>2
<1>12. Rotation'
  BY <1>1, <1>2, <1>3 DEF Inv, Rotation, Answered
<1>13. FileRefreshable'
  <2> SUFFICES ASSUME file # NoEntry, file.refresh \notin accepted' \cup {0}
               PROVE  /\ succ'[file.refresh] # 0
                      /\ \/ succ'[file.refresh] \in unsaved
                         \/ \E s \in Reqs : answer'[s].refresh = succ'[file.refresh]
    BY <1>1 DEF FileRefreshable
  <2>1. CASE file.refresh = old
    BY <1>1, <1>2, <1>3, <2>1 DEF Inv, TypeOK
  <2>2. CASE file.refresh # old
    <3>1. file.refresh \notin accepted \cup {0} /\ succ'[file.refresh] = succ[file.refresh]
      BY <1>1, <1>2, <2>2, FieldTypes DEF Inv, TypeOK
    <3> QED
      BY <1>3, <1>5, <3>1 DEF Inv, FileRefreshable
  <2> QED
    BY <2>1, <2>2
<1>14. OwnTokens'
  <2> SUFFICES ASSUME NEW q \in Procs, mem[q] # NoEntry, mem[q].refresh \notin accepted' \cup {0},
                      redeemer'[mem[q].refresh] = q, succ'[mem[q].refresh] \notin unsaved
               PROVE  \E s \in Reqs : /\ ProcOf[s] = q /\ rpc'[s] = "granted"
                                      /\ answer'[s].refresh = succ'[mem[q].refresh]
    BY <1>1 DEF OwnTokens
  <2>1. CASE mem[q].refresh = old
    BY <1>1, <1>2, <1>3, <2>1 DEF Inv, TypeOK
  <2>2. CASE mem[q].refresh # old
    <3>1. /\ mem[q].refresh \notin accepted \cup {0}
          /\ succ'[mem[q].refresh] = succ[mem[q].refresh]
          /\ redeemer'[mem[q].refresh] = redeemer[mem[q].refresh]
      BY <1>1, <1>2, <2>2, FieldTypes DEF Inv, TypeOK
    <3>2. PICK s \in Reqs : /\ ProcOf[s] = q /\ rpc[s] = "granted"
                            /\ answer[s].refresh = succ[mem[q].refresh]
      BY <3>1 DEF Inv, OwnTokens
    <3> QED
      BY <1>1, <1>3, <3>1, <3>2
  <2> QED
    BY <2>1, <2>2
<1> QED
  BY <1>6, <1>7, <1>8, <1>9, <1>10, <1>11, <1>12, <1>13, <1>14 DEF Inv

(* The answer is copied into the process's entry.                          *)
LEMMA ApplyStep == ASSUME NEW r \in Reqs PROVE Inv /\ Apply(r) => Inv'
<1> SUFFICES ASSUME Inv, Apply(r) PROVE Inv'
  OBVIOUS
<1> DEFINE p == ProcOf[r]
           g == answer[r].refresh
<1>1. /\ rpc[r] = "granted" /\ rpc' = [rpc EXCEPT ![r] = "save"]
      /\ UNCHANGED <<file, mu, rtok, refused, answer, serverVars, unsaved, faults>>
  BY DEF Apply
<1>2. PICK stated \in BOOLEAN :
        mem' = [mem EXCEPT ![p].access = answer[r].access,
                           ![p].expires = @ \/ stated,
                           ![p].refresh = IF g # 0 THEN g ELSE @]
  BY DEF Apply
<1>3. /\ p \in Procs /\ mem[p] # NoEntry /\ mem[p] \in Entries
      /\ answer[r].access \in Gens /\ g \in Gens
  <2>1. p \in Procs /\ mem[p] # NoEntry
    BY <1>1, TokenCacheAssumption DEF Inv, Running
  <2> QED
    BY <2>1, FieldTypes DEF Inv, TypeOK
<1>4. /\ mem' \in [Procs -> Entries \cup {NoEntry}]
      /\ \A q \in Procs \ {p} : mem'[q] = mem[q]
      /\ mem'[p] \in Entries
      /\ mem'[p].access = answer[r].access
      /\ mem'[p].refresh = IF g # 0 THEN g ELSE mem[p].refresh
  <2>1. mem'[p] = [access |-> answer[r].access, expires |-> mem[p].expires \/ stated,
                   refresh |-> IF g # 0 THEN g ELSE mem[p].refresh, cmd |-> mem[p].cmd]
    BY <1>2, <1>3 DEF Inv, TypeOK, Entries
  <2>2. mem'[p] \in Entries
    BY <1>3, <2>1 DEF Entries
  <2>3. \A q \in Procs \ {p} : mem'[q] = mem[q]
    BY <1>2 DEF Inv, TypeOK
  <2>4. mem' \in [Procs -> Entries \cup {NoEntry}]
    <3>1. mem' = [q \in Procs |-> mem'[q]]
      BY <1>2 DEF Inv, TypeOK
    <3>2. \A q \in Procs : mem'[q] \in Entries \cup {NoEntry}
      BY <2>2, <2>3 DEF Inv, TypeOK
    <3> QED
      BY <3>1, <3>2
  <2> QED
    BY <2>1, <2>2, <2>3, <2>4
<1>5. /\ rpc'[r] = "save" /\ \A s \in Reqs \ {r} : rpc'[s] = rpc[s]
      /\ mem'[p] # NoEntry
  BY <1>1, <1>4, Basics DEF Inv, TypeOK
<1>6. TypeOK'
  BY <1>1, <1>4 DEF Inv, TypeOK, serverVars
<1>7. Locks' /\ Running'
  <2>1. Locks'
    BY <1>1, <1>5 DEF Inv, Locks, Locked
  <2>2. \A s \in Reqs : ProcOf[s] \in Procs
    BY TokenCacheAssumption
  <2> QED
    BY <1>1, <1>4, <1>5, <2>1, <2>2 DEF Inv, Running, Answered
<1>8. AccessOrder'
  BY <1>1, <1>4, <1>5 DEF Inv, AccessOrder, Answered, serverVars
<1>9. RefreshIssued'
  BY <1>1, <1>4, <1>5, <1>3 DEF Inv, RefreshIssued, serverVars
<1>10. Secrets'
  <2> SUFFICES ASSUME NEW s \in Reqs, answer[s].refresh # 0 PROVE Secret(s)'
    BY <1>1 DEF Secrets
  <2>1. Secret(s)
    BY DEF Inv, Secrets
  <2>2. \A q \in Procs \ {ProcOf[s]} : mem'[q] # NoEntry => mem'[q].refresh # answer[s].refresh
    BY <1>3, <1>4, <2>1 DEF Secret
  <2>3. rpc'[s] = "save" => mem'[ProcOf[s]].refresh = answer[s].refresh
    <3>1. CASE s = r
      BY <1>4, <3>1
    <3>2. CASE s # r
      <4>1. rpc[s] \in Locked /\ rpc[r] \in Locked
        BY <1>1, Basics DEF Inv, Running, Answered, Locked
      <4>2. ProcOf[s] # p
        BY <3>2, <4>1, OneHolder DEF Inv
      <4> QED
        BY <1>4, <1>5, <2>1, <3>2, <4>2, TokenCacheAssumption DEF Secret
    <3> QED
      BY <3>1, <3>2
  <2> QED
    BY <1>1, <2>1, <2>2, <2>3 DEF Secret, serverVars
<1>11. Rotation'
  <2>1. rotates' => \A s \in Reqs : rpc'[s] \in Answered => answer'[s].refresh # 0
    BY <1>1, <1>5 DEF Inv, Rotation, Answered, serverVars
  <2>2. ASSUME ~ rotates
        PROVE  \A q \in Procs : mem'[q] # NoEntry => mem'[q].refresh \in accepted \cup {0}
    <3>1. mem'[p].refresh \in accepted \cup {0}
      BY <1>3, <1>4, <2>2 DEF Inv, Rotation, Secrets, Secret
    <3> QED
      BY <1>4, <2>2, <3>1 DEF Inv, Rotation
  <2> QED
    BY <1>1, <2>1, <2>2 DEF Inv, Rotation, serverVars
<1>12. FileRefreshable'
  BY <1>1 DEF Inv, FileRefreshable, serverVars
<1>13. OwnTokens'
  <2> SUFFICES ASSUME NEW q \in Procs, mem'[q] # NoEntry, mem'[q].refresh \notin accepted \cup {0},
                      redeemer[mem'[q].refresh] = q, succ[mem'[q].refresh] \notin unsaved
               PROVE  \E s \in Reqs : /\ ProcOf[s] = q /\ rpc'[s] = "granted"
                                      /\ answer[s].refresh = succ[mem'[q].refresh]
    BY <1>1 DEF OwnTokens, serverVars
  <2>1. q # p
    <3>1. rotates => g \in accepted
      BY <1>1 DEF Inv, Rotation, Answered, Secrets, Secret
    <3>2. ~ rotates => mem[p].refresh \in accepted \cup {0} /\ g \in accepted \cup {0}
      BY <1>3 DEF Inv, Rotation, Secrets, Secret
    <3>3. mem'[p].refresh \in accepted \cup {0}
      BY <1>1, <1>4, <3>1, <3>2 DEF Inv, Rotation, Answered
    <3> QED
      BY <3>3
  <2>2. PICK s \in Reqs : /\ ProcOf[s] = q /\ rpc[s] = "granted"
                          /\ answer[s].refresh = succ[mem'[q].refresh]
    BY <1>4, <2>1 DEF Inv, OwnTokens
  <2> QED
    BY <1>5, <2>1, <2>2
<1> QED
  BY <1>6, <1>7, <1>8, <1>9, <1>10, <1>11, <1>12, <1>13 DEF Inv

(* The new entry is in the file and the request goes out.                  *)
LEMMA SaveStep == ASSUME NEW r \in Reqs PROVE Inv /\ Save(r) => Inv'
<1> SUFFICES ASSUME Inv, Save(r) PROVE Inv'
  OBVIOUS
<1> DEFINE p == ProcOf[r]
<1>1. /\ rpc[r] = "save" /\ file' = mem[p] /\ mu' = [mu EXCEPT ![p] = NoReq]
      /\ rtok' = [rtok EXCEPT ![r] = answer[r].access]
      /\ rpc' = [rpc EXCEPT ![r] = IF refused[r] = 0 THEN "send" ELSE "resend"]
      /\ answer' = [answer EXCEPT ![r] = NoAnswer]
      /\ UNCHANGED <<refused, mem, serverVars, unsaved, faults>>
  BY DEF Save, SendWith
<1>2. /\ p \in Procs /\ mem[p] # NoEntry /\ mem[p] \in Entries
      /\ answer[r].access \in Gens /\ answer[r].access <= issued
      /\ answer[r].access > refused[r]
  <2>1. p \in Procs /\ mem[p] # NoEntry
    BY <1>1, TokenCacheAssumption DEF Inv, Running
  <2>2. mem[p] \in Entries /\ answer[r].access \in Gens
    BY <2>1, FieldTypes DEF Inv, TypeOK
  <2> QED
    BY <1>1, <2>1, <2>2 DEF Inv, AccessOrder, Answered
<1>3. /\ rpc'[r] \in {"send", "resend"} /\ \A s \in Reqs \ {r} : rpc'[s] = rpc[s]
      /\ answer'[r] = NoAnswer /\ \A s \in Reqs \ {r} : answer'[s] = answer[s]
      /\ rtok'[r] = answer[r].access /\ \A s \in Reqs \ {r} : rtok'[s] = rtok[s]
  BY <1>1 DEF Inv, TypeOK
<1>4. mem[p].refresh \in accepted \cup {0}
  <2>1. CASE rotates
    BY <1>1, <2>1 DEF Inv, Rotation, Answered, Secrets, Secret
  <2>2. CASE ~ rotates
    BY <1>2, <2>2 DEF Inv, Rotation
  <2> QED
    BY <2>1, <2>2
<1>5. TypeOK'
  BY <1>1, <1>2, Basics DEF Inv, TypeOK, serverVars
<1>6. Locks'
  BY <1>1, <1>2, <1>3, TokenCacheAssumption DEF Inv, TypeOK, Locks, Locked
<1>7. Running'
  BY <1>1, <1>2, <1>3 DEF Inv, Running, Answered
<1>8. AccessOrder'
  BY <1>1, <1>2, <1>3, Basics, FieldTypes DEF Inv, AccessOrder, Answered, serverVars
<1>9. RefreshIssued'
  BY <1>1, <1>2, <1>3, Basics, FieldTypes DEF Inv, RefreshIssued, serverVars
<1>10. Secrets'
  <2> SUFFICES ASSUME NEW s \in Reqs, answer'[s].refresh # 0 PROVE Secret(s)'
    BY DEF Secrets
  <2>1. s # r /\ answer'[s] = answer[s] /\ rpc'[s] = rpc[s] /\ Secret(s)
    BY <1>3, Basics DEF Inv, Secrets
  <2>2. rpc[s] \in Locked /\ rpc[r] \in Locked
    BY <1>1, <2>1, Basics DEF Inv, Running, Answered, Locked
  <2>3. ProcOf[s] # p
    BY <2>1, <2>2, OneHolder DEF Inv
  <2>4. file'.refresh # answer[s].refresh
    BY <1>1, <1>2, <2>1, <2>3 DEF Secret
  <2>5. \A x \in Reqs \ {s} : answer'[x].refresh # answer[s].refresh
    BY <1>3, <2>1, Basics DEF Secret
  <2> QED
    BY <1>1, <2>1, <2>4, <2>5 DEF Secret, serverVars
<1>11. Rotation'
  BY <1>1, <1>3, <1>4 DEF Inv, Rotation, Answered, serverVars
<1>12. FileRefreshable'
  BY <1>1, <1>4 DEF FileRefreshable, serverVars
<1>13. OwnTokens'
  <2> SUFFICES ASSUME NEW q \in Procs, mem[q] # NoEntry, mem[q].refresh \notin accepted \cup {0},
                      redeemer[mem[q].refresh] = q, succ[mem[q].refresh] \notin unsaved
               PROVE  \E s \in Reqs : /\ ProcOf[s] = q /\ rpc'[s] = "granted"
                                      /\ answer'[s].refresh = succ[mem[q].refresh]
    BY <1>1 DEF OwnTokens, serverVars
  <2>1. PICK s \in Reqs : /\ ProcOf[s] = q /\ rpc[s] = "granted"
                          /\ answer[s].refresh = succ[mem[q].refresh]
    BY DEF Inv, OwnTokens
  <2> QED
    BY <1>1, <1>3, <2>1
<1> QED
  BY <1>5, <1>6, <1>7, <1>8, <1>9, <1>10, <1>11, <1>12, <1>13 DEF Inv

(* runCmd: the token the command printed, a new one or not, or a failure.  *)
LEMMA RunCmdStep == ASSUME NEW r \in Reqs PROVE Inv /\ RunCmd(r) => Inv'
<1> SUFFICES ASSUME Inv, RunCmd(r) PROVE Inv'
  OBVIOUS
<1> DEFINE p == ProcOf[r]
<1>1. rpc[r] = "cmd" /\ rpc[r] \in Locked /\ UNCHANGED <<file, unsaved, faults>>
  BY DEF RunCmd, Locked
<1>2. CASE FailLocked(r) /\ UNCHANGED <<mem, serverVars>>
  <2>1. answer[r].refresh = 0
    BY <1>1, Basics DEF Inv, Running, Answered
  <2>2. unsaved' = unsaved \cup ({answer[r].refresh} \ {0}) /\ faults' \in 0..MaxFaults
    BY <1>1, <2>1 DEF Inv, TypeOK
  <2> QED
    BY <1>1, <1>2, <2>2, FailUnderLock
<1>3. ASSUME NEW g \in Gens \ {0}, g <= issued + 1,
             issued' = IF g > issued THEN g ELSE issued,
             mem' = [mem EXCEPT ![p].access = g],
             SendWith(r, g),
             mu' = [mu EXCEPT ![p] = NoReq],
             UNCHANGED <<answer, rotates, accepted, succ, redeemer>>
      PROVE  Inv'
  <2>1. issued \in Nat /\ issued <= issued' /\ g <= issued' /\ issued' \in Gens
    BY <1>3, TokenCacheAssumption DEF Inv, TypeOK, Gens
  <2>2. p \in Procs /\ mem[p] # NoEntry /\ mem[p] \in Entries
    <3>1. p \in Procs /\ mem[p] # NoEntry
      BY <1>1, TokenCacheAssumption DEF Inv, Running
    <3> QED
      BY <3>1 DEF Inv, TypeOK
  <2>3. /\ mem' \in [Procs -> Entries \cup {NoEntry}]
        /\ \A q \in Procs \ {p} : mem'[q] = mem[q]
        /\ mem'[p] # NoEntry /\ mem'[p].access = g /\ mem'[p].refresh = mem[p].refresh
    <3>1. mem'[p] = [mem[p] EXCEPT !.access = g]
      BY <1>3, <2>2 DEF Inv, TypeOK
    <3>2. mem'[p] \in Entries /\ mem'[p].access = g /\ mem'[p].refresh = mem[p].refresh
      BY <2>1, <2>2, <3>1 DEF Entries
    <3>3. mem' = [mem EXCEPT ![p] = mem'[p]]
      BY <1>3, <2>2, <3>1 DEF Inv, TypeOK
    <3> QED
      BY <2>2, <3>2, <3>3, Basics DEF Inv, TypeOK
  <2>4. /\ \A q \in Procs : /\ (mem'[q] # NoEntry) = (mem[q] # NoEntry)
                            /\ mem'[q].refresh = mem[q].refresh
        /\ \A s \in Reqs : ProcOf[s] \in Procs
    BY <2>2, <2>3, TokenCacheAssumption
  <2>5. /\ rpc'[r] = (IF refused[r] = 0 THEN "send" ELSE "resend")
        /\ \A s \in Reqs \ {r} : rpc'[s] = rpc[s]
        /\ rtok'[r] = g /\ \A s \in Reqs \ {r} : rtok'[s] = rtok[s]
        /\ refused' = refused
    BY <1>3 DEF SendWith, Inv, TypeOK
  <2>6. \A x \in Gens : x <= issued => x <= issued'
    BY <2>1, Basics
  <2>7. TypeOK'
    BY <1>1, <1>3, <2>1, <2>3 DEF Inv, TypeOK, SendWith
  <2>8. Locks'
    BY <1>1, <1>3, <2>2, <2>5, TokenCacheAssumption DEF Inv, TypeOK, Locks, Locked
  <2>9. Running'
    BY <1>1, <1>3, <2>4, <2>5 DEF Inv, Running, Answered
  <2>10. AccessOrder'
    <3>1. file' # NoEntry => file'.access <= issued'
      BY <1>1, <2>6, FieldTypes DEF Inv, AccessOrder
    <3>2. \A q \in Procs : mem'[q] # NoEntry => mem'[q].access <= issued'
      BY <2>1, <2>3, <2>6, FieldTypes DEF Inv, AccessOrder
    <3>3. \A s \in Reqs : rtok'[s] <= issued' /\ refused'[s] <= issued' /\ answer'[s].access <= issued'
      BY <1>3, <2>1, <2>5, <2>6, FieldTypes DEF Inv, AccessOrder
    <3> QED
      BY <1>1, <1>3, <2>5, <3>1, <3>2, <3>3 DEF Inv, AccessOrder, Answered
  <2>11. RefreshIssued'
    <3>1. \A t \in accepted' : t > 0 /\ t <= issued'
      BY <1>3, <2>6 DEF Inv, RefreshIssued, TypeOK
    <3>2. file' # NoEntry => file'.refresh <= issued'
      BY <1>1, <2>6, FieldTypes DEF Inv, RefreshIssued
    <3>3. \A q \in Procs : mem'[q] # NoEntry => mem'[q].refresh <= issued'
      BY <2>4, <2>6, FieldTypes DEF Inv, RefreshIssued
    <3>4. \A s \in Reqs : answer'[s].refresh <= issued'
      BY <1>3, <2>6, FieldTypes DEF Inv, RefreshIssued
    <3>5. \A t \in Gens : succ'[t] <= issued'
      BY <1>3, <2>6 DEF Inv, RefreshIssued, TypeOK
    <3> QED
      BY <1>3, <3>1, <3>2, <3>3, <3>4, <3>5 DEF Inv, RefreshIssued
  <2>12. Secrets'
    BY <1>1, <1>3, <2>4, <2>5 DEF Inv, Secrets, Secret
  <2>13. Rotation'
    BY <1>1, <1>3, <2>4, <2>5 DEF Inv, Rotation, Answered
  <2>14. FileRefreshable'
    BY <1>1, <1>3 DEF Inv, FileRefreshable
  <2>15. OwnTokens'
    BY <1>1, <1>3, <2>4, <2>5 DEF Inv, OwnTokens
  <2> QED
    BY <2>7, <2>8, <2>9, <2>10, <2>11, <2>12, <2>13, <2>14, <2>15 DEF Inv
<1> QED
  BY <1>2, <1>3 DEF RunCmd

(* The failures of refreshGrant and Save.                                  *)
LEMMA FailSteps ==
    ASSUME NEW r \in Reqs
    PROVE  Inv /\ (Refuse(r) \/ RefreshLost(r) \/ SaveFails(r)) => Inv'
<1>1. ASSUME Inv, Refuse(r) PROVE Inv'
  <2>1. answer[r].refresh = 0
    BY <1>1, Basics DEF Refuse, Inv, Running, Answered
  <2>2. unsaved' = unsaved \cup ({answer[r].refresh} \ {0}) /\ faults' \in 0..MaxFaults
    BY <1>1, <2>1 DEF Refuse, Inv, TypeOK
  <2> QED
    BY <1>1, <2>2, FailUnderLock DEF Refuse, Locked
<1>2. ASSUME Inv, RefreshLost(r) \/ SaveFails(r) PROVE Inv'
  <2>1. faults' \in 0..MaxFaults
    BY <1>2, TokenCacheAssumption DEF RefreshLost, SaveFails, Fault, Inv, TypeOK
  <2> QED
    BY <1>2, <2>1, FailUnderLock DEF RefreshLost, SaveFails, Locked
<1> QED
  BY <1>1, <1>2

(* The process ends: its requests are gone, and what they held is lost.    *)
LEMMA EndsStep == ASSUME NEW p \in Procs PROVE Inv /\ ProcEnds(p) => Inv'
<1> SUFFICES ASSUME Inv, ProcEnds(p) PROVE Inv'
  OBVIOUS
<1> DEFINE mine == {r \in Reqs : ProcOf[r] = p /\ rpc[r] # "idle"}
<1>1. /\ mem' = [mem EXCEPT ![p] = NoEntry]
      /\ mu' = [mu EXCEPT ![p] = NoReq]
      /\ rpc' = [r \in Reqs |-> IF r \in mine THEN "done" ELSE rpc[r]]
      /\ rtok' = [r \in Reqs |-> IF r \in mine THEN 0 ELSE rtok[r]]
      /\ refused' = [r \in Reqs |-> IF r \in mine THEN 0 ELSE refused[r]]
      /\ answer' = [r \in Reqs |-> IF r \in mine THEN NoAnswer ELSE answer[r]]
      /\ unsaved' = unsaved \cup ({answer[r].refresh : r \in mine} \ {0})
      /\ UNCHANGED <<file, serverVars>>
  BY DEF ProcEnds
<1>2. faults' \in 0..MaxFaults
  BY TokenCacheAssumption DEF ProcEnds, Fault, Inv, TypeOK
<1>3. /\ mem'[p] = NoEntry /\ \A q \in Procs \ {p} : mem'[q] = mem[q]
      /\ mu'[p] = NoReq /\ \A q \in Procs \ {p} : mu'[q] = mu[q]
  BY <1>1 DEF Inv, TypeOK
<1>4. \A r \in Reqs : /\ r \in mine => rpc'[r] = "done" /\ answer'[r] = NoAnswer
                                       /\ rtok'[r] = 0 /\ refused'[r] = 0
                      /\ r \notin mine => rpc'[r] = rpc[r] /\ answer'[r] = answer[r]
                                          /\ rtok'[r] = rtok[r] /\ refused'[r] = refused[r]
                      /\ r \notin mine => ProcOf[r] # p \/ rpc[r] = "idle"
                      /\ r \in mine => ProcOf[r] = p
                      /\ ProcOf[r] \in Procs
                      /\ answer'[r].refresh # 0 => ProcOf[r] # p /\ r \notin mine
  <2>1. \A r \in Reqs : rpc[r] = "idle" => answer[r].refresh = 0
    BY Basics DEF Inv, Running, Answered
  <2> QED
    BY <1>1, <2>1, Basics, TokenCacheAssumption
<1> HIDE DEF mine
<1>5. TypeOK'
  <2>1. unsaved' \subseteq Gens
    BY <1>1, FieldTypes DEF Inv, TypeOK, mine
  <2>2. mem' \in [Procs -> Entries \cup {NoEntry}] /\ mu' \in [Procs -> Reqs \cup {NoReq}]
    BY <1>1 DEF Inv, TypeOK
  <2> QED
    BY <1>1, <1>2, <2>1, <2>2, Basics DEF Inv, TypeOK, serverVars
<1>6. Locks'
  BY <1>3, <1>4, TokenCacheAssumption DEF Inv, TypeOK, Locks, Locked
<1>7. Running'
  BY <1>3, <1>4 DEF Inv, Running, Answered
<1>8. AccessOrder'
  BY <1>1, <1>3, <1>4, Basics, FieldTypes DEF Inv, AccessOrder, Answered, serverVars
<1>9. RefreshIssued'
  BY <1>1, <1>3, <1>4, Basics, FieldTypes DEF Inv, RefreshIssued, serverVars
<1>10. Secrets'
  <2> SUFFICES ASSUME NEW s \in Reqs, answer'[s].refresh # 0 PROVE Secret(s)'
    BY DEF Secrets
  <2>1. /\ ProcOf[s] # p /\ answer'[s] = answer[s] /\ rpc'[s] = rpc[s] /\ Secret(s)
    BY <1>4 DEF Inv, Secrets
  <2>2. \A x \in Reqs \ {s} : answer'[x].refresh # answer[s].refresh
    BY <1>4, <2>1, Basics DEF Secret
  <2>3. \A q \in Procs \ {ProcOf[s]} : mem'[q] # NoEntry => mem'[q].refresh # answer[s].refresh
    BY <1>3, <2>1 DEF Secret
  <2>4. mem'[ProcOf[s]] = mem[ProcOf[s]]
    BY <1>3, <1>4, <2>1
  <2> QED
    BY <1>1, <2>1, <2>2, <2>3, <2>4 DEF Secret, serverVars
<1>11. Rotation'
  BY <1>1, <1>3, <1>4 DEF Inv, Rotation, Answered, serverVars
<1>12. FileRefreshable'
  <2> SUFFICES ASSUME file # NoEntry, file.refresh \notin accepted \cup {0}
               PROVE  /\ succ[file.refresh] # 0
                      /\ \/ succ[file.refresh] \in unsaved'
                         \/ \E s \in Reqs : answer'[s].refresh = succ[file.refresh]
    BY <1>1 DEF FileRefreshable, serverVars
  <2>1. succ[file.refresh] # 0
    BY DEF Inv, FileRefreshable
  <2>2. CASE succ[file.refresh] \in unsaved
    BY <1>1, <2>1, <2>2
  <2>3. ASSUME NEW s \in Reqs, answer[s].refresh = succ[file.refresh]
        PROVE  \/ succ[file.refresh] \in unsaved'
               \/ \E x \in Reqs : answer'[x].refresh = succ[file.refresh]
    BY <1>1, <1>4, <2>1, <2>3
  <2> QED
    BY <2>1, <2>2, <2>3 DEF Inv, FileRefreshable
<1>13. OwnTokens'
  <2> SUFFICES ASSUME NEW q \in Procs, mem'[q] # NoEntry, mem'[q].refresh \notin accepted \cup {0},
                      redeemer[mem'[q].refresh] = q, succ[mem'[q].refresh] \notin unsaved'
               PROVE  \E s \in Reqs : /\ ProcOf[s] = q /\ rpc'[s] = "granted"
                                      /\ answer'[s].refresh = succ[mem'[q].refresh]
    BY <1>1 DEF OwnTokens, serverVars
  <2>1. q # p /\ mem'[q] = mem[q]
    BY <1>3
  <2>2. PICK s \in Reqs : /\ ProcOf[s] = q /\ rpc[s] = "granted"
                          /\ answer[s].refresh = succ[mem[q].refresh]
    BY <1>1, <2>1 DEF Inv, OwnTokens
  <2> QED
    BY <1>4, <2>1, <2>2
<1> QED
  BY <1>5, <1>6, <1>7, <1>8, <1>9, <1>10, <1>11, <1>12, <1>13 DEF Inv

-----------------------------------------------------------------------------
(* The invariant holds at first and every step keeps it.                   *)
LEMMA Invariant == Spec => []Inv
<1>1. Init => Inv
  <2> SUFFICES ASSUME Init PROVE Inv
    OBVIOUS
  <2> USE Basics, TokenCacheAssumption DEF Init
  <2>1. TypeOK
    BY DEF TypeOK, Gens
  <2>2. Locks /\ Running
    BY DEF Locks, Locked, Running
  <2>3. AccessOrder
    BY DEF AccessOrder, Answered
  <2>4. RefreshIssued /\ Secrets
    BY DEF RefreshIssued, Secrets
  <2>5. Rotation /\ FileRefreshable /\ OwnTokens
    BY DEF Rotation, Answered, FileRefreshable, OwnTokens
  <2> QED
    BY <2>1, <2>2, <2>3, <2>4, <2>5 DEF Inv
<1>2. Inv /\ [Next]_vars => Inv'
  <2> SUFFICES ASSUME Inv, [Next]_vars PROVE Inv'
    OBVIOUS
  <2>1. ASSUME NEW r \in Reqs, NeedsLock(r) PROVE Inv'
    <3>1. CASE Token(r)
      BY <3>1, LockedTokenStep DEF Token
    <3>2. CASE Refresh(r)
      <4>1. TRUE \notin {FALSE}
        OBVIOUS
      <4> QED
        BY <3>2, <4>1, LockedTokenStep DEF Refresh
    <3> QED
      BY <2>1, <3>1, <3>2 DEF NeedsLock
  <2>2. CASE UNCHANGED vars
    <3> USE <2>2 DEF vars, procVars, reqVars, serverVars, Inv
    <3>1. TypeOK' /\ Locks' /\ Running'
      BY DEF TypeOK, Locks, Running
    <3>2. AccessOrder' /\ RefreshIssued' /\ Rotation'
      BY DEF AccessOrder, RefreshIssued, Rotation
    <3>3. Secrets' /\ FileRefreshable' /\ OwnTokens'
      BY DEF Secrets, Secret, FileRefreshable, OwnTokens
    <3> QED
      BY <3>1, <3>2, <3>3
  <2> QED
    BY <2>1, <2>2, AddStep, RemoveStep, StartStep, EndsStep, BeginStep, UpstreamStep, GrantStep,
       ApplyStep, SaveStep, RunCmdStep, FailSteps DEF Next, Goes
<1> QED
  BY <1>1, <1>2, PTL DEF Spec

(* Every variable of the token cache keeps its type.                       *)
THEOREM CacheTypeCorrect == Spec => []TypeOK
  BY Invariant, PTL DEF Inv

(* refreshGrant and Save: whatever processes and users do to the entry     *)
(* file, its refresh token is one the server takes, or its successor is    *)
(* about to be saved or was lost to a fault.                               *)
THEOREM FileStaysRefreshable == Spec => []RestartCanRefresh
<1>1. Inv => RestartCanRefresh
  BY DEF Inv, FileRefreshable, RestartCanRefresh
<1> QED
  BY <1>1, Invariant, PTL

(* Source.mu: a process never presents a refresh token that it has itself  *)
(* redeemed, unless the answer was lost.                                   *)
THEOREM MutexPreventsSelfRefusal == Spec => []NoSelfRefusal
<1>1. Inv => NoSelfRefusal
  <2> SUFFICES ASSUME Inv, NEW r \in Reqs, rpc[r] = "refresh",
                      mem[ProcOf[r]].refresh \notin accepted,
                      redeemer[mem[ProcOf[r]].refresh] = ProcOf[r],
                      succ[mem[ProcOf[r]].refresh] \notin unsaved
               PROVE  FALSE
    BY DEF NoSelfRefusal
  <2>1. mem[ProcOf[r]] # NoEntry /\ ProcOf[r] \in Procs /\ mem[ProcOf[r]].refresh # 0
    BY TokenCacheAssumption DEF Inv, Running, RefreshIssued
  <2>2. PICK s \in Reqs : ProcOf[s] = ProcOf[r] /\ rpc[s] = "granted"
    BY <2>1 DEF Inv, OwnTokens
  <2>3. s = r
    BY <2>2, OneHolder DEF Inv, Locked
  <2> QED
    BY <2>2, <2>3
<1> QED
  BY <1>1, Invariant, PTL

(* RoundTrip and lockedToken: a retry after a 401 goes out with a token    *)
(* granted after the refused one, or with what the entry's command has     *)
(* just printed, never with what the cache holds.                          *)
THEOREM RetryAsksAgain == Spec => RetryNotFromCache
<1> DEFINE A == \A r \in Reqs : (rpc'[r] = "resend" /\ rpc[r] # "resend") =>
                                  rtok'[r] > refused[r] \/ rpc[r] = "cmd"
<1>1. Inv /\ [Next]_vars => A
  <2> SUFFICES ASSUME Inv, [Next]_vars, NEW r \in Reqs, rpc'[r] = "resend", rpc[r] # "resend",
                      rpc[r] # "cmd"
               PROVE  rtok'[r] > refused[r]
    OBVIOUS
  <2>1. /\ rpc = [s \in Reqs |-> rpc[s]] /\ rtok = [s \in Reqs |-> rtok[s]]
        /\ refused = [s \in Reqs |-> refused[s]]
    BY DEF Inv, TypeOK
  <2>2. \A s \in Reqs : Begin(s) \/ Upstream(s) \/ End(s) => rpc'[r] = rpc[r] \/ rpc'[r] # "resend"
    BY <2>1 DEF Begin, Upstream, End
  <2>3. \A s \in Reqs : ~ NeedsLock(s)
    <3> SUFFICES ASSUME NEW s \in Reqs, NeedsLock(s) PROVE FALSE
      OBVIOUS
    <3>1. rpc[s] = "token" => refused[s] = 0
      BY DEF Inv, AccessOrder
    <3> QED
      BY <2>1, <3>1 DEF NeedsLock, Token, Refresh, LockedToken, SendWith, End
  <2>4. \A s \in Reqs : ~ (Grant(s) \/ Refuse(s) \/ Apply(s) \/ RefreshLost(s) \/ SaveFails(s))
    BY <2>1 DEF Grant, Refuse, Apply, RefreshLost, SaveFails, FailLocked, End
  <2>5. \A s \in Reqs : ~ RunCmd(s)
    BY <2>1 DEF RunCmd, SendWith, FailLocked, End
  <2>6. ~ (TokenAdd \/ TokenRemove \/ UNCHANGED vars)
    BY DEF TokenAdd, TokenRemove, vars, reqVars
  <2>7. \A p \in Procs : ~ (ProcStart(p) \/ ProcEnds(p))
    BY <2>1 DEF ProcStart, ProcEnds, reqVars
  <2>8. PICK s \in Reqs : Save(s)
    BY <2>2, <2>3, <2>4, <2>5, <2>6, <2>7 DEF Next, Goes
  <2>9. s = r /\ rtok'[r] = answer[r].access /\ rpc[r] \in Answered
    BY <2>1, <2>8 DEF Save, SendWith, Answered
  <2> QED
    BY <2>9 DEF Inv, AccessOrder
<1> QED
  BY <1>1, Invariant, PTL DEF Spec, RetryNotFromCache
=============================================================================
