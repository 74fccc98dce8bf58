----------------------------- MODULE TokenCache -----------------------------
(***************************************************************************)
(* internal/tokencache and `mcptunnel token': the bearer tokens of one     *)
(* upstream.  The entry lives in a file; each process that talks to the    *)
(* upstream (expose --url, run --url) reads it once, keeps its own copy    *)
(* behind a mutex, refreshes the copy and writes it back.  Users add and   *)
(* remove the entry meanwhile.  An authorization server either leaves      *)
(* refresh tokens as they are or rotates them: each is then accepted once. *)
(*                                                                         *)
(* Tokens are generations: 1 is the first one issued, 0 the empty string.  *)
(* An access token and the refresh token issued with it share a number.    *)
(* There is no clock: whether a stated expires_at is over (less the skew), *)
(* a command's token is older than cmdStaleness, or the upstream still     *)
(* takes a token, is left open each time it is asked.                      *)
(***************************************************************************)
EXTENDS Naturals, FiniteSets

CONSTANTS
    Procs,       \* processes that use the upstream
    Reqs,        \* their HTTP requests
    ProcOf,      \* which process sends a request
    Replayable,  \* requests with a body that can be read again (GetBody)
    NoReq, NoProc, NoEntry,
    MaxTokens,   \* bound: tokens ever issued
    MaxFaults    \* bound: lost answers, failed saves, killed processes

ASSUME TokenCacheAssumption ==
    /\ ProcOf \in [Reqs -> Procs]
    /\ Replayable \subseteq Reqs
    /\ NoReq \notin Reqs /\ NoProc \notin Procs
    /\ MaxTokens \in Nat \ {0}
    /\ MaxFaults \in Nat

Gens == 0..MaxTokens

(* Entry: URL, token_url and client_id never change and are left out;      *)
(* expires says that expires_at is set, cmd that there is a token_cmd.     *)
Entries == [access : Gens, refresh : Gens, expires : BOOLEAN, cmd : BOOLEAN]

ASSUME NoEntryAssumption == NoEntry \notin Entries

VARIABLES
    file,      \* the entry file, or NoEntry
    mem,       \* Source.Entry of each process; NoEntry without a Transport
    mu,        \* the request that holds Source.mu over a refresh
    rpc,       \* where each request's RoundTrip is
    rtok,      \* the token in its Authorization header
    refused,   \* the token its first 401 was about
    answer,    \* the token response it is about to apply
    issued,    \* the authorization server: tokens issued so far,
    rotates,   \* whether it replaces refresh tokens,
    accepted,  \* the refresh tokens it takes
    succ, redeemer,  \* for a spent refresh token: its successor, who spent it
    unsaved,   \* granted generations that never got to the file
    faults

procVars == <<mem, mu>>
reqVars == <<rpc, rtok, refused, answer>>
serverVars == <<issued, rotates, accepted, succ, redeemer>>
vars == <<file, procVars, reqVars, serverVars, unsaved, faults>>

NoAnswer == [access |-> 0, refresh |-> 0]
Answers == [access : Gens, refresh : Gens]

Fault == faults < MaxFaults /\ faults' = faults + 1

Init ==
    /\ file = NoEntry
    /\ mem = [p \in Procs |-> NoEntry]
    /\ mu = [p \in Procs |-> NoReq]
    /\ rpc = [r \in Reqs |-> "idle"]
    /\ rtok = [r \in Reqs |-> 0]
    /\ refused = [r \in Reqs |-> 0]
    /\ answer = [r \in Reqs |-> NoAnswer]
    /\ issued = 0 /\ rotates \in BOOLEAN /\ accepted = {}
    /\ succ = [g \in Gens |-> 0]
    /\ redeemer = [g \in Gens |-> NoProc]
    /\ unsaved = {} /\ faults = 0

-----------------------------------------------------------------------------
(* mcptunnel token                                                         *)

(* The kinds of entry parseTokenAddArgs lets through, around token g: a    *)
(* static bearer or one with a refresh token, each with or without         *)
(* --expires-in; a command, whose token is used for some time only, with   *)
(* --expires-in or without (see Usable).                                   *)
NewEntries(g) ==
    {[access |-> g, refresh |-> f, expires |-> x, cmd |-> FALSE] : f \in {0, g}, x \in BOOLEAN}
        \cup {[access |-> 0, refresh |-> 0, expires |-> FALSE, cmd |-> TRUE]}

(* runTokenAdd: the user got a token elsewhere and Save writes the file,   *)
(* whatever was there.                                                     *)
TokenAdd ==
    /\ issued < MaxTokens
    /\ issued' = issued + 1
    /\ \E e \in NewEntries(issued + 1) :
         /\ file' = e
         /\ accepted' = (accepted \cup {e.refresh}) \ {0}
    /\ UNCHANGED <<rotates, succ, redeemer, procVars, reqVars, unsaved, faults>>

(* runTokenRemove: Lookup, an error when there is no entry, then Remove.   *)
TokenRemove ==
    /\ file # NoEntry
    /\ file' = NoEntry
    /\ UNCHANGED <<procVars, reqVars, serverVars, unsaved, faults>>

(* tokenTransportFor at the start of expose or run: Lookup and NewSource;  *)
(* without an entry the process goes on without a Transport.               *)
ProcStart(p) ==
    /\ mem[p] = NoEntry /\ file # NoEntry
    /\ mem' = [mem EXCEPT ![p] = file]
    /\ UNCHANGED <<file, mu, reqVars, serverVars, unsaved, faults>>

-----------------------------------------------------------------------------
(* Transport.RoundTrip                                                     *)

Begin(r) ==
    /\ rpc[r] = "idle" /\ mem[ProcOf[r]] # NoEntry
    /\ rpc' = [rpc EXCEPT ![r] = "token"]
    /\ UNCHANGED <<file, procVars, rtok, refused, answer, serverVars, unsaved, faults>>

(* With token t in its header the request goes (again) to the upstream.    *)
SendWith(r, t) ==
    /\ rtok' = [rtok EXCEPT ![r] = t]
    /\ rpc' = [rpc EXCEPT ![r] = IF refused[r] = 0 THEN "send" ELSE "resend"]
    /\ UNCHANGED refused

(* RoundTrip returns a response or an error.                               *)
End(r) ==
    /\ rpc' = [rpc EXCEPT ![r] = "done"]
    /\ rtok' = [rtok EXCEPT ![r] = 0]
    /\ refused' = [refused EXCEPT ![r] = 0]

(* The answers lockedToken's first test can give: an empty token is never  *)
(* used and one without expires_at or command always; any other is until   *)
(* its expiry, or for cmdStaleness.                                        *)
Usable(e) ==
    IF e.access = 0 THEN {FALSE} ELSE IF e.expires \/ e.cmd THEN BOOLEAN ELSE {TRUE}

(* Token and Refresh: lockedToken under Source.mu, when its first test     *)
(* can come out as in choices.  It answers from the cache, goes on with    *)
(* the lock held, or fails.                                                *)
LockedToken(r, choices) ==
    LET p == ProcOf[r] IN
    /\ mu[p] = NoReq
    /\ \/ /\ TRUE \in choices
          /\ SendWith(r, mem[p].access)
          /\ UNCHANGED mu
       \/ /\ FALSE \in choices /\ (mem[p].refresh # 0 \/ mem[p].cmd)
          /\ mu' = [mu EXCEPT ![p] = r]
          /\ rpc' = [rpc EXCEPT ![r] = IF mem[p].refresh # 0 THEN "refresh" ELSE "cmd"]
          /\ UNCHANGED <<rtok, refused>>
       \/ /\ FALSE \in choices /\ mem[p].refresh = 0 /\ ~ mem[p].cmd
          /\ End(r)
          /\ UNCHANGED mu
    /\ UNCHANGED <<file, mem, answer, serverVars, unsaved, faults>>

Token(r) == rpc[r] = "token" /\ LockedToken(r, Usable(mem[ProcOf[r]]))

(* Seeded bugs: a forced refresh is satisfied by an unexpired token; the   *)
(* mutex is not taken.                                                     *)
RefreshIfExpired(r) == rpc[r] = "force" /\ LockedToken(r, Usable(mem[ProcOf[r]]))
RefreshUnlocked(r) ==
    /\ rpc[r] = "force"
    /\ IF mem[ProcOf[r]].refresh # 0
       THEN rpc' = [rpc EXCEPT ![r] = "refresh"] /\ UNCHANGED <<rtok, refused>>
       ELSE End(r)
    /\ UNCHANGED <<file, procVars, answer, serverVars, unsaved, faults>>

Refresh(r) == rpc[r] = "force" /\ LockedToken(r, {FALSE})

(* An error return of lockedToken; the deferred Unlock runs.               *)
FailLocked(r) ==
    /\ End(r)
    /\ mu' = [mu EXCEPT ![ProcOf[r]] = NoReq]
    /\ answer' = [answer EXCEPT ![r] = NoAnswer]

-----------------------------------------------------------------------------
(* refreshGrant                                                            *)

(* The authorization server answers the POST of r with a new access token, *)
(* an expiry or none (see Apply), and a new refresh token if it rotates.   *)
Redeem(p, old, g) ==
    /\ old \in accepted
    /\ issued' = g
    /\ accepted' = IF rotates THEN (accepted \ {old}) \cup {g} ELSE accepted
    /\ succ' = IF rotates THEN [succ EXCEPT ![old] = g] ELSE succ
    /\ redeemer' = IF rotates THEN [redeemer EXCEPT ![old] = p] ELSE redeemer
    /\ UNCHANGED rotates

Grant(r) ==
    LET g == issued + 1 IN
    /\ rpc[r] = "refresh" /\ issued < MaxTokens
    /\ Redeem(ProcOf[r], mem[ProcOf[r]].refresh, g)
    /\ answer' = [answer EXCEPT ![r] = [access |-> g, refresh |-> IF rotates THEN g ELSE 0]]
    /\ rpc' = [rpc EXCEPT ![r] = "granted"]
    /\ UNCHANGED <<file, procVars, rtok, refused, unsaved, faults>>

(* It answers with an error status: the refresh token is spent or unknown. *)
(* (At the bound on tokens it refuses everything.)                         *)
Refuse(r) ==
    /\ rpc[r] = "refresh"
    /\ mem[ProcOf[r]].refresh \notin accepted \/ issued = MaxTokens
    /\ FailLocked(r)
    /\ UNCHANGED <<file, mem, serverVars, unsaved, faults>>

(* The POST or its answer is lost, times out, or cannot be decoded: the    *)
(* server may have redeemed the token, and nobody learns the new one.      *)
RefreshLost(r) ==
    /\ rpc[r] \in {"refresh", "granted"} /\ Fault
    /\ FailLocked(r)
    /\ unsaved' = unsaved \cup ({answer[r].refresh} \ {0})
    /\ UNCHANGED <<file, mem, serverVars>>

(* Seeded bug: the new refresh token is dropped.                           *)
ApplyKeepsRefresh(r) ==
    LET p == ProcOf[r] IN
    /\ rpc[r] = "granted"
    /\ mem' = [mem EXCEPT ![p].access = answer[r].access, ![p].expires = TRUE]
    /\ rpc' = [rpc EXCEPT ![r] = "save"]
    /\ UNCHANGED <<file, mu, rtok, refused, answer, serverVars, unsaved, faults>>

(* The answer is copied into the entry; expires_at keeps its old value     *)
(* when the answer states none, and so does the refresh token.             *)
Apply(r) ==
    LET p == ProcOf[r] IN
    /\ rpc[r] = "granted"
    /\ \E stated \in BOOLEAN :
         mem' = [mem EXCEPT ![p].access = answer[r].access,
                            ![p].expires = @ \/ stated,
                            ![p].refresh = IF answer[r].refresh # 0 THEN answer[r].refresh ELSE @]
    /\ rpc' = [rpc EXCEPT ![r] = "save"]
    /\ UNCHANGED <<file, mu, rtok, refused, answer, serverVars, unsaved, faults>>

(* Seeded bug: the response is written instead of the entry.               *)
SaveAnswer(r) ==
    /\ rpc[r] = "save"
    /\ file' = answer[r]
    /\ mu' = [mu EXCEPT ![ProcOf[r]] = NoReq]
    /\ SendWith(r, answer[r].access)
    /\ answer' = [answer EXCEPT ![r] = NoAnswer]
    /\ UNCHANGED <<mem, serverVars, unsaved, faults>>

(* Store.Save: a temporary file and a rename, so the file is the old entry *)
(* or the new one, and never checks what it replaces; the lock is          *)
(* released and the request goes out.                                      *)
Save(r) ==
    LET p == ProcOf[r] IN
    /\ rpc[r] = "save"
    /\ file' = mem[p]
    /\ mu' = [mu EXCEPT ![p] = NoReq]
    /\ SendWith(r, answer[r].access)
    /\ answer' = [answer EXCEPT ![r] = NoAnswer]
    /\ UNCHANGED <<mem, serverVars, unsaved, faults>>

(* Save fails: the request fails too, the copy in memory stays new.        *)
SaveFails(r) ==
    /\ rpc[r] = "save" /\ Fault
    /\ FailLocked(r)
    /\ unsaved' = unsaved \cup ({answer[r].refresh} \ {0})
    /\ UNCHANGED <<file, mem, serverVars>>

(* Seeded bug: an error of the command returns with the lock held.         *)
RunCmdKeepsLock(r) ==
    /\ rpc[r] = "cmd"
    /\ End(r)
    /\ UNCHANGED <<file, procVars, answer, serverVars, unsaved, faults>>

(* runCmd: the command prints a token, or fails or prints nothing. The     *)
(* token is a new one, or one that was issued before (`gh auth token'      *)
(* prints the stored one), be it the token the upstream has just refused.  *)
(* The file is not written.                                                *)
RunCmd(r) ==
    LET p == ProcOf[r] IN
    /\ rpc[r] = "cmd"
    /\ \/ /\ \E g \in Gens \ {0} :
               /\ g <= issued + 1
               /\ issued' = IF g > issued THEN g ELSE issued
               /\ mem' = [mem EXCEPT ![p].access = g]
               /\ SendWith(r, g)
          /\ mu' = [mu EXCEPT ![p] = NoReq]
          /\ UNCHANGED <<answer, rotates, accepted, succ, redeemer>>
       \/ /\ FailLocked(r)
          /\ UNCHANGED <<mem, serverVars>>
    /\ UNCHANGED <<file, unsaved, faults>>

-----------------------------------------------------------------------------
(* The upstream answers: anything but 401, or the connection's error, is   *)
(* the caller's; the first 401 leads to a forced refresh if the body can   *)
(* be sent again (with GetBody, which a request that the agent has read    *)
(* off a stream does not have); any other 401 is the caller's too.         *)
Upstream(r) ==
    /\ rpc[r] \in {"send", "resend"}
    /\ \/ End(r)
       \/ /\ rpc[r] = "send" /\ r \in Replayable
          /\ rpc' = [rpc EXCEPT ![r] = "force"]
          /\ refused' = [refused EXCEPT ![r] = rtok[r]]
          /\ UNCHANGED rtok
    /\ UNCHANGED <<file, procVars, answer, serverVars, unsaved, faults>>

(* The process ends: what it held in memory is gone.                       *)
ProcEnds(p) ==
    LET mine == {r \in Reqs : ProcOf[r] = p /\ rpc[r] # "idle"} IN
    /\ mem[p] # NoEntry /\ Fault
    /\ mem' = [mem EXCEPT ![p] = NoEntry]
    /\ mu' = [mu EXCEPT ![p] = NoReq]
    /\ rpc' = [r \in Reqs |-> IF r \in mine THEN "done" ELSE rpc[r]]
    /\ rtok' = [r \in Reqs |-> IF r \in mine THEN 0 ELSE rtok[r]]
    /\ refused' = [r \in Reqs |-> IF r \in mine THEN 0 ELSE refused[r]]
    /\ answer' = [r \in Reqs |-> IF r \in mine THEN NoAnswer ELSE answer[r]]
    /\ unsaved' = unsaved \cup ({answer[r].refresh : r \in mine} \ {0})
    /\ UNCHANGED <<file, serverVars>>

-----------------------------------------------------------------------------
NeedsLock(r) == Token(r) \/ Refresh(r)
Goes(r) == Grant(r) \/ Refuse(r) \/ Apply(r) \/ Save(r) \/ RunCmd(r) \/ Upstream(r)

Next ==
    \/ TokenAdd \/ TokenRemove
    \/ \E p \in Procs : ProcStart(p) \/ ProcEnds(p)
    \/ \E r \in Reqs : Begin(r) \/ NeedsLock(r) \/ Goes(r) \/ RefreshLost(r) \/ SaveFails(r)

Spec == Init /\ [][Next]_vars

(* Some goroutine that can go on does: the token endpoint answers (the     *)
(* client's 30 s timeout makes it a loss otherwise), and so do a token     *)
(* command and the upstream, which have no timeout. A request takes each   *)
(* step once at most, so this weak form brings every one of them forward   *)
(* that is not stuck behind the mutex.                                     *)
Progress == \E r \in Reqs : NeedsLock(r) \/ Goes(r)
FairSpec == Spec /\ WF_vars(Progress)

-----------------------------------------------------------------------------
TypeOK ==
    /\ file \in Entries \cup {NoEntry}
    /\ mem \in [Procs -> Entries \cup {NoEntry}]
    /\ mu \in [Procs -> Reqs \cup {NoReq}]
    /\ rpc \in [Reqs -> {"idle", "token", "force", "refresh", "granted", "save", "cmd",
                         "send", "resend", "done"}]
    /\ rtok \in [Reqs -> Gens] /\ refused \in [Reqs -> Gens]
    /\ answer \in [Reqs -> Answers]
    /\ issued \in Gens /\ rotates \in BOOLEAN /\ accepted \subseteq Gens
    /\ succ \in [Gens -> Gens] /\ redeemer \in [Gens -> Procs \cup {NoProc}]
    /\ unsaved \subseteq Gens
    /\ faults \in 0..MaxFaults

(* `rewrites the entry file with the result': a process started now can    *)
(* refresh.  The refresh token in the file is one the server takes, unless *)
(* its successor is in the hands of a request that is about to save it or  *)
(* was lost to a fault between the grant and Save; whatever other          *)
(* processes, `token add' and `token remove' do to the file meanwhile.     *)
RestartCanRefresh ==
    (file # NoEntry /\ file.refresh \notin accepted \cup {0}) =>
        LET next == succ[file.refresh] IN
        next \in unsaved \/ \E r \in Reqs : answer[r].refresh = next

(* `A mutex serializes refreshes': a process is never refused because of a *)
(* refresh token that it has itself redeemed, unless the answer to that    *)
(* was lost.                                                               *)
NoSelfRefusal ==
    \A r \in Reqs :
        LET p == ProcOf[r]
            t == mem[p].refresh IN
        (rpc[r] = "refresh" /\ t \notin accepted) => redeemer[t] # p \/ succ[t] \in unsaved

(* `On a 401 it force-refreshes once and retries': even when the entry's   *)
(* expiry says that the refused token is still good, a retry goes out      *)
(* either with a token granted after the refused one was, or straight from *)
(* a run of the entry's command, with what that printed -- which may be    *)
(* the refused token again. The cache never answers a retry.               *)
RetryNotFromCache ==
    [][\A r \in Reqs :
         (rpc'[r] = "resend" /\ rpc[r] # "resend") => rtok'[r] > refused[r] \/ rpc[r] = "cmd"]_vars

(* Every request ends, with all of them queueing for the mutex that is     *)
(* held over a refresh, whatever fails inside.                             *)
RequestsEnd == \A r \in Reqs : (rpc[r] = "token") ~> (rpc[r] = "done")
=============================================================================
