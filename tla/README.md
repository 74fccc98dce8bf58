# A TLA+ model of mcptunnels

mcptunnels gives a local MCP server a temporary public URL. `mcptunnel expose`
asks the daemon `tunneld` for a tenant, connects to it over a websocket and
serves the HTTP requests the daemon relays through that connection. This
directory holds TLA+ modules that model the parts of the system where
concurrency, failures and ordering matter, the TLC configurations that check
them on small instances, and TLAPS proofs of the main safety properties for
every instance.

## 1. Inventory

### tunneld

| Component | State it keeps | Operations | What is hard | What makes it correct |
|---|---|---|---|---|
| `internal/gateway` | registry `sessions` (key -> yamux session) under `g.mu` | `ServeHTTP` (validate, upgrade, `register`, wait, `unregister`), `Dial`, `Online` | everything except the map accesses runs outside the mutex; connections of one key replace each other | no stale entry, no lost session, no request to another key's agent |
| `internal/store`, `internal/stored1` | tables `tenants`, `services`, `signing_keys`, `oauth_clients`, `auth_codes`, `quick_rate` | one SQL statement each, a few of two or three; cascades | no transaction spans two statements; a D1 error does not say whether the statement ran | no orphan rows; single-use codes; a bound on what the rate counter over-admits |
| `internal/controlplane` | none of its own | `POST /quick` (rate, capacity, tenant, service, key), `DELETE /quick/{tenant}` | five statements per creation, any of which can fail or race a deletion | bounded overshoot of the cap, rate limit, nothing half-made is announced |
| `cmd/tunneld` | janitor's work list | janitor, `-kill-tenant`, start and stop | deletes tenants under everybody else; restarts | every expired tenant goes |
| `internal/oauth` | cache of per-tenant servers under `r.mu`; per-IP windows | register, authorize (password gate), token, validate | cached keys and expiries versus tables; several statements per handler | one token per code; gated access goes back to a password; tokens survive restarts and die with the tunnel |
| `internal/proxy` | none | check service and bearer, dial, relay | state read at the gate is used after it; the other end of the stream may vanish at any time | no request past the gate without a token of that tenant; a request runs at most once, is answered only by its own run, and ends |
| `internal/server`, `config`, `cli`, `tunnelproto` | none | routing, parsing, constants | -- | -- |

### mcptunnel

| Component | State it keeps | Operations | What is hard | What makes it correct |
|---|---|---|---|---|
| `internal/agent` | current session, backoff | `Run`/`serve` loop, `handleStream` | silent link failures, restarts of tunneld, cancellation, streams that outlive their client | ends up served; stops cleanly; runs each request once |
| `internal/bridge` | `pending` map and child's stdin under `s.mu`, SSE queue | POST, GET, read loop, exit goroutine | lookups and sends separated by an unlock; blocking pipe writes with the lock held; child exit at any time | every request is answered once, by its own answer, or failed |
| `internal/stdiofront` | session id and cached `initialize` under `s.mu`, wait group | requests, notifications, 404 re-initialisation, event stream, drain, close | the session is read, cleared and set in separate critical sections by every poster; the end of input races replies | each request answered; shutdown ends, and leaves no session that `run` knows of |
| `internal/tokencache` | token entry in memory under `s.mu`, file on disk | `Token`, `Refresh`, `RoundTrip`, `Save`, `Lookup`, `Remove` | concurrent 401s; several processes on one file; rotated refresh tokens spent before they are saved | the file can always be refreshed from; no token is spent twice |
| `cmd/mcptunnel` | -- | `expose`, `run`, `token` | interrupt versus exit; clean-up on failure | a tunnel is deleted when its command ends |

Interactions: the proxy calls `gateway.Dial` and `oauth.Resolver.Validator`;
gateway, proxy, oauth and control plane all call the store; the janitor and
the kill switch delete tenants underneath them without telling them; the agent
and the gateway talk through a websocket carrying yamux; the agent's upstream
is either a URL, with `tokencache` in front of it when there is an entry, or
the bridge; `run` puts `stdiofront` in front of the same URLs and token files;
`expose` creates the tunnel at the control plane, runs agent and bridge, and
deletes the tunnel at the end.

`PROJECT.json` lists the hazards one by one, at the lines where they bite,
with the properties that watch them.

## 2. Modules

```
Gateway --> Tunnel --> Relay (implements Exchange)   MCGateway, MCRelay
   \--> GatewayProofs ----\--> RelayProofs
Store --> ControlPlane --> ControlPlaneProofs        MCControlPlane
   \----> OAuth --> OAuthProofs                      MCOAuth
Bridge --> BridgeProofs                              MCBridge
TokenCache --> TokenCacheProofs                      MCTokenCache
StdioFront --> StdioFrontProofs                      MCStdioFront
Expose --> ExposeProofs
```

An action whose comment begins with "Seeded bug" is not part of any
specification: it is a variant of the definition below it with a plausible
mistake, used to show that a property can fail.

### Gateway

One member of `Conns` is an agent connection, its `ServeHTTP` goroutine and its
yamux session at once. `hpc` is the goroutine's place in the code, `ckey` the
tenant and service it presented, `old` the local of `register`, `open` the
sessions whose gateway end is open, `sessions` the map. The handler's steps are
`Arrive`, `Validate`, `Upgrade`, `Register` (the critical section), `CloseOld`
(after the unlock) and `Unregister`; `Dial` is `DialLookup` (locked) and
`DialOpen` (not locked). `Drop` is yamux closing a session. What the store
answers is left open: `Validate` may succeed or fail at any time. A connection
name is reused once nothing refers to it, so three names stand for unboundedly
many connections.

### Tunnel

Composes the gateway's handlers with the agent's `Run` loop (`apc`, `aconn`,
`backoff`), a network that can silently cut a connection (`cut`), restarts of
tunneld and the deletion of tenants (`row`). Each end of a connection is closed
separately: `GwDrop` and `AgentServeFails` are how an end finds out.
`GwValidate`, `GwUpgrade` and `GwRegister` are Gateway's steps with the store's
answer and the network's failures filled in. Faults (cuts, refused handshakes,
restarts) are bounded by `MaxFaults`. `InitialBackoff` and `MaxBackoff` are the
configuration's values in abstract units. Tunnel has no run of its own: its
properties are checked in `relay`, with requests in the picture.

### Relay and Exchange

Relay adds the requests. A member of `Dials` is one public request; `qpc` is
its `ServeHTTP` in the proxy, `dpc`/`dsess` (Gateway's) its call of `Dial`,
`hs` its `handleStream` in the agent, `execs` how often the upstream ran it.
`Gate` is the service lookup with its three outcomes (found, not found, store
error and recovered panic), `Lookup` and `OpenStream` the dial, `BadGateway`
the `ErrorHandler`; `AcceptStream`, `Do` and `Reply` are the agent's side. `Do`
is not told when the client leaves and goes on, as in the code. A client that
leaves during the dial leaves an idle stream behind (`parked`): the transport
has no idle timeout, so the stream stays until its session ends.

`Exchange` is the abstract specification: per request an outcome and a number
of runs, and five lines of what may happen to them. `RelayImplementsExchange`
is the refinement, with `Seen` as the mapping: whatever agents, links, restarts
and clients do, a request is run at most once and an answer is the outcome of
its own run.

### Store

The tables as variables and one action per SQL statement, conjoined by callers
with their own step. `CreateService` is the one place where two statements are
one action; the module gives the reason. Foreign keys and `ON DELETE CASCADE` are
part of the actions.

### ControlPlane

`handleQuick` is `QuickWindow` (the clock reading of `allowQuick`), `QuickPrune`,
`QuickUpsert`, `QuickReadBack` (the statements of `QuickRateHit`),
`QuickCount` (capacity test, body), `QuickTenant`, `QuickService`,
`QuickSigningKey`; `handleDelete` is `DeleteValidate`, `DeleteRun`; the janitor
is `JanitorSelect`, `JanitorDelete`; `Kill` is the kill switch; `Crash` loses
all goroutines and keeps the tables. A failing statement of the D1 store may
have run or not (`Fault` with the statement or `NotRun`); with SQLite it did
not run, which is one of the two. `Bodies` has the case of a password that
bcrypt refuses. A drawn slug is one that nobody refers to (`Fresh`): with
36^10 slugs, one is not drawn again while somebody remembers it.

### OAuth

`Resolver.server` is `ResolveTenant`, `ResolveKey`, `ResolveGenerate` under
`r.mu` (`rpc`); `handleRegister` is `Register`; `handleAuthorize` is
`AuthClient`, `AuthGate`, `AuthPassword`, `AuthCode`; `handleToken` is
`TokClaim`, `TokIssue` (the two statements of `ConsumeAuthCode`, the second
followed by the comparisons and the signing); the proxy's gate is `AccService`,
`AccCheck`, `AccEnd`. A token is a record of what is signed and the key that
signed it; verification compares keys, issuer and expiry. `gate`, `minted` and
`misread` are history variables: they record how a code was approved, how many
tokens it yielded, and which tenants' keys were misread, and no action reads
them except to keep random identifiers from being drawn twice.

### Bridge

Each member of `Posts` is a POST, with its channel (`buf`, `closed`). `mu` is
the lock only where it is held across a blocking step, the write to stdin; the
other critical sections are atomic actions that wait for it. The exit goroutine
is `Reap`, `FailPending`, `CloseDone`; the read loop is `ReadLine`,
`ReadLookup`, `ReadDeliver`, `ReadNotify`, `ReadEOF`, and `ReadTooLong`, which
stops it at a line over `maxLine` while the child runs on. `crashed` is the process
having panicked, after which nothing moves. The child is external: it answers
each request it reads once, in any order, may send requests and notifications
of its own, and may exit at any time. Lines that the Scanner had read when
`cmd.Wait` closes the pipe are still delivered (`Reap`). `CircularWait` is the
state in which a writer, the read loop and the child wait for each other.

### TokenCache

Processes (`Procs`) with requests (`Reqs`) on one entry. `file` is the entry's
file, `mem` each process's copy, read once by `ProcStart`. `Token` and `Refresh`
are `lockedToken` up to its decision; a request that then refreshes or runs the
command holds `mu` until `Save`, `RunCmd` or a failure. The authorization server
is external: `Grant` and `Refuse`, with or without rotation of refresh tokens
(`rotates`, chosen once). `TokenAdd` and `TokenRemove` are the `token` command.
Tokens are numbers in the order of issue. There is no clock: a stated expiry may
be over or not whenever it is asked; a command's token is used for some time
only, with an expiry or without. `RunCmd` prints a new token or any that was
issued before, be it the one just refused. A grant always gives a new access
token. `succ`, `redeemer` and `unsaved` are history variables.

### StdioFront

`main` is `Serve`, `pc` each message's `post` (and `request`), `spc` the event
stream. `Script` is what the client writes, one name for each of its lines. The critical sections of `s.mu` are single actions and everything
between them interleaves: `DoPost` reads the session, `Respond404` and
`Check404` are the 404 and the test of the session after it, `ReinitClear`,
`ReinitPost`, `ReinitOK` and `ReinitStore` the re-initialisation. `StdinEnds`
is the client's doing, `LinesEnd` the main loop's noticing it. `Drain` may
run into its limit (`gaveUp`). `Hang` is an endpoint that neither answers nor
closes, before its answer or within it. An exchange that fails may have been
processed by the endpoint all the same (`MayLoseSession`): `lost` records the
sessions granted in such an answer, `dropped` those that `s.session` lost while
the endpoint still knew them, `silent` requests whose event stream ended without
the answer.

### Expose

`runExpose` as a sequence of steps with its stack of deferred calls (`defers`),
so that every return, including the early ones, runs what is deferred at that
point and no more; beside it the signal context, the agent's goroutine, the
child with `os/exec`'s watcher, tunneld's handling of the POST (also after the
client has given up) and the janitor. `Kill` ends the process anywhere. The
module has no constants; it is its own TLC model.

## 3. Runs

| Run | Checks | Instance |
|---|---|---|
| `gateway` | `EntryHasOwner`, `NoOrphanSession`, `StreamReachesDialedKey`; `OnlyDeadSessionsUnregistered` | 3 connections, 2 keys, 1 dial |
| `relay` | `RelayTypeOK`; refinement `RelayImplementsExchange`; `GatedRequestsEnd`, `EventuallyServed`, `StoppedGoesOffline`, `AbandonedHandlersReturn` | 1 agent, 2 connections, 1 request, 2 faults |
| `controlplane` | `TypeOK`, `NoOrphanRows`, `LiveOvershoot`, `RateOvershoot`, `AnsweredTunnelIsComplete` | 2 handlers, 3 slugs, 3 requests, cap 1, limit 1, 3 ticks, 1 fault |
| `controlplane_sweep` | `ExpiredEventuallySwept` | 2 handlers, 1 deletion, 2 slugs, 1 fault |
| `oauth` | `TypeOK`, `CodeRedeemedOnce`, `GatedAccessTraceable`, `CachedKeyIsStored`, `TokenDiesWithTenant` | 2 tenants, 1 client, 1 code, 2 token requests, 2 faults |
| `bridge` | `ResponseMatchesRequest`, `WaiterReachable`, `NoStaleRegistration` | 2 requests, 1 notification, 1 SSE stream, pipes and queue of 1, 2 messages of the child's |
| `bridge_live` | `ExitEndsHandlers`, `RequestsComplete` | 2 requests, 1 notification, pipes of 1, a child with 1 request in hand, 2 messages of the child's |
| `bridge_panic` | refutes `ReaderNeverPanics` | as `bridge` |
| `bridge_ids` | refutes `ResponseMatchesRequest` | as `bridge`, both requests with one id |
| `tokencache` | `TypeOK`, `RestartCanRefresh`, `NoSelfRefusal`; `RetryNotFromCache`, `RequestsEnd` | 2 processes, 3 requests, 2 tokens, 1 fault |
| `stdiofront` | `TypeOK`, `RepliesBeforeExit`, `NoSessionLeft`; `RequestsAnswered`, `ShutdownEnds`, `StreamFollowsSession` | `initialize`, a request, a notification; 3 sessions, 2 faults |
| `expose` | `ExitDeletes`; `InterruptEnds`, `TunnelGoes` | one run of the command |

Each property has a comment at its definition that states it in words. In
brief, what the passing runs show: the registry's "only if still ours" test and
its close-after-unlock are right in every interleaving; reconnection converges
and leaks nothing; a proxied request is run at most once and always ends; the
capacity guard is soft by at most one tunnel less than there are concurrent
handlers, and the rate counter is exact until its window can be pruned and soft
by the same amount afterwards; a tunnel that was announced is whole
and whatever is half-made gets swept; the bridge loses no wakeup and leaks no
registration, and a request hangs only in its one deadlock or behind an overlong
line; an authorization code yields one token and nothing reaches a gated
service without one; a token file stays refreshable except over a fault between
grant and save; `run` answers what it takes and ends on Ctrl-C, and at the end of
stdin unless a notification hangs; `expose`
deletes its tunnel on every orderly end.

What the violation runs show:

* `bridge_panic` -- the read loop may send on a channel that the exit goroutine
  closed after the lookup; that panics and ends the process.
* `bridge_ids` -- the pending map is keyed by the client's JSON-RPC id; two
  clients with equal ids get each other's answers.

### Where code and comments disagree

Besides the two violation runs, the models reach the following states. Where a
property is named, the state is an exception that the property spells out: it
then says exactly what else could go wrong and does not.

* `controlplane.go:28` "caps the number of non-expired tenants": the count and
  the insert are two statements, and concurrent creations exceed the cap.
  `LiveOvershoot` bounds by how much.
* `controlplane.go:193` "enforces the per-remote-IP quick-tunnel rate limit":
  besides failing open on store errors, as the comment there says, the limit
  can be exceeded by handlers that read the clock before `QuickRateHit` and
  stall for more than two windows. Another request prunes the row meanwhile,
  the upsert creates it again at 1, and the read-back admits. `RateOvershoot`
  bounds by how much, and TLC reaches the bound.
* `bridge.go:205` "forward and wait for the matching response by id": when a POST blocks on a full
  stdin with `s.mu` held (`bridge.go:261`), the read loop holds a line with an
  id and waits for `s.mu` (`bridge.go:136`), and the child, with its hands full,
  waits for room on stdout, the three wait for each other until the child
  exits, and with them every later request. `bridge_live` reaches this with
  three posts and two messages of the child's own; with more requests it needs
  no message of the child's and any `ChildConc` will do. `RequestsComplete`
  says that a request can get stuck there (`CircularWait`) and nowhere else but
  behind an overlong line; `ExitEndsHandlers` that the child's exit ends it.
* `authorize.go:18`: `hasPassword` reads any store error as "no password".
  `GatedAccessTraceable` admits approvals by failed read.
* `oauth.go:25`: `NewServer` reads any store error as "no key", generates one
  that `INSERT OR IGNORE` discards, and caches it. `CachedKeyIsStored` excepts
  misread tenants.
* `tunneld/main.go:47` "serves no traffic" after a kill: a request past
  `GetService` still reaches the agent and is answered.
* `source.go:25` "concurrent 401s collapse into one": the mutex serialises
  them, but each caller then refreshes again, since `Refresh` does not look at
  what changed while it waited. `NoSelfRefusal` shows that this is only a waste.
* `tokencache.go:198` "on a 401 it force-refreshes once and retries": only a
  request with `GetBody` is retried. Requests that the agent reads off a stream
  have none, so `expose --url` answers the 401 of an expired token with 502
  (`Replayable` in `Upstream`).
* `token.go:69` "prints a fresh token": nothing makes a command do so, and
  `gh auth token`, the example there, prints the stored one. The one retry of
  `tokencache.go:198` then carries the token that was just refused
  (the second alternative of `RetryNotFromCache`).
* `stdiofront.go:47` "until ctx is canceled or stdin reaches EOF" and
  `run.go:50` "when the client closes stdin": the main loop posts a notification
  itself, without a timeout. While an endpoint does not answer that POST the end
  of stdin goes unnoticed, and only Ctrl-C ends the command (`MainLoopHangs` in
  `ShutdownEnds`).
* `stdiofront.go:48` "then terminates the upstream session": not one that the
  endpoint granted in an answer that was lost, or that Ctrl-C cancelled. Its id
  is unknown, and `closeSession` returns at line 374 (`lost` in `NoSessionLeft`).
* `stdiofront.go:353` "so a failed request doesn't leave the client hanging": an
  event stream that ends before the response writes nothing (`silent` in
  `RequestsAnswered` and `RepliesBeforeExit`).
* `stdiofront.go:216` "without a session id": between the clearing and the POST
  another poster may have stored a session, which the replayed `initialize`
  then carries.
* `bridge.go:117` "Close kills the child": it cancels a context, and the kill is
  another goroutine's, which the process may not live to run (`KillChild` in
  Expose).

### Bounds

Named in the modules: `MaxFaults`, `MaxTime`, `MaxRequests`, `MaxServerMsgs`,
`PipeCap`. Three connections let a replacer be replaced before it closes its
predecessor. In `relay` two connection names suffice: while the agent is on
its second connection the abandoned first can be anywhere in its handler, and
a name is used again when that returns. Three slugs against a cap of one leave room for more tenants than
`LiveOvershoot` allows two handlers. Three clock ticks with windows of one let
a counter be pruned under a handler that has not yet made its upsert, and three
requests are enough to fill the limit of one, stall and prune. One fault at each possible place covers every single lost
answer or crash; two in `oauth` let a misread key meet a restart. Pipes of one
message make writers block. Two token generations let a refresh token be spent
and its successor stored; the safety invariants of `tokencache` also hold with
three (3.5 million states, by setting `MaxTokens = 3`). Three sessions and two
faults let both posters re-initialise at once. The proofs below remove the bounds for the
properties they cover.

`CHECK_DEADLOCK FALSE` is used where the system may really stop: when the
bounds are used up and the clock stands still, when the bridge's posts are
done or it panicked, when the agent has stopped, when a command has ended. `gateway` is checked for
deadlock.

Symmetry is used for sets of interchangeable model values and only in runs
without temporal properties.

### Fairness

* `Relay`: weak fairness of every handler of the gateway, with yamux's keepalive
  (which closes a session whose peer is gone), of the agent's loop with its
  timers, of each proxy handler and each stream handler. The upstream answers
  or fails: the agent sets no timeout on it. No fault, stop, deletion or
  request is forced, and no client has to leave.
* `ControlPlane`: the janitor's ticker keeps firing and its loop runs. Requests
  need not proceed.
* `Bridge`: Go's mutex does not starve a waiter, hence strong fairness of
  handlers, read loop and exit goroutine; the child keeps reading while it has
  not `ChildConc` requests in hand, and answering while there is room in its
  output pipe. Clients need not leave, the child need not exit. A behaviour has
  finitely many of these steps, so that one condition for all of them
  (`Progress`) is as strong as one for each.
* `TokenCache`: some request that can go on does (`Progress`); each takes finitely
  many steps, so this brings every one forward that is not stuck behind the
  mutex. The token endpoint answers or runs into the client's 30 s; a token
  command and the upstream have no timeout and are assumed to end.
* `StdioFront`: main loop, posters and stream run, and an endpoint that has not
  been made to `Hang` answers. Nobody has to close stdin or cancel. Main loop and
  posters take finitely many steps and share one condition; the stream, which
  may retry for ever, has its own.
* `Expose`: goroutines run, time passes, and the DELETE is answered or fails:
  `deleteTunnel` has no timeout and a second Ctrl-C is swallowed, so with a
  tunneld that accepts the connection and never answers the command would
  not end. `InterruptEnds` rests on that assumption.

## 4. Proofs

The proofs are checked by TLAPS and hold for all values of the constants
allowed by the modules' assumptions: the no-value constants are not members of
the sets they stand outside of, bounds are naturals, and, where something is
counted, `Slugs` and `Reqs` are finite. Every safety invariant, action property
and refinement that a passing run checks has a theorem. Each inductive
invariant was checked by TLC under the constants of its component's run before
it was proved.

**GatewayProofs.** `TypeCorrect`, `OwnedEntries`, `NoOrphans`, `StreamRouting`
and the action property `NoEviction`. The inductive invariant `IInv` adds to
the properties themselves that an open session has a handler that will see it
close (`OpenHasHandler`), and that a `Dial` between lookup and end holds a
session (`HeldSession`). The first is what makes `EntryHasOwner` survive
`Arrive`: a name is reused only when its handler is idle, so it can be neither
registered nor open.

**ControlPlaneProofs.** `TypeCorrect`, `ReferentialIntegrity`
(`NoOrphanRows`), `Overshoot` (`LiveOvershoot`), `RateLimitHolds`
(`RateOvershoot`) and `AnswersAreTrue` (`AnsweredTunnelIsComplete`).
`LiveOvershoot` is not inductive; `LiveBound` is: live tenants plus handlers
that have passed the capacity test and not yet inserted. The test moves a
handler into that sum only when fewer tenants than the cap are live and at most
all other handlers are in it; an insertion moves one unit from the handlers to
the tenants; the clock, deletions and crashes only lower it. For the rate
limit, `CounterCovers` says that a counter is at least the requests it
admitted plus those between upsert and read-back, so that an admitted reader saw
a count within the limit that covers all admissions and itself; or that its
window is long over, and the requests it admitted plus those still inside
`QuickRateHit` stay within the overshoot. The step from the first to the second
is the prune: the handler that prunes read a later window (`WindowsRead`), hence
is not one of those still inside, and nobody can join them any more, since a
new request reads the window of the clock.
`InFlight` carries what a creation knows of its tenant from one statement to
the next.

**OAuthProofs.** `TypeCorrect`, `SingleUseCodes` (`CodeRedeemedOnce`),
`GatedAccess` (`GatedAccessTraceable`), `ReferentialIntegrity`
(`NoOrphanRows`), `KeysAgree` (`CachedKeyIsStored`) and `ExpiryAgrees`
(`TokenDiesWithTenant`). The invariant `SingleUse` says that a claimed code is held by one handler and has
yielded nothing yet (`ClaimedOnce`), and that a code which is claimed or has
yielded a token was delivered, hence is never drawn again, and is marked used
in its row (`SpentForGood`); with the primary key (`CodeIdIsKey`) a claimable
code is therefore not spent. The type invariant needs `ClaimedHasServer`: the
server that runs a token handler stays cached until the handler is gone.

`Traceability` follows an approval from the authorize handler to the code
(`OpenApprovals`), from the code to its row and its token (`RowsMatchGate`),
and from the token to the request (`GatedRequests`). It has to hold although
tenants come and go under all of these: an approval for lack of a password
only ever concerns a service that is not gated, and since a slug is not drawn
again while a code or a handler refers to it, such a slug cannot become gated
later. `GeneratesWhenAbsent` says that `NewServer` is about to generate a key
only when the store has none, or when the read had failed; `CachedExpiry` that
the expiry a server is cached with, or about to be, is the row's. `IInv`, the
conjunction of all these, was first checked by TLC as an invariant under
`OAuth.cfg`'s constants.

**RelayProofs.** `RelayRefinesExchange` is the refinement, step by step:
`RelaySpec` implements `Exchange` under `Seen`. `RelayInv` adds two facts to the
types and to Gateway's `IInv`. `Streams` relates the proxy's side of a request
to the agent's (a request that is idle or only gated has no stream, and one
whose dial has not opened a stream has none either), so that a stream is opened
once. `Runs` says that nothing has run before `Do` and that a handler with
an outcome to report has run its request once. With them, `Do` is
Exchange's run or a stutter, `Reply`, `BadGateway` and a departing client end one request, a
restart of tunneld fails all that are pending, and whatever else agents and
links do is a stutter. `RelayTypeCorrect` includes that the backoff stays
between `InitialBackoff` and `MaxBackoff`. `RegistryInRelay` carries `EntryHasOwner`,
`NoOrphanSession` and `StreamReachesDialedKey` over to the composed system:
Tunnel's handlers take Gateway's steps, and a restart, which Gateway does not
have, clears the registry and the handlers together.

**BridgeProofs.** `MapInv` holds whatever ids are in use: an entry of `pending`
is under its owner's id and its owner has still to run its deferred delete
(`EntriesOwned`), and the channel that the read loop holds after a lookup
belongs to a request with the id of its line (`LookedUp`). It gives
`EntriesAreLive` (`NoStaleRegistration`) and `BridgeTypeCorrect`. The next three
theorems need what the code does not enforce, and say so as hypotheses rather
than assumptions of the module: that no two requests share an id
(`DistinctRequestIds`), and that the child's own ids are not the clients'
(`OwnServerIds`). Run `bridge_ids` shows what happens without the first; the
instance of run `bridge` satisfies both. `WaitersAreReachable`
(`WaiterReachable`) is inductive only from the registration on
(`StaysRegistered`), not from the wait. `AnswersMatch`
(`ResponseMatchesRequest`) needs that what sits in a channel is its owner's
answer (`OwnAnswers`). `DeliveryNeverBlocks` shows that the read loop's send
finds its one-slot channel empty, although the handler may have left: a request, and then its
answer, is in one place at a time in stdin, child, stdout, read loop and
channel (`OneAnswer`). `WritesAreExclusive` shows that `s.mu` keeps two messages
from mixing on stdin. `PanicsOnlyAfterSweep` says when the panic of run
`bridge_panic` can happen: only after the child was reaped and the exit
goroutine has closed the channels. `DeadlockNeedsExit` says of `CircularWait`
that only the child's exit ends it.

**TokenCacheProofs.** `FileStaysRefreshable` (`RestartCanRefresh`),
`MutexPreventsSelfRefusal` (`NoSelfRefusal`), `RetryAsksAgain`
(`RetryNotFromCache`) and `CacheTypeCorrect`. The argument: the mutex is held
by exactly the request that works under it (`Locks`). A refresh token that is
not saved yet is known to no process but the one of the request that got it
(`Secrets`), so nobody else can have spent it, and the server still takes it
when it is saved. A spent token in the file therefore has a successor that is
about to be saved or was lost (`FileRefreshable`); one in a process's memory was
spent by another process, or its successor was lost or is about to be applied
(`OwnTokens`). `Rotation` separates the two kinds of server, and `AccessOrder`
says that what a refresh is granted is younger than what was refused.

**StdioFrontProofs.** `RepliesPrecedeExit` (`RepliesBeforeExit`),
`SessionsAreClosed` (`NoSessionLeft`) and `FrontTypeCorrect`, for any script.
The wait group counts exactly the requests in progress (`Counted`), the lines
before `next` and no others have been taken (`Taken`), and a request has its
one answer when it ends (`AnsweredOnce`); so an empty wait group means that
everything taken was answered. A session the endpoint knows is the current one,
is in `dropped` or `lost`, or is held by the message that was granted it and has
still to store it (`SessionsHeld`), and no such message is left after a complete drain.

**ExposeProofs.** `TunnelDeletedOnExit` (`ExitDeletes`). Expose has no
parameters, so the run `expose` covers the same states; the proof says what the
property rests on. From the select on, the POST has been answered, so no row
appears late, and the DELETE is on the stack of deferred calls until it is made
(`Announced`); the stack is empty when the command has returned (`StackOK`).

Only model-checked are the liveness properties, since the prover reasons about
neither fairness nor `ENABLED`: `GatedRequestsEnd`, `EventuallyServed`,
`StoppedGoesOffline`, `AbandonedHandlersReturn`, `ExpiredEventuallySwept`,
`ExitEndsHandlers`, `RequestsComplete`, `RequestsEnd`, `RequestsAnswered`,
`ShutdownEnds`, `StreamFollowsSession`, `InterruptEnds` and `TunnelGoes`.

## 5. Not modelled

* HTTP and websocket framing, body limits, headers, JSON and HTML, logging.
* Cryptography beyond "a signature verifies with its own key": keys, codes,
  slugs and client ids are distinct values, hashes are free of collisions.
* The in-memory per-IP limiter of `internal/oauth`, the metadata documents.
* Opening and migrating the database, flags and configuration, TLS, the route
  table, the rewriting of client addresses.
* Of `token`, the listing; of `tokencache`, the mapping of URLs to file names;
  of `cli`, everything but the call that creates a tunnel.
* The graceful drain of tunneld: it only lets handlers finish, and a restart at
  any point covers what it leaves behind.
* Request and response bodies: a response cut short counts as a failure, and
  the body limits of proxy and bridge as refusals.

## 6. Plan

Done: `Gateway`, `Tunnel`, `Relay` with `Exchange`, `Store`, `ControlPlane`,
`OAuth`, `Bridge`, `TokenCache`, `StdioFront` and `Expose`, with the proofs
above.

Left:

1. Safety facts that the liveness properties rest on, as theorems: that a
   waiting party always has somebody who will move it (in `Relay`, a request
   past the gate has a dial, a stream or a session that can end; in `StdioFront`,
   a drain has a poster or its limit).
2. The limiter of `internal/oauth/register.go` as a bounded-window counter.
