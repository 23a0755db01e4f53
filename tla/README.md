# TLA+ specifications of podsh

podsh is an SSH server in front of a Kubernetes cluster. A client logs in with a public key
and the name of a deployment as its login name; podsh resolves the name to a pod, and serves
shells, commands, SFTP and port forwards in that pod. This directory models the parts of it
in which goroutines, timers, several processes and failures meet, checks the models with TLC
and proves with TLAPS the safety of all of them, that both limiters implement a leaky bucket,
and that the connection and the listener implement a task group. Pure functions are checked
against references.

`PROJECT.json` lists the components, the runs, the source lines behind every definition, the
hazards the properties are aimed at and the theorems.

## 1. The system

A connection passes through the parts in this order:

    listener -> rate limiter -> (tarpit | Handle)
    Handle: handshake -> identity -> channel loop -> session goroutines, forward goroutines
    session: request loop + worker -> shell / exec / sftp handler -> pod
    forward: tunnel (one per destination) -> streams -> pod
    syncdb (another process): MongoDB -> Redis -> authenticator of the handshake

| Component (source) | State | Operations | Meets the others through | What makes it correct |
|---|---|---|---|---|
| Session channel (`internal/sshd/connector.go`, `handleSessionCh`) | four Go channels, a child context, the 2 s timer | requests pty-req, window-change, env, shell, exec, subsystem; pick, resolve, stream, end | shares the channels between request loop and worker; holds a slot of the connection's group | exit statuses tell the truth; the loop is stuck only for a client that sends too much; every other session ends |
| Connection (`Handle`) | goroutine group of 10, map of tunnels, identity | handshake, channel loop, OpenTunnel, TryGo, Close, eg.Wait | starts sessions and forwards; returns to the listener's group | only permitted identities are served; nothing of the group outlives Handle; Handle returns |
| Tunnel (`internal/k8s/forward_manager.go`) | `activeStreams`, `reqID`, `closed`, gauges | Forward, closeAll, Close | one tunnel, many Forward calls, closed by Handle | calls do not disturb each other; no stream leaks; the gauge is exact; calls end |
| SFTP agent (`internal/k8s/sftp.go`, `agent.go`) | the pod's ephemeral container and its status | read pod, patch, poll, exec | all sessions of a pod share its agent; kubelet and owner act in between | one agent, streams only once it has been running; nobody waits for a dead one |
| Redis limiter (`internal/ratelimit/redis_limiter.go`, `gcra.lua`) | one arrival time with a ttl per key | Allow | replicas with their own clocks share the entry | rate bound in every window; truthful RetryAfter; implements the leaky bucket |
| In-memory limiter (`mono_limiter.go`) | a token bucket per key | Allow | callers read the clock, then take a mutex | follows the ideal bucket; implements the leaky bucket; denials are brief |
| Listener, tarpit, Start (`internal/sshd/listen.go`, `internal/tarpit/tarpit.go`, `internal/server/server.go`, `pkg/metrics/server.go`) | queue of 1000, semaphore of 10, an errgroup, the probe server | bind, Accept, Add, run, delay, shutdown, exit | acceptor feeds queue and handlers | a denied connection is closed; a cancelled process exits unless a handler is stuck |
| Identity sync (`internal/workers/syncdb`, `internal/auth/redisImpl.go`) | entries of Redis with a ttl | a pass per tick; Authenticate | MongoDB, Redis, the login | a revoked key stops working in bounded time; a valid one has no gap |
| Start-up (`cmd/podsh/root.go`, `internal/profiles`, `internal/k8s/validate`, `internal/server`, `pkg/metrics/prometheus.go`, `internal/metrics`) | metrics registries, who uses which, the cluster's permissions | Get, Config, ValidatePermissions, Register*, New, Start; Counter, Gauge | hands the registry to sshd, the handler and the probe server | what is registered and asked for covers what requests use; a scrape reads what was counted |
| Command splitting (`splitArgs` of `internal/k8s/shell.go`) | none | splitArgs | exec requests | words are cut where quotes allow, nothing is lost, a script is one argument |
| Rate-limit key (`internal/ratelimit/key.go`) | none | FromConn | the limiters' keys | one bucket per IPv4 host or IPv6 /64 |
| getsh (`cmd/getsh/main.go`) | none | main | run in a container image | what it prints can be run |

Hard behaviours: two goroutines on unbuffered and bounded Go channels; a timer that races a
request; check and use in different critical sections; clean-up that runs in whichever
goroutine comes first; bounded queues and groups at their limit; entries that expire while
several clocks disagree; passes that read a collection while it changes; a process that stops
in the middle of a pass; read-then-patch on a shared pod.

## 2. Modules

Each module `M` has its instance `MCM` and its `.cfg` files; the three modules of pure functions
share `MCPure`; `LeakyBucket` is checked as a property of the limiters, and `TaskGroup` of Connector
and Admission. Definitions whose comment begins
with "Mutant:" are not part of a specification: they are wrong versions of a definition, used
to make sure that a property notices such a bug.

**Session.** `loop` is the goroutine in the request loop (a kind of request names the case of
the switch it is in), `worker` the one that picks and runs a program. `shell` and `sftp` say
whether these Go channels are closed, `execq` and `resizeq` count what is buffered. A send on
a full Go channel is an action that is not enabled, so the loop stays in its case; the close
of a closed channel is the state `"panic"`, in which no goroutine of the process steps.
`TakeRequest` .. `ReplyOnly` are the cases of the switch, `SeeCancel`, `SeeClosed` and `Return`
the ends of the loop with the exit-status that the caller sends, `Pick*` the worker's select,
`GiveUp` its timer and context cases, `StartStream`, `FailResolve` and `EndStream` the handlers of `internal/k8s`. A handler is
"resolve, then stream until it ends"; the terminal-size goroutine of a shell's stream is
`TakeResize`, the reader of `resizeCh`; as nobody closes that channel, it is never over. `Overdrawn`
names what a client has to send before the loop can park or panic: more resizes than the channel
holds, a second exec or a second sftp.

**ForwardManager.** `pc[c]` walks through `Forward`: `Check` (first critical section),
`Number` (atomic counter), `OpenStreams`/`FailStreams` (second critical section), `Start`,
`Select`, `Teardown` and `Uncount` (`closeAll` under its `sync.Once`, by the call or by the
watcher of the context), `Return`. `Close` empties the map, closes the connection and lowers
the tunnel gauge. A failed `CreateStream` for the data stream removes the error stream under
the same lock, so the pair is opened or not in one step. The SPDY connection closes
gracefully: a stream opened just after `Close` may succeed or fail, and both are possible.
`Lose` is the death of the connection to the pod, which nobody is told of: streams then end, new
ones fail, and Handle goes on reusing the tunnel.

**Connector.** `phase` is where `Handle` is; a channel is unopened, pending, running, parked,
rejected or closed. The goroutines of channels only run and end here: `Session` and `ForwardManager`
say what they do, and their liveness properties (`SessionEnds`, `CallsEnd`) justify the
fairness assumed of `EndChannel`. `SessionEnds` leaves out the clients that overdraw: their
sessions may `Park` at any time, and a parked channel keeps its slot for ever. `DialStep` is the answer
to a dial, which nothing bounds. Identities are reduced to "there is a user id" and "there is
a requested host"; `Decoded` is what the wire form of `identity_codec.go` keeps.

**RedisLimiter.** One key. A caller's reading of its clock, its ARGV[3], is any value within
`Skew` of Redis' clock: that covers clock difference, latency and reordering. `Grant`/`Deny`
are the script; an entry whose ttl has passed reads as none. `since`, `granted` and `promise`
observe and influence nothing. Numbers are whole units of time: the script computes with doubles,
whose rounding of a nanosecond epoch (256 ns) is far below an interval and is left out.

**MonoLimiter.** One key. The only caller of the program is the acceptor goroutine, which makes one
call at a time; the model allows what the mutex allows, any number of callers. Tokens are counted in time units, so fractions of a token are
integers. The clock is read before the mutex is taken: a caller decides with any reading of the
last `Delay` units, so readings come out of order and `last` may be in a caller's future.
`ideal` is the reference: a bucket that is refilled continuously.

**LeakyBucket.** What a limiter promises for one key, whatever its algorithm: a grant pours
`Cost` units into a bucket of `Capacity`, which leaks one unit per unit of time. Both limiters
refine it:

| | level | Capacity |
|---|---|---|
| RedisLimiter | `tat + Skew - now`, at least 0 | `Burst*Interval + 2*Skew` |
| MonoLimiter | `Full - ideal` | `Full + (Interval - 1) + Delay` |

The capacities are what the code really grants: the Redis limiter may be misled by two clocks
in opposite directions, the in-memory one by almost a token that it has not yet turned into
credit and by the oldest reading. `BucketBoundsRate` says what the capacity means: a bound on
the connections of every window.

**Admission.** `at[c]` says who has connection c; `jobs` is the tarpit's queue, `run` its run
loop, `sem` its semaphore. Refuse, Deny and StartHandler are the outcomes of the acceptor's
decision; which of them is taken is the limiter's business. After Deny the acceptor has to get
the connection off its hands with the tarpit's `Add`, which must not block. `firstErr` is what
`eg.Wait` will return. `serve` begins with the bind; `probe` is the HTTP server that `Start` runs
beside the SSH server; `Exit` is the return of `Start`, `RunE` and main, with which every
connection still held is closed by the system. That main ends when its function returns is
assumed of the interrupt library. A handler may get `"stuck"` (`Stick`): one of its sessions is
parked, or its dial has no answer, and only the end of the process would close its connection.

**TaskGroup.** What an errgroup is used for: an owner opens a group, tasks start in it up to a
limit, each at most once, and the owner returns when none is left; a task that is turned away
never starts, and nothing starts once the group drains. It has two implementations:

| | Tasks, Limit | idle | open | draining | closed | fresh | running | over |
|---|---|---|---|---|---|---|---|---|
| Connector | channels, `Cap` | handshake | loop, dial, spawn | close, wait | returned | unopened, pending | running, parked | rejected, closed |
| Admission | connections, their number | bind | acceptor runs | acceptor exited | returned | client, deciding | handler, stuck | denied to closed |

Admission's group stays open after `eg.Wait` was called: the acceptor is one of the goroutines that
`Wait` waits for, and starts a handler for the connection it was deciding when the listener
closed. That is why `draining` is the end of the acceptor and not the call of `Wait`.

**IdentitySync.** `todo` holds the pairs a pass has still to store. A change during a pass may
or may not be seen by it, since the cursor reads in batches. `Skip` is a document or key that
fails, `CutShort` an error of the cursor (which the code treats as its end), `FailFind` an
error of Find, which ends the process. `left`, `steady`, `clean`, `settled` are history.

**Agent.** Several `HandleSFTP` calls for one pod. `Patch` is a strategic merge patch, which
merges containers by name. A container that terminated without a reason (`"blank"`) does not
end the wait, as in `waitForAgentReady`. A container may end without ever running, so its status
does not tell whether it ran; `ran` is history and remembers it. The kubelet and the API server are external.

**Startup.** `phase` walks through `RunE`: `Get`, the steps of the profile's `Config`, one
`Permit` per required permission, the registration loops (in any order, as a Go map is ranged
over), `New`, `Start`. A registry is two maps: `held` is what a lookup by name finds, `exported`
what a scrape reads; both point to collectors with a value. `wired` says which registry sshd,
the handler and the probe server got on their three paths. `LogIn`, `Begin` and `End` are the
uses by requests; a lookup that would panic, or a call that the cluster would refuse, is
recorded in `missing`. What the cluster grants is any set, fixed for a run.

**SplitArgs, RateKey, GetSh.** Operators with the source's names. Characters are symbols, an
address is a sequence of words, a file tree is a set of executable paths and a passwd file. The
references are of another shape than the code: cuts at spaces with an even number of quotes
before them, the host behind an address, the set of runnable shells.

Composition is by assumption and guarantee: Admission assumes of a handler what `HandleReturns`
states, Connector assumes of its goroutines what `SessionEnds` and `CallsEnd` state, and the
fairness conditions name exactly these, exceptions included. A session of an overdrawn client may
never end (`Overdrawn`), so a channel of Connector may park; a Handle with a parked channel, or with a dial
that is not answered, may never return, so a handler of Admission may be stuck; and a process with a
stuck handler may never exit. Each level says what holds all the same: the parked session does
not keep the tunnels open (`TunnelsReleased`), the stuck handler keeps no connection in the tarpit's queue or
hands but those that were there when the run loop stopped (`DeniedIsClosed`).

## 3. Runs

| Run | Instance | Shows |
|---|---|---|
| `session` | resizeCh of 2; three resizes, two shells, execs and sftps, one other request | statuses, the loop is stuck only for an overdrawn client, every other session ends |
| `session_resize` (violation) | three resizes, nothing else | a session that timed out never ends |
| `forward` | three calls | streams, gauge, every call ends |
| `connector` | three channels, two destinations, three slots | identity gate, slots, tunnels, the task group, Handle returns unless a session is parked or a dial hangs |
| `redis_limiter` | interval 3, burst 2, skew 1, tightest ttl, 22 units of time | rate bound, RetryAfter, the debt is kept, the leaky bucket |
| `mono_limiter` | interval 3, burst 2, ttl 7, delay 2, 22 units | tracks the ideal bucket, denials are brief, the leaky bucket |
| `admission` | four connections, queue of 1, one worker | tarpit, the task group, shutdown, exit unless a handler is stuck |
| `identity_sync` | a shared key and a key of one user, interval 2, slack 2, pass 1, two changes, 9 units | revocation bound, no revival, no gap |
| `agent` | three sessions | one agent, streams only after it has been running, nobody waits for a dead agent |
| `startup` | both profiles and an unknown one, every set of permissions, four requests | metrics and permissions suffice, scrapes agree |
| `pure` | lines of up to 7 symbols, 2 passwd lines, all pairs of 80 addresses | splitArgs, getsh and the key agree with their references |
| `getsh_root` (violation) | the same images | getsh ignores its root |

Why the bounds are enough. Queue and group sizes (8, 10, 1000, 10) only matter for being
reached; with 2, 3, 1 and 1 the full, the empty and, for resizeCh and the group, an intermediate
state occur, and there are more clients than room. Three calls on a tunnel give every pair of
critical sections with a third call around them. Three units per interval are the fewest that
distinguish "a third" and "two thirds of a token". The redis run uses the smallest ttl the
assumption allows, `Burst*Interval + 2*Skew`, so that expiry happens at the worst moment; the
horizon of 22 is three times the time of a full burst. The defaults (rate 1.2, burst 12, ttl
30 s) satisfy the assumption for any skew up to 10 s: 10 s of debt and two skews. In
IdentitySync two changes are a key that leaves and comes back or that moves to another user, and
the horizon spans two passes and an expiry. They leave room for a pass, a
revocation, a restart and a later pass after the entry expired, which is where a revoked key could
come back (`NoRevival`). In `mono_limiter` a delay of 2 is more than half an
interval, so that an old reading moves a refill. Seven symbols are the fewest for `sh -c` with
two words behind it and a space between each two. Four requests are a tunnel, its stream and two
more. Deadlock is not checked where a connection, a session or a clock of bounded length may
simply be over; that nothing stops too early is what the liveness properties say.

### Disagreements found

* `session_resize`: the request loop sends on `resizeCh` outside a select. Without a shell
  nobody reads it, and the send after the last free place parks the loop for ever, although
  the worker has returned `ErrSessionTimeout`. Not even the server context ends it, so
  Handle's `eg.Wait`, ListenAndServe and the process wait for it too. `session` shows that nothing
  less than that, a second exec or a second sftp stops a session (`LoopNeverStuck`, `SessionEnds`).
* `getsh_root`: `root = strings.TrimSuffix(root, "/")` trims the variable instead of the
  argument, so the root stays empty and everything is looked up in the tree getsh runs in. In
  the same function the SHELL of the process counts only when it is empty, so the environment
  never decides; `ShellCorrect` holds all the same, as passwd and the well-known shells follow.

Two things that look like disagreements and are harmless: a `Forward` call that checked `closed`
before `Close` registers its streams after it, but removes them itself (`NoStreamLeak`); and the
RetryAfter of the in-memory limiter can be short, by less than an interval and one wait for the
mutex (`DenialIsBrief`).

## 4. Fairness

Weak fairness of goroutines that can step (the Go scheduler), of timers, and of operations that
the code or a library bounds: the handshake's 10 s deadline, `CreateStream`. A handler
whose context is done returns (client-go and the SPDY executor observe it). A copy from a
connection that is gone, the client's or the pod's, ends. Nothing is assumed about requests to the
probe server, about programs in the pod while the context is live, about the kubelet, or about
the limiter's verdict.

Clients and the API server are not assumed to behave either, but what they can hold up is not
promised. A client that overdraws may park a session: `SessionEnds` speaks of the others,
`HandleReturns` of connections without a parked session. The dial of a tunnel has neither a context
nor a timeout: `DialStep` has no fairness, and `TunnelsReleased` and `HandleReturns` have `DialsAnswered` as
their premise. `ProcessExits` and `DeniedIsClosed` except a stuck handler, which is either of the two. So a
cancelled process is shown to exit only when its clients stay within what a session absorbs and its
dials are answered. No strong fairness is used. The limiter and sync modules
have no liveness properties and no fairness: their properties are bounds in time.

## 5. Proofs

Every invariant, action property and refinement that a run of section 3 checks of a state machine
is also a theorem, for every value of the constants that the modules' assumptions allow and for
behaviours of any length. The types of the limiters' and the agent's states and `NeverReturnsNil`
(ListenAndServe ends with an error on every path, so that Start never waits for the probe server)
are only proved, which says more than a run. Each proof module has the same shape: the parts of an
inductive invariant, one lemma per part (or group of parts) that goes through the actions, and the
theorems.

**SessionProofs**: `TypeCorrect`, `ZeroStatusCorrect`, `StatusesCorrect`, `NeverStuck`.
`LoopNeverStuck` is not inductive: `CountsOK` adds that every buffered event or command was sent
(and that a closed sftp channel means a request was), so that a full channel and the request in
hand are one request more than the capacity. The status theorems need `StatusOK`: what has been
sent is fixed by the worker's outcome, and by the way in which the loop returned.

**ForwardManagerProofs**: `TypeCorrect`, `HoldersCorrect`, `NoLeak`, `GaugeCorrect`, for any
finite set of calls. The invariant joins `IdsOK` (ids are at most `reqID` and distinct),
`OnceOK` (where `closeAll` may have run), and `OwnedOK` (every registered stream belongs to a
call that still holds it). Without `IdsOK` one call's clean-up could delete another's
streams; without `OwnedOK` nothing says a returned call's streams are gone. The gauge argument uses
the cardinality facts of FiniteSetTheorems.

**RedisLimiterProofs**: `TypeCorrect`, `RateCorrect`, `RetryCorrect`, `DebtCorrect`, for all
intervals, bursts, skews and ttls that satisfy `LimiterAssumption`. `MemoryOK` states that an
entry outlives the debt it records on every caller's clock, `ChargeOK` that each grant of
the window pushed the arrival time by an interval, `PromiseOK`
that a denial's promise is not before the stored debt leaves room for a connection.
`ImplementsBucket` proves the refinement: with `MemoryOK` an expired entry maps to an empty
bucket, so that expiry is invisible in the abstract state, and a grant raises the level by at
least an interval because the new arrival time is the later of the clock and the debt.
Beside them stands `KeysAgreeForAll`, about the keys that the limiter counts: for any two remote
addresses, sequences of any length and any words, `KeysAgree` holds. `AddressKinds` gives the
key of each of the four kinds of address, `KeyIsClient` compares two of them pairwise.

**MonoLimiterProofs**: `TypeCorrect`, `TracksCorrect`, `DenialCorrect`, `ImplementsBucket`,
`RateCorrect`, for every interval, burst, ttl and wait that satisfy `MonoAssumption`. The tokens
that are counted and the time not yet turned into tokens are one quantity, `Raw`. `NotBehind`
bounds it from below by the ideal bucket, `NotAhead` from above. `TracksIdeal` speaks only of a
caller that reads the clock now; the two bounds are what a grant with an older reading
preserves. `ClockOK` keeps the oldest reading a time, `PromiseOK` ties a denial's promise to the
entry that the caller will find. The refinement needs `NotAhead` (a grant finds a token in a bucket
that is ahead by less than a token and a wait, so the level stays within the capacity) and
`NotBehind` (a tick leaks at the cap). `RateCorrect` comes from `Accounted`: what the window was
granted is missing from the ideal bucket or was refilled since.

**ConnectorProofs**: `TypeCorrect`, `SlotsCorrect`, `ServedCorrect`, `ReleasesCorrect`, for any finite
set of channels, any destinations and any limit. `FreshOK` and `GateOK` carry the outcome of the
handshake and the gate through the phases in which Handle serves. `PendingOK` says that at most
one channel is in Handle's hands, and in which phase; without its uniqueness two
channels could be started for one slot. `TunnelsOK` says that every open tunnel is in the map
of forwards, so that closing the map closes them all; `ReturnOK` that the group was waited for.
`SlotsExact` is part of the invariant, as a goroutine that ends needs a slot to give back.
`ImplementsGroup` is the refinement of TaskGroup, action by action: `MoveTask` says that a channel
that changes hands is the only task that changes, `SlotsExact` that a free slot means fewer than
`Cap` running channels, and that no slot taken (`eg.Wait`) means none; a channel that parks is a
task that goes on running.

**AdmissionProofs**: `TypeCorrect`, `TarpitCorrect`, `ErrorReported`, `ImplementsGroup`, for any
finite set of connections, any queue and any number of workers. `QueueOK` adds to `TarpitExact`
that no connection is queued twice: otherwise taking the head would leave it queued. `HandOK` says
that the run loop holds at most one connection, which is then the one it gives to a worker. The
lemmas `AppendFacts` and `TailFacts` state what joining and leaving a queue without duplicates do
to its set. `AcceptorOK` says that the acceptor has at most one undecided connection in its hands,
none when it accepts, and that it exits only with an error; `ServeOK` that the server has no
connection before it listens, and neither acceptor nor handlers when it returns. They give
`NeverReturnsNil`, on which `ProcessExits` rests, and the refinement of TaskGroup: a handler
starts only from the acceptor's hands, so the group is open, and `Exit` finds nothing running or
undecided. The module also proves `BucketBoundsRate` about LeakyBucket, for any specification that
implements it: what was granted in the window is in the bucket or has leaked since the window
began.

**IdentitySyncProofs**: `TypeCorrect`, `RevocationCorrect`, `NoGapCorrect`, `NoRevivalCorrect`,
for any users, keys, interval, slack and bound on a pass that satisfy `SyncAssumption`.
- `ClockOK`: a pass begins when its tick fires and ends before the next one; a settled key was
  settled one interval ago at most.
- `TodoOK`: what a pass has still to store is in MongoDB or left it since the pass began. With `ClockOK`
  this bounds the age of what a late `Store` writes, the only step by which a key can begin to
  work. `NoRevivalCorrect` says so of every step: time, restarts and failures change what a key
  authenticates only to nobody.
- `EntryOK`: an entry whose user lost the key expires within a pass and a ttl of the loss. It
  gives `RevocationBound`.
- `StoredOK`: a key that nothing happened to since the pass began, and one of whose owners is off
  the list, was stored in this pass. It is what `EndPass` needs to settle a key.
- `SettledOK`: between passes a settled key has a whole ttl from the beginning of the last pass,
  during a pass at least the slack from the beginning of this one. It gives `NoGap`, as a pass is
  shorter than the slack.

**StartupProofs**: `NothingMissingCorrect`, `ScrapeCorrect`, for any number of requests.
`RegisteredOK` says which names each registration loop has behind it and that the registry was
handed on, `GrantedOK` which permissions were found. `CollectorsOK` says that no two names share a
collector and that the map and the Prometheus registry hold the same ones, `CountsOK` that a
collector's value is what was counted under its name; registering twice keeps both because a
name that has a collector keeps it. `RegisterFacts` and `BumpFacts` are the lemmas on which the
steps rest.

**Agent** has its theorems in ForwardManagerProofs, beside the other handler of the package, as
theorems about an instance `A` of the module: `AgentTypeCorrect` (`A!TypeOK`) and `AgentRunsFirst`
(`A!StreamAfterRunning`), for any finite set of sessions. `SftpGaugeExact` (the gauge is the
number of streams) gives the bounds of the gauge; `WaitOK` (a session that waits has seen or
patched in the container) and `RanOK` (a container whose status is running has been running) give
the order.

Assumptions: the named `ASSUME` of each module, which TLC evaluates on every run, and for the
instances `IsFiniteSet(Sessions)` and `Cost, Capacity \in Nat`. The finite sets are what the
cardinalities of gauges, slots and queues need. Among the others, `SyncAssumption` is a real
one: a pass that takes longer than its slack loses `NoGap`.

Only model-checked: the liveness properties (`SessionEnds`, `CallsEnd`, `TunnelsReleased`,
`HandleReturns`, `DeniedIsClosed`, `ProcessExits`, `SessionsSettle`), which are out of reach of the
prover, and the pure functions as the run `pure` checks them. `SplitCorrect` and `ShellCorrect` are
statements about folds and selections (`FoldLeft`, `SelectSeq`) over sequences of any length, which
need induction over data; `KeysCorrect` is `KeysAgree` on a table of addresses, which `KeysAgreeForAll`
proves for all. The disagreements of section 3 are TLC's counterexamples.

## 6. Not modelled

The change-stream syncer (`watch.go` is never selected), the generated user service, notices,
flags and the config file, histograms and the no-op metrics (nothing uses them), the agent's
binaries, the HMAC of the rate-limit key, and the content and byte order of streams.
`PROJECT.json` gives the reason for each.

Outside the models by choice: bytes still on their way back when the client has sent its last
one (`Forward` returns with the first copy that ends), and a program that ignores the end of its
input after its client is gone (it runs until the server stops). The terminal-size
goroutine that client-go starts for a shell (`shell.go:94`) reads a channel that nobody closes: it
is left behind by its session and by Handle, one per shell, and `HandleReleases` is about the
goroutines of Handle's own group. The panic of a second sftp request ends the process and is a state of
Session only: the other modules describe a process that has not panicked. The requests of a direct-tcpip
channel, which Handle never reads, wait in a buffer of the SSH library.

## 7. What is left

Every safety property, action property and refinement that a run checks of a state machine is
proved. That Connector's goroutines may be replaced by Session and ForwardManager, and Admission's
handlers by Connector, is stated in section 2 as assumption and guarantee; both sides are
liveness, and stay with TLC. So do splitArgs and getsh for inputs of any size.
