# TLA+ models of w-tools

w-tools is a Go monorepo of small infrastructure libraries. This directory
models the ones whose correctness depends on interleavings, time, failures,
crashes, or on decisions made over many inputs. TLC checks the modules on small
instances; TLAPS proves the central invariants for every value of the constants.

Run from this directory, one line per kind of artefact:

    tlc -workers 2 -config MigratorRuns.cfg MCMigrator    # a model-checking run
    tlapm MigratorProofs.tla                              # the proofs of a module

`PROJECT.json` holds the exact correspondence: the lines behind every
definition, the runs, the mutants that show that each property can fail, the
hazards and the findings.

## The system

| Part | State it keeps | Operations | Interacts with | Hard behaviours |
| --- | --- | --- | --- | --- |
| `x/circuitbreaker` | state, ring of buckets, half-open slots | Allow, Record, RoundTrip, OnStateChange | wraps any http.RoundTripper, used by `httpx/client` | results that arrive after a transition, rotation of the ring, callbacks after the unlock, panics |
| `x/sshx` pool | per connection: state, client, error, closed flag, redial token; pool: connections, dial semaphore | Add, Close, the maintenance loop, command users | `x/sshx` client (dial, ping, close) | four kinds of goroutine on one lock, a token sent after the unlock, Close against everything |
| `httpx/middleware` idempotency, memory store | a record per key with an expiry | SetNX, Get, Set, Delete; claim, replay, store, release | the handler behind it, a Store that may be remote | expiry while a handler runs, store calls whose answer is lost, capacity |
| `httpx/middleware` rate limit | a token bucket per key | Allow, evict | every request | the clock is read before the mutex, capacity |
| `cli/migrationx` runner | history table, schema, database locks | Up, UpByOne, UpTo, Down, DownTo, Status, Version | two SQL dialects, `cli` commands | concurrent deploys, failure or death between statements, implicit commits, operator repair |
| `cli/migrationx` loader, merge, scanner, create, command | files | Merge, New, Create, the migrate tree | `cli`, runner | quoting, duplicate versions, a pair half written |
| `x/sshx` host keys | known_hosts file, a mutex | strict check, trust on first use | ssh dial | two first contacts racing to pin, a pin cut off |
| `x/sshx` client, exec, session | one ssh connection, its keepalive | dial, ping, run, shell, wait, close | host keys, pool | cancellation at every point, black holes |
| `httpx` server, router | chain, handler, listener | Use, Run, Group, handlers | middleware | cancel against start, drain and grace |
| `httpx` bind, render, respond, errors | none | decode and encode | handlers | - |
| `httpx/client` | none | Do, body capture, logging | breaker, logger | partial bodies, a call that must be told to the breaker |
| other middlewares | buffer pool | recover, request id, trace, logger, CORS, real IP, body limit, headers | server, each other | order of the chain, panics on the way up, header trust |
| `cli` | flags, environment, config files | LoadDotEnv, execute, resolve, bind, help | migrate command | precedence of sources, parsing level by level |
| `logger` | redaction rules | process, sanitize, mask | every package | nesting, values that resolve or panic |
| `x/hasher`, `x/sshx/keys` | none | hash, verify, generate | - | - |

What makes the modelled parts correct:

- breaker: half-open lets in a bounded number of attempts, every slot taken is
  held by a running attempt, an open circuit probes again and a half-open one
  decides, the ring counts exactly the results of the window, no notice is lost;
- pool: Ready means that this very client is being served, no client or dial
  slot leaks, Closed is final and stops the loop, a broken connection heals;
- idempotency: a key is executed at most once within the TTL, a replay is the
  response of that key and request, capacity never costs a live claim;
- rate limit: no bucket gives more than burst and refill, memory is bounded,
  evicting an idle key gives it nothing (a key evicted for room among the coldest
  starts over with a full burst), Retry-After is late enough;
- ssh: one question per host whatever races, no key accepted that was not
  agreed to, errors name the stage that decided, nothing waits for ever;
- requests: every response, log line, forwarded header and outbound call is what
  the middleware documentation says, whichever gate, panic or status made it;
- server: a cancelled Run drains what it accepted, within its grace;
- cli: Run sees the first layer that supplies each value, errors name no secret,
  and nothing ambiguous starts;
- migration files: New accepts exactly the well formed sets and splits scripts at
  the semicolons outside quotes, comments and regions, a comment being what the
  scanner takes for one; Create writes pairs;
- migrations: the history table tells the truth, no script is executed twice or
  over a half-done one, a dirty version stops every run, runs are ordered.

## Modules

Each component has a module with its state machine and an `MC` module that adds
symmetry sets or lists the inputs for TLC; eight have a proofs module. Which
module builds on which:

    HostKeys <- SSHClient <- MCSsh
    LogValue <- Outbound <- Middleware <- Server <- ServerLogs <- MCServer
    LogValue <- Redaction <----------------------- ServerLogs
    RealIP   <------------- Middleware
    Scanner <- MigrationFiles <- Migrate <- MCCli
    Cli     <------------------- Migrate
    OncePerKey <- Idempotency       (a refinement)

**`Breaker`** (circuitbreaker.go). Every method runs under `Breaker.mu`, so a
method body is one action: `AllowClosed`, `AllowOpen`, `AllowHalfOpen`,
`RecordClosed`, `RecordProbeSuccess`, `RecordProbeFailure`, `RecordLate`. What
interleaves are the callers (`call`), time (`clock`) and the callbacks
(`fired`, delivered by `Fire` after the unlock). `RoundTripPanics` is the path
on which the base RoundTripper panics and Record is never called. The failure
ratio is a fraction of naturals. `era`, `admitted`, `history` and `seen` are
auxiliary.

**`Pool`** (pool.go, and the keepalive of client.go). One action per critical
section, channel operation or blocking call: the loop goes through `dial`,
`dialing`, `wait`, `drain`, `setReady`, `serve`, `setBroken`, `teardown`,
`clear`; users go from `ready` through the command to the two halves of
`signalReconnect`; `Pool.Close` and `Managed.Close` are split where they unlock.
Clients are numbered in the order of dialing. Backoff and probe delays are
arbitrary, so jitter and caps are not visible.

**`OncePerKey`** is the abstract promise of the idempotency middleware: a key
is held, one request runs on it, its result is kept until the hold ends, and
duplicates get that result. **`Idempotency`** (idempotency.go, memorystore.go)
is the middleware over its store; every store call is an action, and SetNX's
clock read is one more because it precedes the lock. With `StoreFails` every
call may fail with or without its effect. `ImplementsOncePerKey` is stated by
INSTANCE with a refinement mapping in which a key is held while its entry is
live.

**`RateLimit`** (ratelimit.go). `ReadsClock` and the locked part of Allow
(`AllowKnown`, `AllowNew`) are separate, so that clocks are applied out of
order. Tokens are counted in units, `Rate` per tick and `Token` per admission.
`Survivors` is `evict` with its two stages. `born` and `admitted` in a bucket
and `promise` are history.

**`Migrator`** (migrationx.go, dialect.go). Runners over one database. `dialect`
is chosen initially: on mysql a run holds GET_LOCK from before it reads the
history until it ends; on sqlite `lock` only sets busy_timeout and the write
lock (`writer`) is per transaction. A run plans (`PlansUp`, `PlansDown`: verify,
dirty check, out-of-order check, the versions to take), then takes version by
version through `execTx` (`BeginsTx` with the probe inside the transaction,
`Commits`) or `execRaw` (`StartsRaw`, `Marks`, `ExecsSome`, `ExecsRest`,
`Records`). `Ends` is every way a run stops, at every point: done, refused,
failed, canceled, killed. `schema` records what the scripts really did; a script
run on a schema it was not written for leaves it `broken`. `Repairs` is the
operator step that doc.go asks for. File sets are arbitrary and may differ
between runners; a file's content stands for its checksum. `Raw` are the
migrations annotated no-transaction, `DDL` those whose statements mysql commits
at once. `Tracked` names the versions for which the engine promises anything
about partial application: doc.go and the comment on `mysqlDialect` exclude the
others.

**`HostKeys`** (hostkey.go). A dial's callback is split at TOFU's mutex, at the
second reading of the file and at the prompt; the first verification is made on
the lines read when the policy was made. A write may fail before, in or after
its line. `confirmed` is history. **`SSHClient`** (client.go, exec.go,
session.go) puts the policy inside a dial and lets the client run a command, a
shell or a Close, with its keepalive. A transport is up, silent or dead; every
AfterFunc is an action of its own, so that a ctx can end anywhere.

**`RealIP`**, **`Redaction`**, **`Outbound`** are the pure parts of a request:
the walk of forwarded addresses, what becomes of a logged value (a tree of
`LogValue`, walked as `process`, `sanitize` and `resolve` do, a level of the tree
at a time), and one call of `client.Do`. The chain leaves the logger open (`Logged`), so that what is proved
of it holds with any; **`ServerLogs`** and `Server.cfg` put `Redaction`'s there.
**`Middleware`** sends requests down the canonical chain and up again, one
action per middleware and direction; a panic goes up through the deferred
functions. The limiter and the store are abstract there, since `RateLimit` and
`Idempotency` model them. **`Server`** adds Use, build and Run: the goroutine
that listens, cancellation, Shutdown and the grace.

**`Scanner`** (scanner.go) walks the characters of a script (`Chars`, with an
annotation line as one of them) once; the lines of the code are where an `nl`
is, and a statement is the set of the places of its characters. Beside it stand
a reference automaton without lines, buffers or lookbehind (`RefModes`), and the
places where a script is cut (`Cuts`), which are read off the modes.
**`MigrationFiles`** (load.go, merge.go) does the same for directories: what is
loaded, file by file, the ups first, and `WellFormedSet` with `RefMigrations`,
what should be.
**`Cli`** (cli.go, dispatch.go, config.go, dotenv.go) is one process from its
dotenv file to Run: a dotenv line, a flag, a level of dispatch, and each layer of
`resolve` are actions. The command line is kept in the units it was written in,
and `RefLine`, `RefLayer` and `RefValue` read the inputs without parsing, in any
order. **`Migrate`** (command.go, create.go) is the tree on top, beside commands of
the service's own (`ServiceRuns`): which method of the Migrator is called, and the
writes of Create, of which each may fail or be cut off by a crash before, in or
after its file (`Half` is a file with the first characters only).

## Runs

A run checks few properties, each of which joins what belongs together; the
parts have names and comments of their own in the modules. Types are proved
where there is a proofs module; `Ssh`, `Server` and `Cli` check them as well.

| Run | Shows | Instance |
| --- | --- | --- |
| `Breaker` | `HalfOpenBudget`, `ProbesMatchFlight`: half-open budget and accounting; `OnlyProbesRunLate`; `SlidingWindow`: the ring covers the window and trips exactly at its threshold; `NoticesFormPath`; `Progress` out of Open and HalfOpen | 2 callers, 2 probes, 3 buckets of 2 ticks, panics outside half-open |
| `PoolManaged` | `ReadyIsLive`, `NoClientLeaks`, `ClosedIsTerminal`, `PoolCloseIsComplete` against Add, `LoopProgresses`: Close ends the loop and broken heals | 1 connection, 2 users, 3 dials |
| `Ssh` | `PromptIsCurrent` and `AcceptedWasConfirmed`: one question per host and nothing accepted unconfirmed; `DialIsHonest`: certain stages, live clients; `NothingHangs`: dials return, lost clients close, cancelled uses end | 2 dials (name and address of one machine), 2 keys, empty or pinned file, 3 policies |
| `IdempotencyOnce` | `AtMostOnce`, `ReplayIsFaithful`, and `ImplementsOncePerKey`, the refinement, which also says that capacity never costs a live claim | 3 requests, 2 keys, failing store of one record |
| `RateLimit` | `RateBound`; `MemoryBounded`: never more keys than capacity, whichever stage of evict made room; `IdleIsFull`: what is evicted as idle had a full bucket; `RetryAfterSuffices` | 2 callers, 3 keys, 2 buckets, stale clocks |
| `MigratorRuns` | `HistoryIsTrue`, `NeverReExecuted`, `DirtyStops`, `MySQLRunsAreSerialized` | 2 runners, 3 migrations of 3 kinds, 2 contents, both dialects |
| `Server` | `LineIsTrue`: status, panic and bytes of the access line; `GatesKeepPromises`: headers, IDs, refusals, Use against build; `ClientIsLastUntrusted`; `CallsAreWhole`: bodies, traces, breaker reports; `NoRuledValueLogged`; `ShutdownIsGraceful` | some 150 kinds of request alone, 12 pairs that share a key and the pool, a run cancelled anywhere |
| `Cli` | `InputsReachRun`: the line as written, layers in order; `FailsClosed`: only clean inputs run, secrets unsaid; `LoadsExactlyWellFormed`; `AskedAsNamed`: the verb, the quantity or the target named in any layer; `CreateMakesPairs`, whole and loadable but after exactly one failure | 19800 worlds: command lines of up to 4 units, 216 environments by 5 dotenv files, directories of up to 4 entries in 2 sources, scripts of up to 4 characters and annotated ones, failures and crashes before, in and after each write of Create |

Four runs are expected to fail: they check what a comment or a doc says of the
code, and TLC shows how the code does otherwise (quotations under `findings` in
`PROJECT.json`):

| Run | What it shows |
| --- | --- |
| `SessionStop` | a ctx that ends before Shell returns calls a stop that is still nil |
| `PoolStraggler` | the redial token of a replaced connection arrives after its successor is Ready and tears it down |
| `IdempotencyOutlived` | an execution that outlived the TTL deletes the claim of its successor, and a third one runs |
| `MigratorInterleaved` | two sqlite runs interleave between transactions and an older migration is applied after a newer one without AllowOutOfOrder |

### Bounds

Counters are capped by named constants (`MaxTime`, `MaxResults`, `MaxClients`,
`MaxFailures`, `MaxVersion`). They were chosen so that the cases of the hazard
list happen: the breaker's clock covers a full rotation of the ring with a gap
of two buckets, and an open, a half-open and a second open period; the two dials
of `Ssh` reach one machine by two names, so the second may find the first one's
pin; a request of `Server` has bodies at each cap, one below and one past it,
and it may log a value nested past `MaxDepth`, which `Deepest` still reaches; a
command line of `Cli` has a terminator, a bad value or a misplaced flag at every
level, and a script of four characters can open, escape and close a quote or a
comment on either side of a semicolon (longer ones are sampled); the pool dials
often enough for a connection to be replaced and its successor to be hit by a
token; the idempotency store holds one record for two keys, so capacity is met,
and the clock passes one expiry; the limiter holds two buckets for three keys,
its rate and token are not multiples of each other, and a call may wait a tick
for the mutex; three versions give one transactional, one no-transaction and one
implicitly committing migration, with two runners that disagree about the files.
Every property has a mutant of the modelled code that violates it within these
bounds. Runs whose clock is bounded may stop there, so they do not check
deadlock; `MigratorRuns` and `Cli` do. A server or a session may stay as it is
for ever, so `Server` and `Ssh` do not.

### Fairness

`Breaker`, `Pool`, `SSHClient` and `Server` state liveness. `Breaker!FairSpec`: time passes,
operations end (they have timeouts), callbacks run, and callers keep coming;
the last is what the comment on `State` says the open to half-open move needs.
`Pool!FairSpec`: goroutines that can run do (weak fairness on the loop and on
the continuation of Add and Close), Go's `select` picks a ready case
eventually and a dial that can succeed again and again does so once (strong
fairness on those steps). Nobody is obliged to call Close or to run a command,
and no transport is obliged to stay up.
`SSHClient!FairSpec`: every dial has a deadline, timers fire, goroutines run, the
user who is asked answers, and a peer that is up answers; nothing makes a command
end or a silent peer speak. `Server!FairSpec`: Run's goroutine is scheduled and
the grace timer fires; handlers may hang.

## Proofs

All theorems are about the specifications the runs check, for all values of the
constants that satisfy the named assumptions; the bounds are constants too, so
nothing depends on them being small.

- `BreakerProofs`: types; `HalfOpenBudget` from `BudgetInv` (attempts admitted
  are slots taken plus successes); with `OpTimeout < OpenFor` and no panic,
  `ProbesMatchFlight` from `FlightInv` (everything in flight in half-open is of
  this period) and `SlotInv`; without the assumption on panics,
  `OnlyProbesRunLate`, and with one probe `NoStaleResult`. `NoticesFormPath`
  follows from what is delivered and what is pending: together they lead from
  Closed to the state. `SlidingWindow` follows from `RingInv`: each slot counts
  the results of the span that its age stands for. Sums over sets of slots and of
  results are split by induction over a number, and `BelowTrip` says that a
  closed breaker has not reached its threshold.
- `PoolProofs`: types, `ReadyIsLive`, `NoClientLeaks`, `DialsCapped`,
  `ClosedIsTerminal`, `PoolCloseIsComplete`, from an invariant that ties each
  loop position to the client, the semaphore and the published state.
- `IdempotencyProofs`: types; `ReplayIsFaithful` without any assumption on time
  (`RecordsAreHonest`: a stored response was completed under that fingerprint);
  `AtMostOnce` and the refinement of `OncePerKey` under `Timely`
  (`MaxSpan < TTL`: a request ends within the TTL), because then whoever runs
  owns the live entry of its key (`OwnerHasEntry`, `OneOwner`). The violation
  run shows that the assumption is needed.
- `RateLimitProofs`: types; `MemoryIsBounded` (evict makes room for the bucket a
  new key gets, whichever stage did it: finite-set cardinalities); `RateBound` (refills in either direction follow the last clock
  applied); `RetryAfterSuffices` (rounding up covers what is missing);
  `IdleIsFull` if no call waits for the mutex longer than a burst takes to
  refill. Its invariant `Behind` bounds the debt that stale clocks can leave.
- `MigratorProofs`: types and locks, `HistoryIsTrue`, `NeverReExecuted`,
  `DirtyStops` and `MySQLRunsAreSerialized`, from `IInv`. `HistoryIsTrue` alone
  is not inductive: `Locked` gives the exclusion each dialect has, `Placed`
  keeps the row as probed inside a transaction, `Exclusive` and `Midway` say
  what a mysql run has planned, marked and executed at every point of `execRaw`.
  Versions are a finite range of naturals, so their least and greatest elements
  come from well-foundedness.
- `SSHClientProofs`: types, `PromptIsCurrent` and `AcceptedWasConfirmed` for any
  number of dials, files and keys, from `HkInv`: TOFU's mutex has one holder, a
  holder asks only after it found nothing on the file as it still is
  (`HolderAsks`), and every line of the file was there at the start or confirmed
  (`LinesHaveOrigin`). `DialIsHonest` needs how the attempts, AfterFuncs and
  closers of one dial stand to each other.
- `ServerProofs`: types, `LineIsTrue`, `GatesKeepPromises`,
  `ClientIsLastUntrusted`, `CallsAreWhole` and the safety half of
  `ShutdownIsGraceful` (`DrainIsComplete`), for any requests and any logger, and
  `NoRuledValueLogged` for the logger of the logger package (`Redacts`). The
  invariant speaks mostly of one request (`Core`: what the writers, the line,
  the headers and the call are at each place of the chain, down and up) and a
  lemma per middleware keeps it. Requests meet in two places: the idempotency
  record holds only what `Stored` says, and a buffer of the Logger's pool belongs
  to one request (`BufInv`), of which enough are left for those still to come
  (`RoomInv`, a count). `RunInv` ties the server's phases to the requests.
  Redaction is followed a level of a value at a time: what `sanitize` and
  `process` write at a level can be read only where no rule holds it, given that
  of the level below, and at the last level they write a fixed text. No mask
  shows a whole value, whatever its two numbers (`MaskHides`). `SaidInv` then
  says of every line of a request that each attr on it is what redaction made of
  something the request brought or the server added (`Written`).
- `MigrateProofs`: types, `InputsReachRun`, `FailsClosed`, `AskedAsNamed`,
  `LoadsExactlyWellFormed` and `CreateMakesPairs`, for any service that mounts the
  migrate command beside commands of its own, any command line and layers, any
  sources, files and scripts. What the command line says of Run (`InputsReachRun`,
  `FailsClosed`, `AskedAsNamed`) is proved for trees in which no command hangs
  below one that runs (`LeavesRun`), and that no secret is said for trees whose
  config flag is no secret; both are hypotheses of the theorems, and without them
  the code does otherwise (see below). `LineInv` says where the parser is: some
  number of units has been read (`ReadTo`), the words left are those of the
  others, and path and flags are what the reference has after as many
  (`LineAt`). Both readings, the words joined and the units folded, are recursions
  with a lemma that unfolds them (`WordsAdd`, `ReadingUnfolds`). Once the flags
  are over the rest are operands (`AfterClosed`); a word after a flag's value
  `--` is one only because of `LeavesRun` (`RunsAreLeaves`). `EnvInv` follows the dotenv file line by line, and `LayerInv`
  carries each layer from where it is applied to where Run sees it.
  `ScriptsSplitWhereTheyEnd` says that `parseScript` and its reference agree on
  every script. After each character (`ParsedTo`) the state of the scanner is the
  mode, its buffer is what was not dropped since the last cut, its statements are
  the pieces found at the cuts so far, and it has failed if a line was misplaced;
  one lemma reads a character that is looked at, another one that was consumed
  with its predecessor. A flush asks `isExecutable`, which starts over at the
  last cut: the modes are code there, so that it sees the comments the reference
  sees (a piece never begins inside one).
  `OnlyTheWellFormedLoad` follows the loader over the files in the order read
  (`LoadedTo`): it has failed exactly if the files so far are not well formed,
  and else holds what they make (`MadeFrom`). That an up may follow any ups, and
  a down anything, is why the order is needed: without the ups first, a set
  that is not yet well formed could become so (`BeforeTheLast`).
  `CreateMintsPairs` strengthens create's invariant by what the directory is
  (`MadeInv`: as it was, with the up, whole or torn, or with that and the down,
  whole or torn; and after the one failure with a lone down) and loads that by the
  theorem's lemmas; a lone down is refused because no up has its version. A file of which only the first characters were written is accepted
  because a script of remarks is, whole or cut off (`RemarksParse`).

Assumptions are named in the module that declares the constants:
`MiddlewareAssumption` says that clients send what can be sent (`Sendable`: bodies
have a length, header entries parse to something), `HostKeysAssumption` that a
start is a policy and a finite file. `TreeAssumption` and `DefaultAssumption` are
what `Bind` and the service's own tree guarantee or panic on: flags declared once
along a path, defaults that parse. That no two flags share an environment name
nothing guarantees (see below); with a Version, the tree has no version flag of
its own and nobody writes `--version=false`. `MigrateAssumption` says that the
service mounts what command.go builds on its root, among any commands of its own,
and that a file system lists finitely many files, no two of one name, each a
sequence of `Chars` (`FileSet`); directories create works in hold well-named
files. The code guarantees neither `LeavesRun` (cli.go 27-38 lets a command have
both a Run and commands) nor that the config flag is not marked secret, so they
are no assumptions but hypotheses of the theorems that need them. `LogAssumption` says that what a
request brings is what Go can hold (`Loggable`), within `Deepest` levels of which
every attr is found, and that a secret text is the name of nothing public. No
run can tell a secret from a public value with the same text, so nothing could be
said without it. `Redacts`, that the server's logger is `Record`, is a hypothesis
of its theorem: the other theorems need none about the logger, and `Server.cfg`
puts `Record` there. `WorldAssumption` says what a unit of
the command line is: its words are those of one flag with its value, one word,
or the terminator.

Only model-checked: liveness (`Progress`, `LoopProgresses`, `NothingHangs`, the
other half of `ShutdownIsGraceful`), which the prover cannot express under
fairness. Every other property of a passing run is a theorem.

What a recursive definition computes is proved by induction up to a number with
the property given as a set (`UpTo` in `MigrateProofs`), since the library's
induction theorems take an operator, which the installed provers cannot
instantiate. Each recursive function has a lemma that unfolds it a step
(`WordsAdd`, `ModesUnfold`, `ReadsUnfold`, `LoadUnfolds`), and each proof about one
an invariant of its steps. A property that names the data alone, such as
`RefScript`, is a reference written without the state of the code; TLC compares
the two on every script and directory of the `Cli` run as well.

## Where code and documentation differ

Beside the four violation runs, reading and modelling showed these:

- A `panic(http.ErrAbortHandler)` passes Logger without an access line, although
  the middleware documents one line per request (middleware/logger.go).
- TOFU's confirm function is not bounded by the dial's ctx: while the user is
  asked, the mutex is held and the dial cannot return (sshx/hostkey.go). The
  fairness of `Ssh` says that the user answers.
- With two half-open probes, a probe that is still running when its siblings'
  successes close the circuit records into the fresh window; circuitbreaker.go
  154-157 says that a stale outcome is dropped. `OnlyProbesRunLate` is the exact
  bound on who may do so.
- A replayed response carries the first request's X-Request-ID and
  Access-Control-Allow-Origin, which middleware/idempotency.go 304-305 means to
  leave to the replaying response.
- `--to` "targets a version" (command.go 26), but a target of 0 or below counts as
  none (command.go 77-103): `down --to 0`, whose help says "roll back to (and keep)
  this version", rolls back one, `up --to -1` applies everything, and `--all --to 0`
  is no conflict. `AskedAsNamed` speaks of the targets above 0.
- `--` consumed as a flag's value still counts as the terminator (cli.go 93): the
  words after it are not dispatched. Where only leaves have a Run, as in `Cli`, this
  always ends in a usage error; with a Run at the root, `app --tags -- serve` runs
  the root with the operand `serve`, although `Commands` are "matched by Name"
  (cli.go 37). The theorems about the line have `LeavesRun` as a hypothesis.
- An error about the config file says its path (config.go 58, 67, 73), the value of
  the config flag, while "a `Secret`-marked flag's value never appears in help or
  error output" (cli/README.md 175). The two theorems about secrets have
  `ConfigFlag \notin SecretFlags` as a hypothesis.
- A down that is created but whose write fails stays behind when the up is removed
  (create.go 37-38), and New refuses the directory from then on, although Create
  "scaffolds a timestamped migration pair" (create.go 12). `CreateKeepsLoadable`
  says that this is the one failure after which New refuses.
- Two flags can share an environment name (`db-url` and `db_url`; `token-file`
  beside `token`'s `_FILE`); nothing detects it (dispatch.go 146, 174). `Cli`
  assumes distinct names.
- Create looks for its own two names only, so two names minted in one second give
  one version twice, which New refuses (create.go 28). `CreateKeepsLoadable` speaks
  of a second in which no file was minted before.
- The scanner's comments are not those of every dialect: MySQL takes `--` for one
  only before a blank, and executes what `/*! */` holds. The reference of
  `LoadsExactlyWellFormed` has the scanner's notion, so it cannot see this.
- On sqlite a no-transaction script that fails half way leaves no row and no
  mark, and the next Up runs it from the start (dialect.go 224). doc.go states
  the dirty protocol for mysql only, so `Tracked` excludes these versions.

## Not modelled

- Decoding and encoding of requests and responses, help text, hashing and key
  generation: functions without state on the inputs of one call. `Bind` declares
  flags by reflection, once, and panics on a mistake.
- slog's handlers and levels, ServeMux's matching, x/crypto's protocol, the
  stdlib's flag values: external, modelled as the code uses them.
- `Status`, `Version` and the getters only read. `New`'s CREATE TABLE is
  idempotent and precedes every run.
- What two loggers take from a body on its way: the captured response_body on the
  access line (middleware/logger.go 98-99, 211-228) and the captured body of an
  outbound request (client/client.go 162-166, 236-238). They copy bytes and change
  neither the status nor what is sent.
- The reason a listed migration file cannot be read (load.go 70): `Open` may fail
  for any reason beside the files' form, and that is one.
- float64 arithmetic: ratios and tokens are exact.
- SQL itself: a script has two halves and fits a schema or does not.
- A COMMIT that fails on sqlite leaves the transaction open on a pooled
  connection: the step is in the model (`CommitFails`) and all properties of
  `MigratorRuns` hold with it, but nothing says that the write lock is free
  afterwards, because it is not.

## Plan

Done: all modules, and theorem modules for the breaker, the pool, idempotency
with its abstract specification, the rate limit, migration runs, host keys with
the ssh client, the server with its middleware and its logger, and the command
line with the migrate command, its scanner and its loader.

What could follow: the binding of flags (`Bind`), if it is ever given flags that
are not written in the program; the dotenv lines and JSON of the configuration
as bytes; and a prover for the liveness properties.
