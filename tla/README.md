# Private AI gateway: a TLA+ verification project

The gateway forwards inference requests to attested upstreams, and answers with
signed receipts that cite the attested session the request was served over. This
project models the parts of it whose correctness depends on the order of events:
concurrent requests, background tasks, crashes, expiry, retries and streams cut
anywhere. It also models how the desktop application of the same repository takes
over the configuration of coding agents and gives it back.

Paths below are relative to the repository (`src/aggregator/...` is the Rust
gateway, `apps/desktop/...` the desktop application).

## The system's parts

| Part | State | Operations | What makes it hard |
|---|---|---|---|
| Attested-session store (`src/aggregator/session_store.rs`) | index by id, by fingerprint, by retention deadline; evidence bundles with citation counts; lease tokens; append-only log, sequence number, torn-tail flag | insert, evict, lease, extend, current, get; append, compact, open/replay | two mutexes, an unlocked file rewrite, crashes that lose or tear the tail, leases that are only reference counts |
| Admission and publication (`service/forward.rs`, `service/receipts.rs`) | a request's event, leases, admission time, attempts | verify, acquire or seal, admit, forward, reverify, select, retain, publish | the session found at lookup may lapse before admission; several channels leased, one serves; cancellation anywhere |
| Receipt store (`service/receipt_store.rs`) | receipts by id, by chat id, by expiry | insert, get by id, get by chat id, evict | shared chat ids, reused receipt ids, expiry out of order |
| Verifier cache (`src/aci/verifier/external.rs`) | cache entries with expiry, verify lock | verify, cached, refresh, invalidate | invalidation races a verification in flight; read-then-remove of an expired entry |
| Background refresh (`upstream_config/mod.rs`) | per target: last start, not-before | select, refresh, pace, back off | shares cache and lock with requests |
| Failover walk and metering (`service/middleware.rs`, `service/wire.rs`, `src/middleware/completion.rs`) | candidate list, failed attempts, retained answer, journal, armed meter | walk, retain, capacity replay, commit, early commit, report, drop | client disconnect at any await; second pass over some candidates; reports deduplicated by attempt and status |
| Streaming (`service/streaming.rs`, `src/sse_framing.rs`, `src/middleware/sse.rs`) | framing state, draft, settled flags | observe, tail, finish, sign, settle, drop | errors between any two chunks, drop order, a tail that must not split an event |
| Agent links (`apps/desktop/agent-bridge/src/agents/`, `apps/desktop/runtime/src/controller/`) | token file, agent config, companion file, parked credentials, connection record; published tokens | connect, suspend, clean up, disconnect, roll back, reconcile, retarget, publish | five places written one after the other; any write may fail, the process may die, the user edits the same files |
| Keyset renewal (`service/mod.rs`) | current keyset, its expiry | renew, read | a response header may already name the previous keyset |
| Upstream configuration (`upstream_config/`, `src/aci/upstream/router.rs`) | configuration state, file, reload signal, permits | replace, reload, pull, refresh tasks | file and memory updated in two steps under one lock; a request reads the configuration again at each of its steps |
| Chutes nonce pool (`src/aci/upstream/chutes/session.rs`) | pooled nonces per instance | record, pop, refill | single use |
| E2EE replay map (`service/e2ee.rs`) | claimed nonces with expiry | claim | two requests with one nonce |
| Media admission (`src/middleware/admission.rs`) | permits | acquire, release with the body's last byte | release on every path |
| HTTP front end, transports, transformations, appraisal, receipt building, metrics | none, or I/O | | stateless code, or I/O of which only the outcome reaches the models |

How they interact: a request walks its candidates (failover), each of which is
verified (cache), admitted (session store), forwarded (transport) and on a
binding mismatch verified again; the response is drafted, metered, finalized and
signed, its session retained and the receipt stored. The background tasks
(refresh, compaction, renewal, configuration reload) touch the same caches and
stores. Audit endpoints read sessions and receipts at any time.

Properties worth having, part by part:

- session store: the index's redundant maps agree; leases protect; the log covers
  the index and replays to it; one valid session per channel; the writer lock is
  always released;
- publication: a live receipt's session is fetchable to the receipt's expiry;
  it was valid at admission; no lease leaks;
- receipt store: the maps agree; nothing live is dropped; a newer chat mapping
  survives an older receipt;
- verifier cache: trust lapses on time; no older result overwrites a newer one;
  a rotation is survived; every request is answered;
- failover and metering: one terminal report per request, distinct report keys,
  an upstream's answer is never lost to a later non-answer, at most one replay;
- streaming: at most one tail, never inside an event; whatever ends a stream, it is
  metered once, and the meter and the client agree on how it ended;
- upstream configuration: a restart comes back to what was serving; a verified
  request reaches the channel it verified or none; the refresh follows every
  reload;
- agent links: the user's own settings stay reachable whatever fails; an ended
  link stays ended; only a finished link is authorized; cleanup finishes.

## Modules

| Module | Models |
|---|---|
| `Maps` | the few map operators the others share |
| `SessionIndex` | `SessionIndex`: every operation as an operator from index to index |
| `SealedSession` | what `seal_attested_session` produces and when it refuses |
| `JsonlSessionStore` | the durable store: one action per critical section or file operation, for concurrent requests, audit reads and compaction, across crashes and restarts |
| `JsonlReplay` | the replay loop of `open` as a recursive function, to check the closed form `JsonlSessionStore` uses |
| `SessionRegistry` | the abstract store: what the trait `SessionStore` promises, with an atomic acquire |
| `JsonlRegistry` | the refinement mapping from `JsonlSessionStore` to `SessionRegistry` |
| `ReceiptStore` | `InMemoryReceiptStore` as operators |
| `AttestedReceipts` | a request from verification to publication over the session index and the receipt store |
| `VerifierCache` | the external verifier's cache and lock, the requests that verify and reverify, the background refresh |
| `FailoverWalk` | one request's walk over its candidates: failures, the answer held back, the capacity replay, the journal |
| `RequestOutcome` | the completion handler around the walk: meter, early 200, stream meter, the usage rows they send |
| `SseFraming` | the readers and writers of server-sent events: framing observer, event reader, E2EE transformer, the client's parser |
| `ResponseStream` | one streamed response from the provider's bytes to the client's: transforms, meter, keep-alive, encryption, tail, signature |
| `UpstreamConfiguration` | replacement of the configuration by PUT and pull, the refresh supervisor and its tasks, and a request across a change |
| `AgentLinks` | one agent's link to the Local API, durable write by durable write |
| `SessionIndexProofs`, `AttestedReceiptsProofs`, `ReceiptStoreProofs`, `SessionRegistryProofs`, `UpstreamConfigurationProofs`, `VerifierCacheProofs` | theorems |
| `MC...` | small instances for TLC |

### SessionIndex

An index is a record of the code's four maps. `by_id` maps a session id to its
fingerprint, retention deadline and `holders`; the `Arc<()>` token of the code,
of which only the number of clones matters, is the set of requests that hold a
clone. `by_retention` is the ordered set of hints, `bundles` the evidence with
its citation count and persisted flag. A session id is the record of what the id
hashes (document, bundle, validity window), so equal content gives equal ids as
it does in the code. `EvictLapsed` is the whole loop of `evict_lapsed` in closed
form: it removes the entries whose hint lapsed and that nobody holds, and puts
the hint of a held one back for a later pass.

### JsonlSessionStore

State: the index, the log as a sequence of records, whether its tail is torn,
how many lines were fsynced, the writer mutex, the sequence number, and per
request the position in `current_or_seal`. The code holds the index mutex only
for short sections, and the writer mutex across seal and append; the actions cut
exactly there: lookup, recheck under the writer lock, seal, the check whether
the bundle is persisted, the write (whole, failed, failed after part of a line),
the index insert, the extension, the drop. Compaction snapshots under the index
lock, writes outside it, and installs by rename. A crash keeps the fsynced
lines, any prefix of the rest, and possibly a torn line; `Open` replays.

A compacted log is durable once it is renamed into place. That is an assumption on
the file system: the code fsyncs the temporary file and not the directory, so
where a rename can be undone by a power loss the store would come back with the
log before the compaction, which the models do not cover.

The clock is monotone. Sequence numbers are bounded by `MaxSeq`, which stands for
`u64::MAX`: overflow is reachable and its error path modelled.

### SessionRegistry and JsonlRegistry

`SessionRegistry` says what callers of the trait may rely on, in four variables:
the clock, the stored sessions with their deadlines, the deadlines a restart is
bound to bring back, and the leases. Acquiring a session is one step, which hands
out the session another holder of the channel already has while both are valid;
an extension is never refused and never shortens; a session goes only past its
deadline and unleased; a crash ends the leases, may forget what no compaction
covered, and never lengthens a deadline. It says nothing of sessions that a failed
append left in the log: after a restart they may appear.

`JsonlRegistry` maps the detailed store to it. Stored is what the index holds or,
with the process down, what replaying the log now would give; saved is what the
fsynced lines give; a request's lease counts from the step that indexes its
session. `AttestedReceipts` uses the store as the registry describes it.

### AttestedReceipts

State: the session index, the receipt store, the clock and per request its
locals. One action per await-free stretch of the forward path: start, verified
(with the fingerprints of the event), acquire per channel from the index or by
sealing, admit at one timestamp, respond (select the serving channel and drop the
siblings), withheld answers, mismatch (drop the admission, verify again), retain,
publish, and abandonment at every await. Acquisition is one step here; the
detailed one is `JsonlSessionStore`.

### VerifierCache

The upstream's channel key is a number that `Rotate` increments; a verification
learns the number that is live when the bridge fetches its evidence. A cache
read, the removal of an entry read as expired, and the insert are separate
steps, as the code takes the `RwLock` for each; verifications are serialised by
the verify lock, under which `verify` looks again and `refresh` does not. A
request forwards with the key it was given: equal to the live one it is served,
otherwise it invalidates and verifies again, at most `ReverifyAttempts` times.
The refresh task selects a due target by priority, refreshes, and sets the next
time from the outcome.

### FailoverWalk and RequestOutcome

`FailoverWalk` is `forward_chat_completion_for_middleware`. `pc` names the await
the walk is at (verifying, forwarding, reading an error body, pausing before the
replay) or the synchronous stretch between two of them; cancellation and the
early-commit timer act only at an await, as they do on a future. `current`,
`capacity`, `failed`, `retained` and `worst` are the function's locals,
`in_flight`, `abandoned` and `header` the shared journal. Chain positions, not
route ids, identify candidates, since a chain may name a route twice. The kinds
of answers are the ones `errors.rs` tells apart: which fail over, which signal
capacity, and which status a row records for them. `outcomes` is a history of
how every attempt ended; the code has no such variable and no action reads it.

`RequestOutcome` drives the walk from the handler, or after an early 200 from the
response body. The meter is armed exactly while the walk is waited for, so its
flag is not a variable: `Disconnect` sends what its drop sends, and `StaysArmed`
says that no arm of the handler leaves it armed. `reports` holds the rows in the
order sent. A buffered answer sends its outcome before the rows of the failed
attempts, a malformed 200 after them. The rows carry numbers, so `OneOutcome` reads
the set of rows and not the sequence. An encrypted request whose upstream answers something
other than an event stream is refused after the walk, with the attempts' rows and
no outcome (mode `refused`). A row's `role` is there for the properties; control sees request,
attempt and status.

### SseFraming and ResponseStream

Bytes are reduced to what the readers tell apart: the two terminator bytes, and
pieces of lines by kind (content, a finish reason, the protocol's terminal, an
in-band error, another field, a comment, half a payload, text past the reassembly
cap, a payload that is not JSON). The framing observer, the transform's event
reader and the client follow the WHATWG rules; the E2EE transformer has a line
reader of its own, which splits on LF alone, as in the code.

`ResponseStream` follows one response over every route of
`build_metered_pipeline`: chat or Responses protocol, converted or not, encrypted
or not, behind the middleware or direct, begun early or not. The provider sends
chunks cut anywhere, ends, fails or stalls; the client may drop at any poll. A
poll of the finalizer is one action: it observes, encrypts and passes on
what the meter let through; at the end it appends a tail, flushes the encryption
pass, and signs. A converted response whose state cannot be finished (`usable`
is false) ends in an error event, and a failing body stands also for a draft that
cannot be published. That the wire hash covers what is sent is not stated: hash and bytes
are updated in one statement of the code. `provider` and `client` are the two ends' own readings of the
bytes, which the properties compare.

### UpstreamConfiguration

A configuration maps upstream names to an origin and whether they are attested.
`file` and `memory` are its two copies; `replace_inner` is cut where another task
or a crash can see a difference: lock taken, file renamed into place, state
installed, supervisor notified. PUT handlers and the pull compete for the lock;
the pull skips a configuration that is already installed. The supervisor marks the
reload signal as seen, reads the state and spawns a task per attested upstream,
and on a reload aborts them all, which gives their permits back. `current` says
that the tasks work with the installed verifiers. A request reads the installed
configuration when it is prepared, when it is verified, and when it is forwarded.

Abstractions: upstreams are OpenAI-compatible, with a TLS key at an origin as the
binding (the other backends check bindings of their own kind and are left out);
upstreams that are not attested have no verifier (verifier mode none); one route
per upstream; every attested upstream is refreshed; time is left out. A pull or PUT that is
refused or fails before the lock changes nothing and is not an action. A rename is
atomic. Nothing is claimed of a request that is not verified: it may be forwarded
to the origin configured since.

### AgentLinks

`disk` is what survives a crash: the agent's config, the companion file's model
choice (a field of the same map), the parked credential, the token file and the
connection record. `proc` is the transaction under the apply lock: the writes
still to do, what to do if one fails, the record in memory and what connect
remembers for its rollback. Each write is one step; it may fail
(`StepFails`), the process may die (`Crash`, after which the next start reconciles
without a catalog), and the user may set a field or delete the file at any moment.
Reconciling a live link suspends it when the catalog is missing or the agent is not
usable (gone from the machine, or its status cannot be read). An address change
either takes effect at once or first restores every link, and moves only if that
succeeded (`MoveStep`).
An agent has one field of each kind the code treats differently: a routing
setting, a sensitive one that is parked, a provider definition that is kept but
deactivated, the model choice. `hist` is history that no action reads: the user's
own values, edits newer than the projection, what a failed rollback destroyed, how
far a disconnect came.

Abstractions: one agent at a time (agents share the record file, and one agent's
save writes the others' records as they are in memory); a value depends on the
Local API address only, and a new catalog is the choice `refreshed`; whether the
agent is usable is chosen afresh by each reconcile; the check that a file is unchanged and its
replacement are one step; an edit by the user is a new value, not a return to an
old one.

## Runs

| Run | Question | Bounds |
|---|---|---|
| `jsonl_concurrent` | Do two requests, audit reads and the compaction leave the index exact, honour leases (also when two fingerprints seal the same document and insert its id twice) and seal a channel once? | 2 channels, 1 document, 2 evidence bundles, 2 requests, 4 records, clock 0..1 |
| `jsonl_recovery` | Does the log stay replayable and cover the index through failed and torn writes, a crash, restart and compaction; is the closed form of replay the loop; does the store implement `SessionRegistry`; is the writer mutex always given back? | 2 requests, 2 bundles, 3 records, failed writes up to 2 log lines, 1 crash, clock 0..1, lifetimes 1, fair holders |
| `receipts` | Is every live receipt's session retained and was it valid at admission, does a lease leak, over one channel or two, with pins, siblings released, mismatch and reverification? | 2 requests, 2 channels, 1 reverification, clock 0..2 |
| `receipts_chat_ids` | Do the receipt store's maps agree, and is nothing live lost? | 2 receipt ids, 2 chat ids, clock 0..3 |
| `verifier` | Trust bounded, newer result kept, rotation survived, every request answered? | 2 requests and the refresher, 2 rotations, clock 0..1 |
| `request_outcome` | Does every attempt have one row, numbered without gaps, and every request one outcome, through replay, early commit, disconnection and late failures; is an answer always relayed, and capacity retried before a client hears of it? | chain of 3 with a route named twice, 5 kinds of answers, 1 renewal |
| `response_stream` | Does the client read exactly the provider's events and one tail between two of them; is every end metered, and do meter and client agree on how the stream ended? | up to 7 pieces of 11 kinds, every route |
| `agent_links` | Do the user's settings stay reachable, does an ended link stay ended, is only a finished link authorized, does cleanup finish? | 2 kinds of agents, 2 faults, 1 edit, 1 address change, at most 3 of these together |
| `upstream_config` | Do file and state stay together when a PUT races a pull, updates fail and the process restarts; does a verified request reach the channel it verified or none; does the refresh follow every reload without losing a permit? | 3 configurations (an upstream moves, loses its attestation, or goes), 2 upstreams for 1 permit, 1 PUT handler and the pull, 1 request with 1 reverification, 1 change, 1 fault |
| `broken_stream` (violation) | Is a broken stream signed too, as `streaming.rs` says? | up to 2 chunks, every route |
| `links_interrupted_move` (violation) | Does an interrupted address change heal, as `agents.rs` says? | 1 setting, 1 fault, 1 address change |
| `links_disconnect_undone` (violation) | Is an agent whose disconnect revoked the token never authorized again, as `transactions.rs` says? | 1 fault |

The bounds are the smallest at which the cases that matter happen. Two requests
are enough for each race named in the hazards, since every one is between two
parties (two sealers, a sealer and the compaction, a publisher and an evictor, a
retry and a verification in flight), and the audit reader and the background
tasks are further processes. The clock passes the lifetimes it has
to cross. Two bundles distinguish "already persisted" from "not yet". Four
records let two sessions be written with a bundle each, and a compaction fall
between two appends. Requests that end start again, so the histories are long although the sets are small. Each mutant listed
in `PROJECT.json` (a dropped guard, a missing release, a swapped order) makes its
property fail within the same bounds, which is the evidence that they reach the
case.

`MaxUpsets` bounds failures, crashes, edits and address changes of an agent link
together. Two failures are what it takes to lose a parked credential; three upsets let
an edit or an address change fall before, between or after them.

Symmetry is used over requests and receipts only, and not in runs with a liveness
property.

`busy` and `rejected` differ from `unpaid` and `image_input` only in the status a
row records, which no property reads; `request_outcome` uses the latter two.

`request_outcome` and `response_stream` follow one request to its end, so they are
the only ones in which the system may stop. A chain of three with a twin is the smallest in which
the replay can confuse two attempts of one route while a third lies between them.

### Fairness

- `jsonl_recovery`: weak fairness of the steps a request takes while it holds the
  writer mutex, and of the compaction's write. The holder runs synchronous code
  and waits for nobody. Nothing is assumed of requests that wait.
- `verifier`: weak fairness of each process's own steps (the verifier
  process and the HTTP client have timeouts, the runtime polls every task) and
  strong fairness of taking the verify lock, which tokio's mutex hands over in
  FIFO order. Arrivals, rotation, time and the refresh are not assumed.
- `upstream_config`: weak fairness of a replacement (synchronous code), of the
  supervisor, and of each refresh task: a period elapses, the semaphore queues its
  waiters in order, a verification has a timeout. Nothing is assumed of requests,
  pulls and PUTs.
- `agent_links`: weak fairness of a transaction's own steps, and strong fairness of
  `reconcile_agents` outside verification: the interval task calls it every three
  seconds, and the lock it waits for is given back by every transaction. While a
  session is verifying, reconcile only publishes, so `CleanupEnds` is claimed for
  sessions that do not stay in verification for ever.

No fairness is assumed of a response stream and no liveness is claimed of it: a body
is polled only while its client reads, and a provider may go on sending for ever.

In `JsonlSessionStore` and `AgentLinks` weak fairness of `A` is written as
`[]<>~P \/ []<><<A>>_vars`, and strong fairness as `<>[]~P \/ []<><<A>>_vars`, where
`P` is the state predicate that says when `A` is enabled. It is the definition of
fairness with `ENABLED` replaced by its value, which TLC evaluates much faster.

### Findings

`links_interrupted_move`: after an address change a live link is projected again,
and the pending record, which already holds the new values, is saved before the
config is written. If the process dies in between, cleanup finds the old
projected value in the config, takes it for an edit of the user, leaves it and
drops the record, and with it the user's original setting. The comments on
`Connection.endpoint` and `connect` say that an interrupted address change heals,
and that config and record land together or are rolled back together.

`links_disconnect_undone`: the comment on `disconnect` says that once the token is
deleted the agent can never be authorized again, even if saving the tombstone
fails. It can: the record on disk still says connected, and after a restore the
next verified session connects it again with a fresh token. `EndedStaysEnded` shows
that the promise holds once the tombstone is saved.

`broken_stream`: a comment in `service/streaming.rs` says "A broken stream is signed
too". A direct stream is. Behind the middleware the draft of a receipt is published
only when the provider's body ends cleanly, so after a read error, or when a
transform refuses an event and stops reading, the client has read the stream to its
end and nothing is signed.

Further disagreements met while modelling, which no run shows:

- `rollback` carries on past a config it could not restore and then deletes the
  parked credential, so a link that failed twice can lose the user's key. It also
  restores the config without checking that nobody edited it since. `OriginalKept`
  shows how far this goes: a setting that a rollback destroyed (`hist.lost`) takes two
  failures, or a failure and an edit; one failure alone never costs a setting;
- `docs/upstream-verification-lifecycle.md` says a mismatch runs "a fresh
  verification that bypasses the cache"; `refresh_upstream_event` invalidates and
  calls `verify`, which consults the cache, where a verification in flight may
  have put an older result. `RotationSurvived` shows why two attempts are enough;
- `service/wire.rs` calls the route of a relayed upstream error "the last one
  tried"; it is the route whose answer was held back. It says of `AllFailed` that
  nobody answered; a walk whose early keyset expired returns it with an answer
  in hand. `AnswerRelayed` shows that this is the only such case;
- after a terminal the framing observer stops reading and stays at the boundary it
  saw then, so an encrypted direct stream that stops inside a later event is
  flushed; `RelayedExactly` sets this case aside. It also leaves out early responses, which
  may carry an error event of the gateway's own, and an encrypted stream cut between
  the CR and the LF of one terminator (`Torn`);
- the meter finds an in-band error in a line, the finalizer in an event: they
  differ on an error line that shares its event with another data line
  (`MeterAgrees` sets it aside); the E2EE transformer splits lines on LF only, so
  encrypted streams are followed for providers that never end a line with a lone CR
  (`Sendable`).

## What is proved

`SessionIndexProofs` proves that each operation of the index preserves
`WellFormed` (hints, citation counts and retention exact), for any sets of
documents, fingerprints, bundles and requests. Citation counts are
cardinalities; `CitersMinus` and `CitersPlus` reduce them to set differences.

`AttestedReceiptsProofs` proves, for every value of the constants:

| Theorem | Property |
|---|---|
| `Invariant` | the inductive invariant `IInv` |
| `TypeCorrect` | `TypeOK` |
| `ReceiptsAreBacked` | `CitedSessionRetained` |
| `LeasesAreHonoured` | `LeasesHonoured` |
| `LeasesDoNotLeak` | `NoLeaseLeak` |
| `CitationsAreValid` | `CitesValidSession` |
| `IndexStaysConsistent` | `IndexConsistent` |

`SessionRegistryProofs` proves of the abstract store that a leased session stays
stored (`LeasesHold`). It then holds of whatever implements it; that
`JsonlSessionStore` does is checked by TLC.

`UpstreamConfigurationProofs` proves `RestartKeepsConfig` (`FileMatchesState`) and
`VerifiedChannelKept` (`ChannelKept`) for any set of configurations, updaters and
requests. The first needs `Replacing`: whoever is past taking the lock holds it,
and the file differs from the state only between the holder's rename and its
installation, by the holder's configuration. The second needs `Serving`: a request
without a verification goes on only if it requires none.

`ReceiptStoreProofs` proves `ReceiptIndexesAgree` (`ReceiptMapsAgree`),
`NoEarlyExpiry` (`LiveReceiptsStay`) and `ChatMappingSurvives` (`MappingsStay`) of
the store as the service uses it. Lemmas say what removal, eviction, insertion and
a read do to an exact store. The service's part is `DeadlinesSet`: the time a
publication evicts at is its deadline less the lifetime, which is never ahead of
the clock, so what it evicts has expired.

`VerifierCacheProofs` proves `TrustBounded` (`TrustLapses`), `NewerVerificationWins`
(`NewerStays`) and `RotationSurvived` (`RotationsAreSurvived`) for any number of
requests and keys. Its invariant says that `verify_lock` has one holder
(`Exclusive`), that an entry expires a lifetime after its verification started and
no entry is newer than the running verification (`Dated`), and that after a
request's first mismatch only the verification then in flight can bring an older
key back, and after its second none can (`Recent`). `RotationsAreSurvived` assumes
`ReverifyAttempts # 1`: the one verification in flight costs an attempt, so one
reverification is not enough. The code allows two.

`CitedSessionRetained` is not inductive: that an eviction spares what a receipt
cites needs the retention of the entry, that a publication may cite a session
needs that the request holds it and has extended it, and that it still holds it
needs that evictions by others look at holders and at clock values in the past.
`IInv` is the conjunction of these: the index is well formed, the clock snapshots
of requests lie in the past, an entry is held exactly by the requests that own a
lease on it, a request before its acquisition holds none and after selection at
most one, an admitted request's leases were in their window, and a request about
to publish has retained what it cites. Each action is proved to have an
`Effect` on the index (what it may evict, whose leases it adds and drops), and
the conjuncts of `IInv` are proved once from effects rather than once per action.

Assumptions: `Nat`-valued lifetimes and bounds, finitely many fingerprints, and
the named assumptions of the modules, which TLC evaluates in the runs.

Only model-checked: everything about the log and crash recovery, the refinement
of the registry, the walk and its accounting, streams, agent links, and all
liveness (that of the refresh and of verification included). Liveness under
fairness and what the replay loop computes for every log are beyond the prover.

## What is not modelled

- the contents of evidence, documents, receipts and bodies, and all cryptography:
  model values, with a verdict as input;
- I/O errors other than a failed write, and a clock that goes backwards;
- the verifiers other than the external one: they repeat its cache and lock, with
  expiry caps of their own;
- for a request: what happens before the walk (authorisation, parsing, model
  lookup), the delivery of usage rows to the control service, and token and cost
  figures. That a request ends is not claimed: an upstream may stall up to
  timeouts that lie outside the walk;
- of streams: the JSON rewriting of a payload, and two responses at once (they
  share nothing);
- of the upstream configuration: how each provider's backend and verifier is
  built, validation, the pull's conditional requests and backoff;
- of agent links: the tables of settings per agent, list entries and exact-text
  originals, dsh's stored credential, previews and their revisions;
- the rest of the desktop application (Local API proxy, web UI, accounts, the
  verifier process) and the command line tool: HTTP relays and I/O around the
  state that `AgentLinks` has;
- parts listed in `PROJECT.json` as not modelled, with the reason for each.

Most of the repository's lines are of kinds a state model does not describe: JSON
rewriting between provider dialects (`request_transform.rs`,
`response_transform.rs`), evidence checks over cryptographic primitives, HTTP
handlers, command line output and user interface. The modules cover the code that
keeps state between steps, which is a small share of the whole.

## Plan

Next, most important first:

1. Keyset renewal and early headers; the Chutes nonce pool; the E2EE replay map; media permits.
2. Several agents over one connection record.
3. Proofs: `LogSelfContained` and `LeasesHonoured` of the durable store,
   the report keys (`OneOutcome`) of a request, and the refinement
   of the registry.
