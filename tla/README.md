# Private Landing: specification and proofs

TLA+ models of the authentication system in this repository, the TLC runs that
check them on small instances, and TLAPS proofs of what matters most for every
size of instance. Modules are translated from the code; `PROJECT.json` maps each
definition to the lines it stands for.

## The system

A Cloudflare Worker (Hono) serves `/auth/*`, `/account/*` and `/ops/*` over a libSQL
database and, optionally, a Valkey cache. A command line tool, `plctl`, drives `/ops`.

| component | state it keeps | operations | what makes it correct |
|---|---|---|---|
| HTTP application (`app.ts`) | none of its own | login, logout, register, change password, me | each handler's calls in order; a failure half-way leaves no more than it must |
| SQL session service | `session` rows: owner, created_at, expires_at | create (cleanup, insert, enforce limit), get (extend, select), end, end all | at most `maxSessions` usable per user; what is dead stays dead |
| Cached session service | `session:{id}` keys with TTL, `user_sessions:{uid}` index sets with TTL | the same, as sequences of cache commands | the same, and the index lists every usable session |
| Mirrored session service | the cache's state and SQL rows as a mirror | cache first, then SQL, best effort | the mirror lists what the operator must be able to revoke; a revocation reaches both stores |
| Account service | `account` rows | create, authenticate, change password | verification and update agree on the credential |
| Token service, `requireAuth` | none; JWTs held by clients | issue, verify, renew on the refresh token | a token is good only while its session lives |
| Rate limiter | `rl:*` counters with TTL | INCR, EXPIRE on first hit, 429 past the maximum | blocks past the maximum, forgets after the window, never blocks for good |
| Event pipeline, adaptive challenge | `security_event` rows | fire-and-forget insert; count failures, demand a proof of work | events are not lost to their readers; difficulty follows failures |
| Agent credentials | `agent_credential` rows | provision, revoke, check | a revoked key stops working |
| WebSocket gateway | per connection: negotiated, granted, timers, subscription; one global counter | capability.request, queries, subscribe, revoke, heartbeat, close | nothing before negotiation, nothing ungranted, slots neither leak nor exceed the cap |
| Schema initialisation | one shared promise | ensureSchema | no caller proceeds on a schema nobody created |
| plctl tail | connection, event list, filter | probe, dial, read, esc | late messages do not disturb a newer tail; connections are closed |
| password hashing, validation, cookies, headers, static files | none | | pure functions of one request |

Interaction: handlers call the session service and the account service; the operator's
routes and the gateway write the same `session` table (and, with a cache, the same keys)
behind the session service's back; every handler emits events that the challenge counts
and the gateway's subscriptions poll; `plctl` speaks to the operator's routes and the gateway.

What is hard: a Worker holds no lock across an `await`, so any request may run between two
statements of another; any `await` may throw and an isolate may vanish after it; timestamps
are read before the write that stores them; the SQL limit and revocation are single
statements but the cached ones are loops of commands; keys lapse on their own; events are
ordered by a clock read before a fire-and-forget insert; the gateway's timers and polls
overlap. `PROJECT.json` lists these under `hazards`, each at its line with the properties
that would catch it.

## Modules

| module | models | state against code |
|---|---|---|
| `SessionRegistry` | the promise of a session service (ADR-001, -003, -004) | `life` and `owner` of every id ever opened; `held`: ids whose creation got past the limit |
| `SessionPromise` | what the sessions of every deployment keep, cache or not | `stage` of every id, `raced` once its end met a request that may write it back; `owner`; `held`: ids with tokens; `hidden`: ids the service lost sight of |
| `GatewayPromise` | what a client may rely on of the gateway (ADR-009) | `link[c]`: what it knows of a connection (stage, ceiling of its key, grant, close code, operations done); `slots`: the connections with a subscription |
| `SqlSessions` | `session-service.ts`, `account-service.ts`, `token-service.ts`, `require-auth.ts`, the handlers of `app.ts`, the SQL half of `POST /ops/sessions/revoke` | `session` is the table; `password` the hash as a version number; `tokens` the latest pair issued per session; `req` a request slot: the statement it is about to run (`at`) and its local variables; `known`, `origin` are history |
| `CachedSessions` | `cached-session-service.ts` under the same handlers, the cache half of the operator's revocation | `entry` the session keys, `index` the user sets, both with the instant they lapse; `req` as above, one step per cache command; `history`: whom an id was created for (`owner`), ids a finished revocation covered (`revoked`), ids removed under a request between its GET and its SET (`raced`), ids an index forgot (`unlisted`) |
| `MirroredSessions` | `mirrored-session-service.ts`, `POST /ops/sessions/revoke` and the list of `GET /ops/sessions` over both stores | extends `CachedSessions`: the inner service and the operator's cache commands are its actions and its variables; `row` the table; `sql` the statement a request is about to run before or after its inner call, with `affectedUserIds`; `marks` is history: rows lost for good (`excused`), sessions a completed call ended (`ended`) |
| `LoginGate` | `rate-limit.ts`, `process-event.ts` (emission and challenge), the fail-open of `middleware.ts`, the promise of `schema.ts`, their order in front of `POST /auth/login` | `counter` the limiters' keys of one address; `client` whether `createDbClient` succeeds; `init`, `table` the promise and the tables; `recorded` the rows of its counted events by age, `nonces` those issued by age; `req` a login's next command or statement; `lost` is history |
| `WsGateway` | `ws/handler.ts`, `ws/upgrade.ts`, `require-agent-key.ts`, the agent routes of `router.ts` | `conn[c]` is the closure `createWsHandler` makes for connection c (`code`: what `closeWith` was called with); `activeSubscriptionCount` the shared counter; `credential` the `agent_credential` rows; `acted`, `errors` are history |
| `EventStream` | the emitters (`processEvent`, `obsEmitEvent`) and the subscription's interval callback in `ws/handler.ts` | `event[e]` is an emission: its `created_at` and whether its row is inserted; `subscription` the closure's `subscription` with histories (`got`, `late`, `cut`, `raced`, `crossed`); `poll[p]` a run of the interval's callback: the mark and types it read, the rows it got |
| `Plctl` | `tools/cli/cmd/plctl/main.go` and its WebSocket client | `view`, `action`, `conn`, `stop`, `err` are the model's `state`, `action`, `tailConn`, `tailKeepaliveStop`, `tailErr`; `link` and `pinging` the connections and their keepAlive goroutines; `task[t]` a command under way or its message; `history` |
| `Promises_proofs` | what `SessionPromise` and `GatewayPromise` are worth by themselves | variables of its own, which stand for whoever keeps them |
| `SqlSessions_proofs`, `CachedSessions_proofs`, `MirroredSessions_proofs`, `LoginGate_proofs`, `WsGateway_proofs`, `EventStream_proofs`, `Plctl_proofs` | the theorems about the modules they are named for | |
| `MCSqlSessions`, `MCCachedSessions`, `MCMirroredSessions`, `MCLoginGate`, `MCWsGateway`, `MCEventStream`, `MCPlctl` | symmetry sets, limits, client wishes and filters of the runs | |

`SqlSessions` is shown to implement `SessionRegistry` (`ImplementsRegistry`, with `life`
computed from the table, `owner` from the history and `held` from tokens and request
positions). `CachedSessions` cannot: there a race revives a revoked session
(`RevivedOnlyByRace`) and a session the index forgot escapes the limit
(`UnlistedOnlyForCause`). `SessionPromise` is what is left once these two are allowed for, and
both services implement it (`KeepsPromise` in each):

| | `raced` | `hidden` | `held` |
|---|---|---|---|
| `SqlSessions` | never | nothing | tokens issued, or about to be |
| `CachedSessions` | ids removed under a request between its GET and its SET | ids an index does not list | the same |

`MirroredSessions` is built on the actions of `CachedSessions`, each of its steps being one of
theirs or leaving their variables alone (`MirrorStepInv`), so it has no promise of its own to
keep; its properties are about the rows. What the promise is good for is proved once for
whoever keeps it, raced and hidden sessions included (`Promises_proofs`).

`WsGateway` implements `GatewayPromise` (`KeepsPromise`, with `View` of a closure as the
link and the subscribed connections as the slots): no counter, no timers and no checks appear
there, and a connection that goes loses everything at once.

Modelling decisions:

* One action per SQL statement or cache command. libSQL and Valkey execute one atomically.
* `DbError`/`CacheError` are errors that `requireAuth` swallows; `Abort` is any other error,
  a 429 of a rate limiter behind `requireAuth`, or the loss of the isolate: what was written
  stays, the rest of the request never happens.
* Time is one clock in ticks. `expires_at` is text and compared as text: `Lapse` says when an
  ISO value (written at creation) and a `datetime()` value (written afterwards) lapse.
* Cookies are copied, so any token ever issued may be presented at any time, with or without
  the refresh cookie. A request's two cookies belong to the same session.
* The session row of the model forgets user agent and address; the password is a version
  number; JWTs are "verifies until exp". Requests that are refused before their first
  statement change nothing and are left out.
* `SlideSession` in `CachedSessions` is the unconditional SET of `getSession`. Emptied index
  sets are gone, as in Valkey; the in-memory client of the tests keeps them.
* The route of a request matters only once it is admitted; in `CachedSessions` the route
  `revokeall` stands for the password change after its UPDATE.
* In `MirroredSessions` the inner service runs command by command, with the index it really
  has: one that lapses, is deleted under a login or misses sessions in use, and a `getSession`
  whose SET brings back what was deleted since its GET. What a request does
  in SQL comes before or after its inner call, as `await` has it: `req` rests, at "idle" or at
  "login.tokens", while a statement is next; only at "ops.cache" do the operator's cache
  commands run. Sessions are ranked by times of creation whose ties fall either way. A row's
  times are taken by SQL when the statement runs; that they are text does not matter there.
* `LoginGate` is about one address. It has no clock: Tick ages events and nonces and shortens
  the time keys have left. A command that throws may have been applied all the same. Nonces
  are not consumed; a solution is as hard as asked or it is not. A limiter's counter saturates
  one past its maximum; rows of one age are numbered up to `MaxRecorded`.
* The challenge fails open by design: what throws in its middleware, before the count
  (`CountFails`) or after it (`ChallengeThrows`, `middleware.ts:170`), is logged and the login
  goes on. Such a guess costs no work either, and nothing in the code bounds how many there
  are. `FreeBounded` says nothing of them: it is about the guesses the count itself let past.
* `client` is false where `createDbClient` finds no URL. It then throws before `doInit` awaits
  anything, so that `doInit`'s catch resets `initPromise` before `ensureSchema` assigns it: the
  promise stays, resolved, with no table made, and nobody retries (`EnsureSchema`).
* The gateway has no clock. The n-th heartbeat after a message comes between n - 1 and n
  intervals later, so `IdleBeats` (4 for 90 s and 25 s) decides idleness up to the one beat
  where either answer is possible. The message window is a count that may fall at any time.
* A credential check is one of those begun before a revocation (`early`: it may have read the
  row on either side of it) or after it (`late`); any of them may fail, and they resume in any
  order. `onClose` cancels none: one may resume on a connection that is gone, count a failure
  and call `close` once more. Counters that are only compared saturate at the value they are
  compared with.
* Message handlers run to their end in one action: those of `query_*` and `revoke_session`
  await the database but touch nothing of the gateway afterwards. Handlers do not look at
  `closing`, so messages are accepted until the close event.
* A poll of `EventStream` is three steps: the interval fires and reads mark and types, the
  SELECT runs, its answer is handled. Which rows of one millisecond come first under the
  LIMIT is any choice. A filter (`payload.types`) is the set of emissions it matches. The
  close event acts on the subscription as `unsubscribe_events` does; the silence of a
  connection that is closing is left to `WsGateway`.
* In `Plctl` messages may be handled in any order and in any view, which is what Bubble Tea's
  commands are: goroutines whose answers queue as they finish. Views that are alike to the
  tail are one view; `Quit` ends the process and starts it anew.

## Runs

| run | bounds | shows |
|---|---|---|
| `SqlSessions` | 1 user, 2 ids, 2 requests, limit 1, 3 instants, 1 password change | limit, finality, admission, revoke-all and refinement under interleaved, failing requests with lapsing sessions and tokens; which session may outlive its `expires_at`, and for how long |
| `SqlCredential` | 1 user, 2 ids, 2 requests, no clock, 1 password change | counterexample: a session that outlives its credential |
| `SqlExpiry` | 1 user, 1 id, 4 instants, days of 2 | counterexample: an unused session live after `expires_at` |
| `CachedLogins` | 1 user, 3 ids, 3 requests, limit 1, no clock | limit and index under three interleaved, failing logins |
| `CachedRevocation` | 1 user, 2 ids, 2 requests, limit 1, 2 instants, all routes | what revives a session, and what hides one from the index, under logins, revocations and lapsing keys; that nothing else breaks `SessionPromise` |
| `MirroredSessions` | 1 user, 2 ids, 2 requests, limit 1, 3 instants, `Bounded` | when the operator's list misses a session; that ended rows go; what scope all reaches |
| `LoginGate` | 2 requests, 1 limiter of 2 hits with a window of 2, thresholds 1 and 2 over 2 ticks, 2 rows per tick, nonces good for their tick, with and without a client | no lockout but by a lost EXPIRE; free guesses; tables that are created in the end; a limit that lifts |
| `WsSlots` | 2 connections, 1 agent, 1 slot, 1 failure, 1 message per window | counter, grants, leftovers under every mix of messages, closes, evictions and a revocation; refinement of `GatewayPromise` |
| `WsLiveness` | 1 connection, 3 failures, 4 beats, 2 checks in flight, 2 messages per window | every way a connection must end, and that it ends for a cause |
| `StreamMarks` | 2 events, 3 instants, pages of 1 row, 2 polls in flight | why the mark may pass an event or an event be sent twice; every other event is reached |
| `StreamFullPage` | the same | counterexample: a full page that ends within a millisecond |
| `Plctl` | 3 commands or messages under way, 2 connections | which late message orphans a connection or gives it two readers; that a stopped tail says so |

The bounds let every action happen and every pair of requests interleave at every statement.
One more login than the limit is the least that makes enforcement evict somebody and three
concurrent ones the least where an eviction meets two others; an id is never reused, so `Sids`
bounds the number of logins. Users of `SqlSessions` and `CachedSessions` do not share rows or
keys, apart from the cleanup, which drops dead rows only. All durations are cut to a few ticks:
only their order matters. `Symmetry` permutes users, ids, requests, tasks and connections,
which the modules never order; no run under it checks liveness.

Two requests are the least where one hit's late EXPIRE or DEL meets the next window's counter
and where two guesses are counted before either is recorded; a second limiter only repeats
the first on a key of its own. Two connections and one slot are the least that fill the cap,
refuse a subscription and free the slot again; connections share nothing but the counter, the
eviction and the credentials. `WsLiveness` has the code's own 3 failures and 4 beats, and two
checks in flight so that they may overtake each other; the properties are about one
connection each. Two polls are the least that overlap, or that outlive a subscription; a page
of one row and two events the least that fill a page within one millisecond. In `Plctl` two
connections are a tail and its rival, and three tasks the reads of both and a late answer.

`MirroredSessions` is the product of both stores and is cut by a constraint, `Bounded`:
requests overlap at the first instant only, and come one by one later, when keys, index and
rows lapse; at the last instant nobody logs in and nothing goes on after a session was excused;
and nothing goes on once there are reasons to miss two. With it TLC finds about two million
states in some two minutes. Every cause its properties name comes up all the same: a row
outlived by a key that slid, an index that lapsed before its keys (a session in use at the
last instant that no index leads to), a SET that brings a key back under a revoke-all or under
scope all, a revocation half-way. Clients come there with their access token alone (`Cookies`):
the fall-through to the refresh token repeats the same GET and SET. A revocation of scope all
over several users is one loop more around what the run has; that several behave like one is
left to the theorem. `View` leaves out a history that nothing in the run reads.

A third free guess takes two ticks of `LoginGate` on two rows each, and would break the bound
for two requests. The proofs lift the bounds of every invariant.

Deadlock is checked in every run but `StreamMarks` and `StreamFullPage`, where the finitely
many emissions and the clock run out.

Fairness. Requests to the session services may stop anywhere, so nothing is claimed of them
to happen eventually. In `LoginGate` time passes and a cache command that has been sent is
answered or fails (`Expire`/`ExpireFails`, `Del`/`DelFails`; Valkey may fail for ever), which
is enough for `LimitLifts`; no client is obliged to anything. `TablesAreRetried` assumes that
of infinitely many attempts to create the tables one succeeds (strong fairness of
`CreateTables`), and says so of requests that keep coming; that a failed attempt is followed
by another is the code's doing. In the gateway the runtime's
timers fire (`HandshakeTimeout`, the heartbeat), a database call ends with an answer or an
error (`Checks`), and a connection that was closed gets its close event (`OnClose`, only once
a code is set). Clients, operators and the message window are never obliged to do anything,
and a database that fails for ever is allowed. In the stream the interval fires while it is
set (`BeginPoll`), every query is answered and its answer handled, and, for `EventIsReached`,
queries do not fail for ever (strong fairness of `Select`): a subscription over a database
that always fails sends nothing.

### Where code and documents part

Three runs end in a violation; `PROJECT.json` quotes the documents under `findings`:

* `SqlCredential`: a login that verified the old password opens its session after the
  password change revoked everything.
* `SqlExpiry`: an ISO `expires_at` compared as text with `datetime('now')` is live for up to
  the rest of its day. `OverstaysOnlyUnused` bounds it: a row that was ever extended, ended or
  revoked carries the other format and lapses on time.
* `StreamFullPage`: a page that ends within a millisecond loses the rest of it.

Others are the causes that passing properties name, so that the property states what does
hold:

* ADR-004 (line 116) has revoke-all "retrieve all session IDs for the user" from the index.
  The index gets its TTL at login and never slides while keys do: one that lapses first, or is
  deleted under a login, hides live sessions from the limit and from revoke-all
  (`UnlistedOnlyForCause`).
* ADR-004 (line 215) holds a refresh that races revoke-all harmless, for the key is removed;
  but the refresh is a SET and brings the key back (`RevivedOnlyByRace`).
* ADR-007 (line 56) names a failed write as the way a session becomes invisible, "until the
  next successful write"; sliding, ties in the ranking, late UPDATEs, faults of the operator's
  own call, a key that a `getSession` writes back after its row was expired and an index that
  leads nowhere are others, and no later write brings a row back (`HiddenOnlyForCause`).
* In `plctl`, a tail's late `tailConnectedMsg` or an answer that takes the screen leaves a
  connection nobody closes (`OrphanOnlyByLateMessage`). An error on the screen is not cleared
  by a new connection, and a second "y" before the answer runs the action twice.

## Proofs

For every set of users, ids and requests, every limit and every duration
(`SqlAssumption`: the null values are no users or ids, `Sids` is finite, the numbers are
natural, the durations and the limit positive):

* `TypeCorrect`: `TypeOK` with `Ownership`, the invariant the others need. `TypeOK` alone is
  inductive for types, but says nothing of where a request's `sid` comes from; `Ownership`
  says that past the INSERT it is a known id of the request's own user, that only known ids
  have rows or tokens, and that a row's user is who opened it.
* `Finality` (`RevocationIsFinal`): `Shrinking` shows action by action that no step makes a
  known id live. Extending asks for a live row, deleting and expiring take away (`Expire` in
  the text form `datetime()` compares with, which `ExpireShrinks` needs), and the clock only
  passes a lapse.
* `Limit` (`HeldWithinLimit`): live sets shrink but for insertion, and only `EnforceLimit`
  makes a session held (`HeldGrows`), at a moment when at most `MaxSessions` rows survive.
* `Admission` (`DeadNeverAdmitted`), by `DeadIsStopped`: a request whose session was dead
  stays at `extendSession`, before any handler, as long as it is not refused.
* `RevokeAll` (`LiveBornAfterRevokeAll`).
* `Overstays` (`OverstaysOnlyUnused`), from `IsoUntouched`: `expires_at` is in ISO form only as
  the INSERT left it, hence `SessionDuration` after `created_at`; in the other form, live means
  not yet expired.
* `Refinement` (`ImplementsRegistry`): `InsertOpens`, `EnforceSettles`, `AbortForfeits`, and
  `SessionsOnlyDie` for all other steps.
* `SqlPromise` (`KeepsPromise`): every step of `SessionRegistry` is one of `SessionPromise`
  with `life` as the stage and nothing hidden, so the refinement carries over.

For every set of users and requests, every finite set of ids, all routes, limits and
durations (`CacheAssumption`), `IInv` of `CachedSessions_proofs`:

* `CacheTypes` (`TypeOK`), `Revoked` (`RevivedOnlyByRace`), `Indexed` (`UnlistedOnlyForCause`),
  `Limit` (`HeldWithinLimit`).
* `RequestsOK` is what a request knows of the ids in its variables: what it opened is its
  user's, and listed or excused once its SADD ran; what it removes is removed or was revived
  by a recorded race; what its revoke-all found and no longer has to do is over. `Apart`: two
  logins are never about one id. `TokensOK`: a session with tokens is listed or excused.
* `LimitOK` is why a loop of commands enforces a limit. Take any sessions of one user, live,
  unexcused and past their login's SMEMBERS, more of them than the limit: some login that
  opened one of them has still to evict from them. For the last of those logins to read the
  index saw all the others in it, and whatever it has not visited yet is in its `todo` or its
  `found`. It is stated of every subset, which is what makes it inductive: a session that dies
  or is excused leaves the set.
* `CachePromise` (`KeepsPromise`). `Fading` is what every step but a login's SET does: only a
  key that a request is about to write back comes to life, and `IInv` knows of such a key that
  it is live or that its race is on record (`Slider`). A new id is opened by its own login's
  SET; only the last step of a login's enforcement hands out tokens, and there `LimitOK` has
  nobody left to evict.

With a mirror besides, for any cookies (`MirrorAssumption`), `IInv` of `CachedSessions_proofs`
and `MInv` of `MirroredSessions_proofs`:

* `MirrorTypes` (`MirrorTypeOK`), `Hidden` (`HiddenOnlyForCause`), `EndedRows`
  (`EndedRowsGone`), `ScopeAll` (`ScopeAllReaches`), for any number of users.
* `MirrorStepInv`: a step of the mirror is one of `CachedSessions` or touches none of its
  variables, so `IInv` holds here too. `Lasts` says what no cache command undoes, and follows
  from the proof of `KeepsPromise`: a session that is dead stays so unless its race is on
  record, one that no index leads to stays on record, owners stay.
* `MInv` ties the two stores. A row in the list was never touched since its INSERT, so that it
  leaves the list exactly `SessionDuration` after it. What a finished call covered is dead or
  raced, its row expired or not there yet. What a revocation of scope all covered is dead,
  raced or unlisted, or belongs to a user, or is a key, that it has still to visit.

Of the promises alone (`Promises_proofs`), over variables that stand for any service or
gateway that keeps them:

* `PromiseLimit`: whoever keeps `SessionPromise` keeps `LimitKept`, though sessions race and
  drop out of sight. What counts grows only by `HandOut`, which counts afterwards; a session
  that races or is lost sight of counts no longer and never again.
* `PromisedRights` (`Entitled`) and `PromisedStanding` (`Standing`): at most `MaxSubs`
  connections listen, each open and entitled to; nobody does what was not granted or is granted
  what its key does not permit; an end is final, and key, grant and close code stand until
  then. `Entitled` is inductive with `Fresh`: who has not agreed has no grant and has done
  nothing.

For every finite set of requests, any limiters, thresholds and windows (`GateAssumption`),
`IInv` of `LoginGate_proofs`:

* `LoginGateTypes` (`TypeOK`), `NoStuckCounter` (`StuckOnlyByLostExpire`). `LimitersOK` says
  that a request at a cache command stands at a limiter of the route; a counter without a TTL
  then has a request at its EXPIRE or DEL, and each step of another request gives the key a TTL
  or removes it.
* `FreeGuesses` (`FreeBounded`), from `GuessInv`: the free guesses on record and those in
  flight together are at most one less than the threshold and the number of requests. A
  request that gets past for free has just counted fewer rows than the threshold, the free
  ones among them; from then on a guess only moves from the flight to the record.

For every finite set of connections, every set of agents and wishes, every cap and positive
limits (`GatewayAssumption`), from one inductive invariant, `IInv`:

* `Slots` (`SlotsCounted`): not inductive alone. A closed connection must be known to hold no
  subscription (`ConnOK`), so that the close event releases exactly once; `SameSlots`,
  `TakeSlot` and `GiveSlot` are the three ways a step can treat the counter.
* `Quiet` (`GoneIsQuiet`) needs that at most one heartbeat runs, hence that none runs before
  negotiation; a check that outlives its connection starts nothing there.
* `Trust` (`ActedWithinTrust`) needs `KeyOK`: the key a connection was opened with still has
  the trust level it was provisioned with, or is revoked.
* `Cause` (`CutForCause`), from the same invariant, which keeps the counter of failures and
  the history of them equal.
* `GatewayTypes` (`TypeOK`).
* `GatewayKeeps` (`KeepsPromise`), in two halves. `Seen` goes through the actions of the gateway
  once and says what a client may see of each (`Moves`: phase, grant, code, operations and
  subscription of one closure; the rest is hidden). `MovesKept` and `EvictParts` make steps of
  the promise of that. The counter becomes a set by `SlotsCounted`, and `Unjudged` (no close
  code before the connection is open) is the one fact `IInv` lacked.

For every finite set of emissions, all filters, any polls, every page limit and clock
(`StreamAssumption`), from the invariant `Inv` of `EventStream_proofs`:

* `Misses` (`MissedOnlyForCause`), from `Accounted`: everything up to the subscription's mark,
  and up to the mark of each of its polls, was sent or has an excuse, and each answered poll
  holds what lies between its mark and its last row. The polls' marks are needed because a
  slow poll moves the subscription's mark back: an event inserted in between is behind the
  mark of a poll and ahead of the subscription's.
* `Duplicates` (`SentTwiceOnlyByOverlap`), from `Alone`: as long as no two polls met, the one
  in flight has the subscription's own mark or belongs to an earlier subscription, and then
  nothing was sent yet.
* `StreamTypes` (`TypeOK`).

For any number of commands under way and of connections (`PlctlAssumption`), `IInv` of
`Plctl_proofs`:

* `PlctlTypes` (`TypeOK`), `Orphans` (`OrphanOnlyByLateMessage`), `TailSpeaks`
  (`TailIsReadOrSaysSo`), `OneReaderEach` (`SecondReaderOnlyByStaleEvent`).
* `TailOK` is the heart: the model has forgotten a connection only after a late message. No
  view but the tail has one, and nothing is dialled beside one, for a dial that was asked for
  in this view is the only one of its kind. `ConnsOK` ties `tailKeepaliveStop` to `tailConn`;
  `OneReader` keeps reads of one connection apart until a stale event crosses them.

Only model-checked: liveness (`RevokedIsCut`, `HandshakeEnds`, `SilentIsClosed`,
`EventIsReached`, `LimitLifts`, `TablesAreRetried`), which needs fairness and ENABLED and is
beyond the prover.

## Not modelled

See `components`. In short:

* password hashing and validation: pure computations over bytes, here "valid or not";
* cookies, headers, address lookup, static files, the schema and type packages: stateless
  transformations of one request;
* the database client and the cache's REST transport: I/O; the semantics of the commands are
  part of the modules that issue them;
* `performSessionMaintenance`: called by nothing in the repository;
* registration: one INSERT guarded by a unique index, so no state it shares with anybody can
  be half-way;
* which answer, redirect or JSON body a handler sends, except where a property is about it;
* the contents of query answers in the gateway, and of fields, tables and files in `plctl`.

Three hazards have no property. A password change whose revoke-all throws is answered as failed
though the password changed (`app.ts:272`): the code has no retry that a liveness statement
could speak of. Two password changes that both verified the old password both succeed and the
later UPDATE wins (`account-service.ts:262`): no document says otherwise, and either outcome
is one the user asked for. The challenge that throws lets the login go on
(`middleware.ts:170`): the code means it to, and bounds nothing there. Two more are covered in
part, with a note: the resolved promise without tables (`schema.ts:71`), which lasts as long as
the environment that makes the client throw, and the poll that completes under another
subscription (`handler.ts:609`), which is one of the causes `MissedOnlyForCause` allows.

## Plan

What is left, in order:

1. A module `Accounts`: passwords as values instead of versions, registration, and the two
   hazards of `app.ts` and `account-service.ts` above.
2. The gateway's `revoke_session` over both stores, as `MirroredSessions` has the operator's.
3. `EventStream` under `WsGateway`: the subscription's polls beside heartbeats and checks of a
   connection that is closing.
