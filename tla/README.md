# A verification development for go-starter

TLA+ models of the parts of go-starter that keep state or decide something,
checked with TLC on small instances, and theorems about each of them checked by
TLAPS for every instance. Paths below are relative to the repository.

## The system

A Go web server (`cmd/app`) over PostgreSQL, with sign-in through Google or
GitHub for a browser and for an API client, and a command line tool (`cmd/cli`)
that migrates, seeds or resets the database.

| component | state | operations | code |
|---|---|---|---|
| API refresh tokens | table `api_refresh_tokens` | login, refresh (rotation, reuse detection), logout | `internal/postgres/user_auth_store.go` 276-405, `internal/auth/api_tokens.go`, `internal/api/auth_api_handler.go` |
| Social users | tables `users`, `user_identities` | `FindOrCreateSocialUser` | `internal/auth/service.go` 141-157, `user_auth_store.go` 25-189 |
| Web sessions | table `user_sessions`, the browser's cookie | `LoadSession`, `RequireAuth`, `RequireGuest`, callback, logout | `internal/auth/session.go`, `internal/web/auth_handler.go`, `user_auth_store.go` 221-274 |
| OAuth flow store | a map in memory, under a mutex | create, consume, clean-up | `internal/auth/oauth_flow.go`, `internal/web/auth_handler.go` |
| Rate limiter | a map in memory, under a mutex | allow, clean-up | `internal/auth/rate_limit.go` |
| Migrator | tables `schema_migrations`, `schema_seeders`, the schema | migrate, seed, fresh | `internal/postgres/migrator.go`, `fresh.go`, `cmd/cli/main.go` |
| API access tokens | none (signed tokens) | issue, parse, `me` | `internal/auth/api_tokens.go`, `internal/api/auth_api_handler.go` |
| OAuth verifier | none | code exchange, choice of address | `internal/auth/oauth_verifier.go` |
| Server life cycle | the listener, the pool | start, signal, shutdown | `cmd/app/main.go`, `internal/server/server.go` |
| Configuration | none | parse the environment | `internal/config/config.go`, `internal/postgres/postgres.go` |
| Middleware and browser script | the `csrf_token` cookie, the hidden field of a form | CSRF check, headers, CORS | `internal/server/middleware.go`, `router.go`, `internal/web/assets/app.js` |
| Storage | files, or a bucket | upload, delete | `internal/storage`, `internal/r2` |
| Pages, templates | none | rendering | `internal/web` |

How they interact. Every HTTP request runs in a goroutine of its own. The two
in-memory stores are shared between them behind a mutex; everything else is
shared through PostgreSQL at its default isolation, READ COMMITTED, with the
row locks of UPDATE and SELECT FOR UPDATE and with unique indexes. A web login is
`startSocialLogin` (rate limiter, OAuth flow store), a redirect to the provider,
then `oauthCallback` (OAuth flow store, verifier, social users, sessions). An API
login is the rate limiter, the verifier, social users and refresh tokens. The CLI
shares only the database with the server. A restart loses the two in-memory
stores and nothing else.

What is hard in each, and what makes it correct:

- **Refresh tokens.** Many clients present one token at once; a family UPDATE
  sees only rows that are committed when it starts; updates of one family can
  deadlock; errors of revocations are ignored; answers get lost. A family must
  have at most one live token, its rows must form one chain, and what is
  revoked must stay so.
- **Social users.** Look-ups and inserts are separate statements, so only the
  unique indexes decide; updates run without a transaction and their errors are
  ignored. One user per address, one identity per user, and an answer for the
  owner of the identity.
- **Web sessions.** Requests of several tabs carry cookies from different
  moments; a touch may come after the deletion; answers arrive in any order. A
  deleted session must not come back and a touch must not prolong it.
- **OAuth flows.** The clock is read before the mutex; callbacks are repeated.
  One callback per flow, of the right provider, in its lifetime.
- **Rate limiter.** The same stale clock, and a clean-up that must not be
  noticeable.
- **Migrator.** Nothing keeps two runs apart but a primary key; a run can be
  killed at any point. Work and record must agree, in order, once.
- **Access tokens.** Nothing is asked about the family behind one, so it outlives
  a revocation; a rotation that was in flight may hand out another. Both must end
  at most one access lifetime after the family.
- **OAuth verifier, web login.** A provider may answer with an error, an empty body,
  something that does not decode, another client's token; codes and states come
  back in any order, more than once, after a restart. Who is signed in must be
  who agreed to that flow, under an address its provider reported.
- **Life cycle.** The signal may come at any point of start-up, together with a
  failure of the listener, while requests wait for a connection or for their
  client. The process must end, and must not cut off requests before the limit.
- **Configuration.** Numbers are parsed at one width and used at another. What is
  accepted must be usable.
- **CSRF.** Tabs share one cookie, and the form is filled before the browser
  attaches it. A form must not be refused while nothing has happened to the
  cookie, and somebody who keeps trying must get through.

## The modules

| module | models |
|---|---|
| `TokenFamily` | what refresh tokens promise, with no database: families with at most one live token |
| `RefreshTokens` | the table and the requests in flight against it; implements `TokenFamily` |
| `ApiAuth` | access tokens; extends `RefreshTokens` |
| `RefreshTokensProofs` | theorems about `RefreshTokens` and `ApiAuth` |
| `Accounts` | what social sign-in promises: an identity is bound once, with its address, for ever |
| `SocialUsers` | `FindOrCreateSocialUser`, statement by statement; implements `Accounts` |
| `SocialUsersProofs` | theorems about `SocialUsers` |
| `OAuthFlows` | the flow store, the two handlers as far as they use it, restarts |
| `OAuthVerifier` | pure: from a provider's answers to a profile or a failure |
| `WebLogin` | a login from redirect to session: extends `OAuthFlows`, instantiates `OAuthVerifier` and `Accounts` |
| `WebLoginProofs` | theorems about `WebLogin`, and with it about `OAuthFlows` and `OAuthVerifier` |
| `WebSessions` | one browser with several tabs, `LoadSession` and the handlers behind it |
| `WebSessionsProofs` | theorems about `WebSessions` |
| `FixedWindow` | what a fixed-window limiter promises, with no clean-up and no stale clock |
| `RateLimiter` | `allow`, concurrent, with clean-up; implements `FixedWindow` |
| `RateLimiterProofs` | theorems about `RateLimiter` |
| `Migrator` | migrate, seed and fresh as processes on one database |
| `MigratorProofs` | theorems about `Migrator` |
| `Config` | pure: `Load` and the pool size, with Go's integer widths |
| `ServerLifecycle` | `main`, `Start`, shutdown and the requests meanwhile; extends `Config` |
| `ServerLifecycleProofs` | theorems about `ServerLifecycle` and `Config` |
| `Csrf` | tabs, cookie jar, the script and `csrfProtection` |
| `CsrfProofs` | theorems about `Csrf` |
| `MC*` | TLC instances: symmetry sets, what the providers report, the environments |

A process (request, login, call, CLI run) has a program counter `pc` and one
action per point at which another process may see a difference: a statement's
snapshot, a row lock, a commit, an answer. Between two such points the code runs
alone and is one action.

**RefreshTokens.** The columns `family_id`, `expires_at`, `revoked_at` and
`replaced_by_token_id` are functions of the token. `SelectForUpdate` waits for
the row and tests it (`Refused`, line 337 of the store); `CommitRotation` makes the
successor and the mark visible together; `BeginSweep`, `SweepRow` and `CommitSweep`
are the family UPDATE with its snapshot, its row locks in any order and its
commit, first inside the rotation's transaction and then by itself;
`Logout` is the UPDATE of one row. `Fail` is an error of any statement, with the
answer each handler then gives; a commit may also happen and be reported as
failed. `DeadlockVictim` is PostgreSQL's detector, on minimal cycles of waiters.
`known` holds the tokens that an answer has brought to a client. The time a
handler compares with (`now`) is the one it read on arrival.

**ApiAuth.** An access token is made with each refresh token from the same clock
reading and the server keeps nothing of it, so it needs no variable: `AccessExpiry`
computes its end from the row of its refresh token. `Accepted` is
`ParseAPIAccessToken`. The only new variable, `died`, is history.

**SocialUsers, Accounts.** One action per SQL statement. Inserts of a transaction in
flight are not visible to others but occupy the unique index (`EmailHeld`,
`IdentityHeld`). The error of `UpdateUserFromProfile` is ignored and an error of
`FindByEmail` counts as a miss, as in `FindOrCreateSocialUser`. `Accounts` has one
action, `Create`; the commit of `CreateUserWithIdentity` is that step and all else
stutters.

**WebSessions.** `Send` captures the cookie, `FindSession` the row, `CheckSession`
reads the clock after the query and decides whether a touch is due (`Due`),
`TouchSession` runs with that reading, and `Arrive` applies the answer to the jar. Any error of the query makes a guest and
clears the cookie. `revoked_at` is never set by the code and is left out. `born`,
`sound` and `failed` are history.

**OAuthFlows, RateLimiter.** A call reads the clock, then gets the mutex; what it
does under the mutex is one action. In `RateLimiter` the buckets that were dropped
stay as history, so that dropping one can be compared with keeping it.

**WebLogin, OAuthVerifier.** `Authorize` is somebody at the provider agreeing to a
flow, which puts a code into the world. `Return` is `OAuthCallback` of `OAuthFlows` with
a code: `code` and `state` are two parameters of the query (`auth_handler.go` 95-96), so
it brings any code that was given out, or another string, with any state that was issued,
or another string. What tells a mix of two logins from one login is PKCE: the flow that
the state names yields the verifier that goes with the exchange (line 111), and the
provider compares it with the challenge that was in the authorization URL for which it
gave the code out. `Challenge` is the code's half of that; `Honoured` is the provider's:
it knows the code, has not exchanged it yet, gave it out itself and finds that the
verifier fits. `Exchange` uses an honoured code up, chooses a good answer of the provider
and lets `OAuthVerifier` make a profile of it; `FindOrCreate` is a step of `Accounts`,
which `social_safety` shows the statements to implement; `CreateSession` makes the
session. `Fail` is a code that is not honoured, an answer there is nothing to make of, or
a query that fails; the provider may have counted the code as used all the same. A
callback that reports an error, or has no code or no state, is turned away before the
flow store is asked and has no step. A handler that has answered is idle again and keeps
nothing. A restart (`Crash`) forgets flows and handlers, not codes and not accounts.

**ServerLifecycle, Config.** `env` is what the process finds, `cfg` what `Load` makes
of it. `main` goes through `LoadConfig`, `Connect`, `NewStorage`, the select of
`Server.Start` and the deferred `db.Close`; the listener is a process of its own. A
request alternates between waiting for a connection and holding one; its context
bounds both, nothing bounds the time its client takes to read. `Exit` ends the
process where it stands: `log.Fatalf` runs no deferred call.

**Csrf.** A tab reads the cookie (`Submit`, `SubmitBoosted`), the browser attaches
it later (`Send`), the server judges and perhaps sets a new one (`Protect`), the answer
arrives (`Arrive`) or does not (`Lose`), and the jar may be emptied (`Clear`). htmx
fires its events in an order of its own: a boosted form is serialised before the
script refills its field, with the header or without.

**Migrator.** `recorded` is the bookkeeping table, `effects` the committed work.
`Record` inserts in the transaction and waits for the holder of the same name;
`Commit` publishes both. `Reset` waits for transactions that have touched the
schema. PostgreSQL rolls back what a run leaves open: a run that lost to another
one (unique violation, deadlock) is `failed`, one stopped by another error, a
signal or its five-minute context is `killed`.

## The runs

All instances keep the number of processes at two or three: every race in this
code is between two of them, and a third is added where one has to hold a lock
while two others wait. Clocks stop at `MaxClock`, chosen so that a lifetime or
window can begin, end and be followed by another.

| run | instance | shows |
|---|---|---|
| `refresh_safety` | 2 requests, 3 tokens, 2 families, clock 0..2, lifetime 1, faults | `OneLiveToken`, `OneChain`, `RotatedInTime`, `ReuseRevokesWhatItSaw`, `HistoryIsFinal`, `ImplementsTokenFamily` |
| `refresh_reuse` | 2 requests, 3 tokens, 1 family, no clock, no faults | **violated:** `ReuseMeansFamilyRevoked` |
| `api_access` | 2 requests, 3 tokens, 1 family, lifetimes 2 and 1, clock 0..1, no faults, fairness | `LogoutRevokesToken`, `AccessEndsWithFamily`, `EveryRequestAnswered` |
| `social_safety` | 3 logins, 2 identities sharing an address, faults | `Consistent` (no user without identity), `AnswerIsOwner`, `ProfileIsOwn`, `ImplementsAccounts` |
| `social_live` | 2 logins, no faults, fairness | every login answered, a returning user's with success |
| `social_conflict` | 2 logins of one person | **violated:** `ConflictIsWithAnother` |
| `rate_limit` | 3 calls, 2 keys, limit 2, window 2, readings up to 1 old, clock 0..6 | `RetryAfterBounded`, `ForgottenIsOver`, `ImplementsFixedWindow` |
| `web_login` | 2 handlers, 2 flows, 2 codes, a person at each provider, 2 addresses, callbacks with any code and any state, 8 answers of GitHub and 4 of Google, lifetime 1, clock 0..2, restarts | `OneCallbackPerFlow`, `SignedInAsAuthorizer`, `AddressIsReported`, `NothingLostEarly`, `NoLeftovers` |
| `session_safety` | 2 tabs, 2 sessions, lifetime 4, touch after 2, clock 0..5, faults | `Consistent` (what `last_seen_at` may be), `NoEntryAfterLogout`, `AbsoluteLifetime`, `LogoutDeletesSession`, `SignOutHasACause` |
| `migrate` | 3 runs of migrate, seed or fresh, 2 migrations and 2 seeders of which the first seeder is blank, runs killed anywhere, fairness | `RecordedIsApplied`, `AppliedInOrder`, `SuccessMeansApplied`, `SomebodySucceeds`, `EveryRunEnds` |
| `server_life` | 47 environments, integers of 5 and 3 bits, 2 requests, request time-out 2, clock 0..3 | `AcceptedConfigIsUsable`, `CutOffOnlyAtTheLimit`, `CleanExitMeansAnswered`, `StopsOnSignal`, `ConnectionIsGivenBack` |
| `csrf` | 2 tabs, 6 tokens, up to 2 faults (jar emptied, message lost), fairness | `RefusedForACause`, `FormGetsThrough` |

Why the bounds are enough where it is not plain. `api_access` needs a token to
rotate, a rotation in flight and a logout or reuse that overtakes it: three tokens
and two requests; with an access lifetime of 1, readings 0 and 1 are before and
at its end. `web_login`: two codes may be of one flow or of two, of one person or of
both, and a callback may bring either with either state or with one that was never
issued, so that every mix of two logins is there. `session_safety`: touches are two
units apart, so that one that was not due would show, and the lifetime has room for two
that were. `migrate`: both migrations have effects, so that a wrong order, or the gap of a
file that was executed and not recorded, would show; the seeders have a blank file before
one with effects, which is recorded by another statement. `server_life`: the widths are
small so that wrapping happens (`9` connections become 1, `9` seconds a
negative duration); the clock goes on past `MaxClock` while a limit runs. `csrf`: six tokens are
more than two tabs and a jar can hold and still leave a new one to draw, and a
history of two faults covers a lost cookie whose replacement is lost too. A search
with three tabs and one with three faults found nothing more. Runs
with symmetry have no liveness property.

Each property of a passing run has a mutant: an operator defined just before the
one it changes, named after it, that makes the mistake it guards against.

### Where code and its tests or messages disagree

- `refresh_reuse`: after a reuse was reported the family may still have a live
  token. A rotation commits its successor after the snapshot of the family UPDATE
  was taken, once for the UPDATE in the transaction and once for its repetition;
  or the repetition is a deadlock victim and its error is dropped
  (`api_tokens.go` 80). What does hold is `ReuseRevokesWhatItSaw`.
- `social_conflict`: two first logins of one person, for example a double click,
  can end with one of them told that *another* provider holds the address.

Not disagreements, but worth knowing:

- The API's logout drops the error of its statement and answers 204, so a token may
  outlive an answered logout (`auth_api_handler.go` 145). `LogoutRevokesToken` is
  therefore checked where no statement fails. The web's logout does the same
  (`internal/web/auth_handler.go` 137), which is why `LogoutDeletesSession` excepts a
  logout whose own statement failed.
- `AppliedInOrder`, `SuccessMeansApplied` and `SomebodySucceeds` hold while no run is
  `fresh`. A `migrate` that is under way when another run drops the schema goes on
  with its next file on the empty one, and two migrations and a drop can deadlock
  in turn until all three have failed. `fresh` refuses to run outside development.
- The touch does not look at the row again: two requests that loaded a session before
  either touched it both do so, one at once after the other, and the later statement may set
  `last_seen_at` back. So successive values may be less than ten minutes apart;
  `Consistent` says that each is the login's reading or at least ten minutes after it.
- `fetchGoogleProfile` keeps an address that Google does not call verified, and GitHub's
  public address counts without a look at the list. `AddressIsReported` says so.
- A late answer that clears an old cookie also clears a newer one that another tab
  has set, and one failing query signs its browser out: the two causes
  `SignOutHasACause` names besides a logout, which no longer finds a good session.
- `SHUTDOWN_TIMEOUT` is the one duration that is not replaced when it is zero or
  negative (`config.go` 183). The limit is then over at once and a request that is
  running is cut off; `CutOffOnlyAtTheLimit` says no more than "the configured limit".
- `9223372037` as a bare number of seconds overflows in silence to a negative
  duration, which the default then replaces; `4294967297` connections become one.
  `AcceptedConfigIsUsable` holds because of the two late tests of sign.
- A listener that fails makes the process exit at once, under the requests being
  served and without closing the pool.
- The script refills the field in a listener that runs after htmx has serialised a
  boosted form, so after a lost cookie a try may be refused; a later one gets through.

## Fairness

Safety runs assume none.

- `api_access`: weak fairness for steps that wait for nothing (a goroutine is
  scheduled, a statement runs) and for the deadlock detector, strong fairness for
  steps that wait for a row, because PostgreSQL queues the waiters of a row.
  Arrivals, `Tick`, `Lose` and `Fail` have none.
- `social_live` and `migrate`: strong fairness of each process's next statement, for
  the same reason; the waits are for unique indexes, the drop's table locks and
  nothing else. That a run is started, fails or is killed is not assumed.
- `server_life`: weak fairness for time, for start-up, for shutdown and for a
  request whose context is over. None for clients reading an answer, for statements
  ending, for signals or for arrivals.
- `csrf`: the user opens a page again and, as often as it is possible, submits its
  form; the network carries what is not lost. Losses are bounded by `MaxFaults`.

## What is proved

Every safety invariant and every action property that a passing run checks, and the
three refinements, for every value of the constants: any number of processes, tokens,
files or addresses, any lifetimes and integer widths. There is one proof module to a
component. Each names an inductive invariant, `Inductive`, as a conjunction of named
parts, proves `InductiveInvariant` (`Spec => []Inductive`) with one lemma per part or
per action, and draws its theorems from it. Every `Inductive` was checked by TLC on the
instance of its run before it was proved; it is not an invariant of a run, because the
theorem says more.

The bounds on clocks and on faults are constants of the models, so a theorem holds for
each of them. The assumptions are the named ones of the modules. Most only say that a
number is a natural, that `NULL` is none of the values it stands beside and that faults are
switched on or off. Those that say more are given with the theorems.

**`RefreshTokensProofs`**

| theorem | states |
|---|---|
| `TypeCorrect`, `AtMostOneLive`, `ChainOfRotations`, `NoLateRotation`, `ReuseRevokes` | `TypeOK`, `OneLiveToken`, `OneChain`, `RotatedInTime`, `ReuseRevokesWhatItSaw` |
| `HistoryNeverRewritten` | the action property `HistoryIsFinal` |
| `LogoutRevokes` | `LogoutRevokesToken`, where no statement fails |
| `Refinement` | `RefreshTokens` implements `TokenFamily` |
| `AccessEnds` | `AccessEndsWithFamily` of `ApiAuth`; from `ApiInductiveInvariant` |

`OneLiveToken` alone is not inductive: a rotation that tested its row long ago
would make a second live token if the row had changed since. `HolderInv` says that
it holds the row lock, that the row is live and that the reading was in time;
`TableInv` says that a row that is not there says nothing and that successors are
there, which `OneChain` needs when a fresh token is drawn; `TokenInv` and
`SweepInv` tie what requests carry to rows of one family, so that a sweep revokes
inside it; `ClockInv` bounds expiries by clock readings, which `RotatedInTime`
needs for "a successor never expires earlier". Each action is a lemma: what it
does to the table, then the conjuncts it can disturb. The refinement maps
`live` to the unspent rows of a family and `issued` to all of them: `Login` is
`Open`, `CommitRotation` is `Rotate`, a `Logout` or `CommitSweep` that revokes the
live row is `Close`, and everything else is a stutter.

`LogoutRevokes` assumes `~Faults`, and has to: the handler drops the error of its
statement. Even so a logout could be a deadlock victim; `LockInv` says that it holds
no row while it waits for its own, so it is never on a cycle of waiters. `AccessEnds`
adds `DeathInv`: a family that has a `died` has no live token any more, and none of its
tokens was born after that moment, so no access token outlives it by more than
`AccessTTL`. A rotation in flight at that moment cannot add a younger token, because by
`HolderInv` it holds a live row.

**`SocialUsersProofs`** proves `UsersMatchIdentities` (`Consistent`), `AnswersAreOwners`
(`AnswerIsOwner`), `ProfilesAreOwn` (`ProfileIsOwn`) and `Refinement` (`SocialUsers`
implements `Accounts`). `EmailIndex` and `IdentityIndex` state the two unique indexes as
PostgreSQL keeps them, over committed rows and the inserts in flight: without the second
half two logins could both reach their commit. `FoundIsOwner` carries an owner found early to
the answer given late, which rests on an identity never changing hands. `Commit` is
`Create` of `Accounts`; the updates of the profile and all that fails are stutters.

**`WebSessionsProofs`** proves `TouchesAreDue` (`Consistent`), `LoggedOutIsGuest`
(`NoEntryAfterLogout`), `SessionsEnd` (`AbsoluteLifetime`), `LogoutEndsSession`
(`LogoutDeletesSession`) and `CookieLossHasACause` (the action property
`SignOutHasACause`). The parts: `Drawn`, every token anywhere came from a login;
`FixedLifetime`, no touch moves the end; `Stages` and `Readings`, what a request holds at
each statement and how its readings of row and clock are ordered; `GoneForGood`, a row that
was not there when the request was sent is not there when it looks; `ClearedIsOver`, an
answer that clears the cookie has seen a session that was over or gone, unless a
statement failed.

**`MigratorProofs`** proves `AppliedOnce` (`RecordedIsApplied`), `FilesInOrder`
(`AppliedInOrder`), `SuccessIsComplete` (`SuccessMeansApplied`) and `RaceIsWon`
(`SomebodySucceeds`). `Claims` is the primary key with its uncommitted insert: of the
runs at one file at most one is about to commit it. `Backed` is the converse of
`RecordedIsApplied`. `NothingSkipped` says that a run has passed no file that is not
recorded, for as long as nothing drops the schema. `Leader` is what makes `RaceIsWon` inductive:
wherever the table is there, some run is ahead of everything recorded or was killed or is
done. A run that is ahead finds no name taken and so does not lose a race; a run
that loses one has another ahead of it. "Some run failed, none succeeded, none was
killed" cannot be reached from there.

**`WebLoginProofs`** proves `FlowsAreUsedOnce` (`OneCallbackPerFlow`), `SessionsBelong`
(`SignedInAsAuthorizer`), `AddressesAreReported` (`AddressIsReported`) and the action
properties `FlowsLast` (`NothingLostEarly`) and `FlowsAreSwept` (`NoLeftovers`).
`UsedOnce`: a flow is found once and then is gone, and a restart brings none back;
`CodesInv`: a code belongs to an issued flow at the provider of whoever agreed; `BoundInv`:
the state of a callback is none or one that was issued, and its reading is no earlier than
the flow's; `AcceptedInv`: whatever code came with it, provider and lifetime of the flow
were right when it was consumed; `HonouredInv`: past the exchange the code is of the flow
that was consumed; `SignedInv`: the account is the one of who agreed.

`HonouredInv` is where PKCE counts. A callback may arrive with any code and any state; only
`Honoured` and `Challenge` exclude that it goes on with two that do not belong
together, and without the challenge (`Challenge_None`) TLC finds somebody signed in as who
agreed to another flow. So `SessionsBelong` is a theorem about this server together with
providers that compare challenge and verifier. `BoundInv` bounds expiries by the reading of a
callback, since a flow is older than a callback that names it.

`AddressInv`, with lemmas about `Pick`, `Primary` and `Verified`, shows for lists of any
length that an account made through GitHub has the public address or one listed as verified,
and the primary one if that is verified; for Google it shows no more than that the address is the one
that was reported. The first of a set of places is a place because `<` on the naturals is
well founded, which is cited from the library instead of being proved by induction. Three
assumptions are about providers: `IdentityAssumption` (an identity is of one
provider), `AnswersAssumption` (a provider names the identity that agreed, or nobody, or
answers with something that does not decode) and `ListsAssumption` (what decodes as a
list of addresses is one). The code trusts the providers in the first two, and its
decoder gives it the third.

**`ServerLifecycleProofs`** proves `ConfigIsUsable` (`AcceptedConfigIsUsable`), `CutOffs`
(`CutOffOnlyAtTheLimit`) and `CleanExits` (`CleanExitMeansAnswered`). The lemmas about
`Config` go through every setting: what parses is a number whatever wrapped, what stays
after the late tests of sign is positive, and the pool's size is at least one. They rest on
`WidthAssumption` (64 bits hold what 32 bits do), `DefaultsAssumption` (the defaults in the
code are positive) and `EnvAssumption` (a variable is unset, is an integer, is an integer
with a unit, or is text that is neither). `Loaded`, `Progress`, `Serving` and `Limit` say
what `main` has opened, who can be served at that point, and that the deadline is counted from
a moment after which no request comes in; so a request running at the deadline
has run for the configured limit.

**`CsrfProofs`** proves `RefusalsHaveACause` (`RefusedForACause`). `FormInv`: while nothing
has moved the jar under a page, its field, what its form offers and the cookie that goes
with it are all the jar's; `AnswerInv`: only a request without a cookie is given one.

**`RateLimiterProofs`** proves `CleanupGoesUnnoticed` (`ForgottenIsOver`),
`RetryAfterIsBounded` (`RetryAfterBounded`) and
`Refinement` (`RateLimiter` implements `FixedWindow`), from
`StaleAssumption`: no call is delayed for more than half a window between its
clock reading and the mutex. `ForgottenIsOver` needs
`Freshness`: readings are at most `MaxStale` old, so `lastSeenAt` is at most that
far behind the window's start and a bucket that is two windows unused is one whose
window is over for every call still waiting. Without the assumption the refinement
is false (TLC finds it with `MaxStale = 3`, `Window = 2`).

### Only model-checked

Liveness: `EveryRequestAnswered`, the two properties of `social_live`, `EveryRunEnds`,
`StopsOnSignal`, `ConnectionIsGivenBack` and `FormGetsThrough`. They rest on fairness, and
so on ENABLED, about which the provers available cannot reason. The two violated
properties have the counterexamples of their runs. `SessionsBelong` and
`AddressesAreReported` are about `WebLogin`, in which an account is found or made in one
step of `Accounts`; that the statements implement `Accounts` is `Refinement` of
`SocialUsersProofs`, and nothing composes the two mechanically.

### What proving showed

No property that TLC had found to hold was false for larger instances. The proofs did
change the models in four places. `ParseDuration` was a CASE with overlapping guards,
which in TLA+ leaves the choice open though TLC takes the first; it now is an IF, in
the order of the code. The choice of an address was written with an operator of a library about which it
gives no theorem; it now is stated with sets of places. The form of environments and of
providers' answers, which the instances had merely followed, became the named assumptions
above. And `Protect` of `Csrf` says in its guard that a new cookie takes a token which
nobody holds: the code draws 32 random bytes, the model has a finite set, and a step
without a token left is a bound of the instance (six tokens always leave one).

## Plan

Done: every component that keeps state, with the compositions `ApiAuth` (access and
refresh tokens) and `WebLogin` (flows, verifier, accounts, session); three abstract
specifications (`TokenFamily`, `Accounts`, `FixedWindow`), each implemented by the
detailed one; proofs of all safety properties and refinements.

Left:

1. A theorem about `SocialUsers` and `WebLogin` together: what `Accounts` guarantees
   (an identity is bound once, with its address), proved of `Accounts` and carried
   through both refinements.
2. What is true of reuse detection in `ApiAuth` terms: how long a family can live after a
   reported reuse, given that the sweep may miss one successor.
3. Weaker assumptions where the code allows it: `RateLimiter` beyond `StaleAssumption`,
   with what a client could then notice stated as a property.

## Not modelled, and why

Rendering and templates (the `*_templ.go` files are generated), security headers,
CORS, the rest of the browser script and the request helpers keep no state.
Storage: the router discards the store it is given (`internal/server/router.go`) and
nothing calls upload or delete, so there are no states of it that the program
reaches; `ServerLifecycle` has its construction, which may fail. The R2 client forwards
to a library; `dump` calls `pg_dump` and the test environment is test support. No
code deletes expired sessions or refresh tokens, so there is nothing to model but
growth. `OAuthVerifier` leaves out names and pictures, `Config` the settings that are
only copied. Cryptography is taken as ideal: drawn tokens are fresh and hashes do not collide.
The wall clock is assumed not to go back.
