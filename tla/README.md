# Aegis Mission OS: TLA+ verification

This directory holds TLA+ specifications of Aegis Mission OS, the TLC models
that check them on small instances, and proofs, checked by TLAPS, of what holds
for every instance. Paths below are relative to `src/`; `api/` stands for
`src/apps/api/src/aegis_api/` and `web/` for `src/apps/web/src/`.

Contents: [the system](#the-system) · [how it is modelled](#how-it-is-modelled)
· [the modules](#the-modules) · [the runs](#the-runs) ·
[bounds](#bounds) · [fairness](#fairness) · [the proofs](#the-proofs) ·
[what the code does otherwise than it says](#what-the-code-does-otherwise-than-it-says)
· [not modelled](#not-modelled) · [what is left](#what-is-left).

To repeat a run: `tlc -config <file>.cfg <module>`; a proof: `tlapm <module>.tla`.

## The system

A FastAPI service over one PostgreSQL database, run as one or more processes
(`api_desired_count` in `infrastructure/terraform`), and a React single-page
client. Every request is one `AsyncSession`: SELECTs see what is committed at
that moment, writes become visible at `commit()`, an exception rolls back. No
query takes `FOR UPDATE`, no row has a version column, so unique indexes and
foreign keys are the only things that stop two requests that overlap. Each
process also runs the ingestion loops as asyncio tasks.

| Component | State | Operations | Interacts with | Hard behaviour | What makes it correct |
|---|---|---|---|---|---|
| Live ingestion (`services/ingestion/`) | a task per source and process; what a poll has read | poll, submit, escalate, upsert, start, stop | clients; alerts, incidents, `asset_ephemeris`; operators | processes race on one key; stop between two commits; a failed record ends the poll; stale tracked set | one alert per key; one justified incident per alert; every record raised; every critical conjunction escalated |
| Source clients (`clients/`) | session flag, time of the last request, attempt | GET with retries, login, throttle | the outside sources; the loops | timeouts, 401 in mid-session, throttling | gives up only after all attempts or a refusal; declares failure; spacing; terminates |
| Alerts, incidents (`services/alerts.py`, `incidents.py`) | rows and the link between them; timeline | create, triage, link, status, notes | ingestion, threat intelligence, scoring, notifications | edits of one row overlap; links overwritten | links resolve; a field an edit does not set is kept; the timeline tells what happened |
| Notifications (`services/notifications.py`) | inboxes, preferences | fan-out of a critical alert, read, read all, mute | alerts, memberships | administrators and mutes change during the fan-out | whoever listened is told, nobody else |
| Reports, Sentinel (`services/reports.py`, `sentinel/engine.py`) | stored reports; an event per analysis | analyse, report on an incident or the fleet | incidents, alerts, the provider | several SELECTs, and a commit, inside one report | a report agrees with the tables and with itself |
| Sessions (`services/auth.py`) | `refresh_tokens` | login, refresh, logout | web client; MFA and SSO before a login | two refreshes, refresh and logout overlap | a rotated token is spent; a family is a chain; an ended family stays ended |
| Web client (`web/lib/api.ts`) | token pair in sessionStorage | request, refresh, logout | sessions | several 401s at once; lost answers; 5xx | a call returns; the user stays signed in |
| Workspaces and platform roles (`services/workspaces.py`, `users.py`) | memberships, role assignments | add, set role, remove, set_roles | custom roles, every permission check | count and commit apart | there is always an admin |
| Custom roles (`services/rbac.py`) | `custom_roles`, `approval_requests`, `custom_role_id` | create, assign, unassign, decide | memberships | decisions overlap; a role decided while it is assigned; a member removed meanwhile | two persons for a sensitive permission; role and request agree |
| Threat intelligence (`services/threatintel/`) | indicators, matches | register, ingest, correlate | assets, alerts | correlations overlap with each other, with upserts and with asset edits | one alert and match per pair; no hit passed over; confidence only rises |
| MissionIQ and digital twin (`services/missioniq.py`, `digitaltwin.py`, `scoring.py`) | scenarios (scores are computed) | score, summary, simulate, run a stored scenario | missions, assets, alerts | several SELECTs per answer; deletes in between; rounding | twin and MissionIQ agree; damage never helps; failures have a cause |
| Missions, assets | rows and `mission_assets` | CRUD, attach, detach | scoring, threat intelligence | cascades | links resolve |
| MFA (`services/mfa.py`) | secret, flag, recovery codes | setup, activate, verify, disable | sessions | two enrolments or two uses of a code overlap | no second factor without a seen code; a code is used once |
| Rate limit (`core/ratelimit.py`) | a Redis counter per budget | INCR, EXPIRE | login, `mfa_verify` | Redis fails, or the process stops, between the two | a spent budget is given back |
| Invites, users, SSO (`services/invites.py`, `users.py`, `sso.py`) | invitations, accounts, SSO states | create, redeem, begin, complete | memberships, sessions | one-time things used twice, at once | one account per invite; one session per flow |
| API keys (`services/apikeys.py`, `api/deps.py`) | keys, service accounts | create, mint, revoke, authenticate | memberships, every guard | revoked or demoted while a call is under way | a revoked key stays revoked; a role is one the account has |
| ABAC, quantum inventory, audit log | see [not modelled](#not-modelled) | | | | |

## How it is modelled

* A database transaction is a *read* action and a *commit* action (more reads
  where the code has more SELECTs); any step of any other actor may fall
  between. A unique index or foreign key is a guard of the commit, with the
  rollback as the other outcome. The ORM writes a column only if it differs
  from the value loaded; where that matters the loaded value is part of the
  state (`seen`, `was`, `read`).
* Rows are sequences or functions, ids are positions or model values. Data is
  kept only as far as a property distinguishes it: a conjunction is a key, a
  severity and the objects involved; an attribute is a member of a small set.
* An exception or the end of a process is an action of its own (`Fail`,
  `Stop`, `Abort`).
* History variables are named as such: `contested` and `ended` (RefreshTokens;
  `parent` is the link of a row to the one it replaced), `overtaken`
  (AdminLockout), `overruled` (CustomRoles), `stale` (ThreatIntel),
  `unlucky` (WebSession), `dirty`, `lost`, `gone` in `run` (MissionAssurance),
  `alerts` counted per pair (ThreatIntel; alerts outlive their asset there),
  `proven`, `passes`, `clash`, and a `contested` of its own (SignIn), `orphaned` (RateLimiter),
  `granted`, `opened`, `standing` (Accounts), `muddled`, `due`, `heard`,
  `quiet` (Desk). No guard of an action reads one, except that an `Accounts`
  flow number is given out once (`BeginSSO` reads `opened`).
* Where a property holds only if two requests did not meet in one place, a
  history variable says whether they did, and the property names it
  (`contested`, `ended`, `overtaken`, `overruled`, `stale`, `clash`, `muddled`,
  `quiet`, `unlucky`). Such a property says two things: that nothing but this
  meeting breaks the sentence of the code it is about, and, by what it exempts,
  that the meeting does. No property and no theorem assumes that requests do not
  overlap.
* Time is a count. In Desk the clock is the number of requests started,
  because PostgreSQL's `now()` is the start of the transaction: that is the date
  a timeline event carries.
* A list that the code reads with a limit is a page of the model: `PageLimit`
  (the newest missions of a score, the newest linked alerts of a report) and
  `AssetLimit` (the newest assets of a correlation). What lies beyond it is not
  read.
* Operators called "Seeded fault" stand before the definition they vary. No
  specification uses them: each replaces that definition, one at a time, to
  show that a property notices.

## The modules

### Ingestion, EscalationPromise (`MCIngestion`, `IngestionProofs`)

`Ingestion` is `services/ingestion/service.py`, `sinks.py` and `scheduler.py`
for any number of processes and loops. `pc[l]` is where the task of loop `l` is
suspended; `batch[l]` what is left of its poll; `known[l]` the tracked objects
it read at the start.

| Action | Code |
|---|---|
| `FetchRecords`, `FetchCatalog` | the cadence in `_loop`, the fetch of `poll_*` |
| `ReadCatalog`, `UpsertCommit` | `DbTrackedAssetLookup.tracked`, `DbEphemerisSink.upsert_many` |
| `SkipRecord`, `SubmitSelect`, `SubmitCommit` | `_process_conjunctions` / the weather loop, `DbAlertSink.submit` |
| `EscalateSelect`, `EscalateCommit` | `DbIncidentSink.escalate` |
| `Fail`, `Stop`, `Start` | an exception in a poll; `IngestionScheduler.stop`, `start` |
| `PatchRead`, `PatchCommit`, `OpenIncident` | `AlertService.update`, `IncidentService.create` |

Severity thresholds and the text of a dedupe key are outside: `Feed` says which
records a source may return.

`EscalationPromise` is the abstract specification, without loops, transactions
or races: a conjunction is raised once with the severity of its first sighting,
and at most one incident is opened for it, only if that severity is CRITICAL
and an object of it is in the mirror. `Ingestion!KeepsPromise` is the
refinement: the mapping reads the three abstract variables off the tables.

### SourceClient (`IngestionProofs`)

One client's calls, one after another: `BaseSourceClient._get_json`, the
Space-Track client with login, re-login and throttle, and the SOCRATES client,
which has none of it, and Sentinel's provider (`sentinel/providers.py`), which
has the same loop. An outcome of a GET is one of five classes. A login has four
of its own: a transport error is left to the retry loop, but any status from 400
on, a 503 or a 429 as well as a 403, ends the call at once
(`spacetrack.py:102-103`). Time is counted in ticks since the last GET.

### RefreshTokens, WebSession (`MCRefreshTokens`, `SessionProofs`)

`RefreshTokens` is table `refresh_tokens` with `AuthService.refresh` and
`logout`. `contested` holds the tokens that two refreshes had read as live
before either rotated it; `ended` the families that were revoked while no
refresh of theirs was past its read. `WebSession` EXTENDS it with one browser tab: a call's refresh *is*
the request of the same name on the server, so the composition is by shared
actions (`ReadRefresh`, `Rotate`, `RevokeFamily`, `Abort`). The refresh answer
may be a pair, a 401, a 5xx or lost. A logout may be lost too, or fail
(`LoseSignOut`): the tab ignores that (`.catch(() => undefined)`) and forgets
its pair, and the family stays live on the server until it expires.

### AdminLockout, CustomRoles (`MCAdminLockout`, `MCCustomRoles`, `MembershipProofs`)

`AdminLockout`: memberships of one workspace and the platform role admin. A
request authorises and loads, counts admins if it is to take one away, and
commits: three steps. `overtaken` holds the requests about to commit under
which another took an admin away, or changed the very row they are about.
`CustomRoles` EXTENDS it with custom roles and approvals;
`Membership` is a step of `AdminLockout` that takes the custom role along when
the membership goes. `overruled` holds the roles decided a second time, by a
decision that had read the request as pending before the first one committed.

### ThreatIntel (`MCThreatIntel`, `ThreatIntelProofs`)

`register`, `ingest` and `correlate` with each SELECT a step, among asset
creation, edits and deletes. `by_value` is a function from text to *one*
indicator of that text, as the dict in the code keeps one; `Page` is what
`assets.list(limit=10000)` returns. `stale` holds an upsert and an indicator
it has loaded whose confidence another upsert has changed since.

### MissionAssurance (`MCMissionAssurance`, `MissionAssuranceProofs`)

`score_mission` with its penalties, weights, rounding and cut-off;
`MissionIQService.fleet` and `DigitalTwinService.simulate` and `run_scenario`
statement by statement; and every write of missions, links, assets, alerts and
scenarios that changes what they read. Quarters of a point make the arithmetic
exact. A write is one step here: it is the reader that is under test. A
deduction is a sum over a set and a scenario a fold over its perturbations, both
from the community modules; `ReadSoFar` says what
the SELECTs of a request have returned, `Undisturbed` that, unless something was
written meanwhile, this is what the tables hold.

### SignIn, RateLimiter (`SignInProofs`)

`SignIn` EXTENDS `RateLimiter` and is one account: `login` and
`complete_mfa_login` behind `enforce`, and `MFAService`. A code of the
authenticator is the secret it was made from.

| Action | Code |
|---|---|
| `Attempt`, `Throttle`, `Refused` | `login` and `mfa_verify` (`api/v1/auth.py`) at `enforce`; wrong credentials |
| `Incr`, `Expire`, `RedisFails`, `Killed`, `Tick` | `FixedWindowLimiter.hit`, its `except` that lets the request pass, the end of the process between the two calls, time |
| `PasswordLogin`, `MfaLogin`, `OpenSession` | `AuthService.login`, `complete_mfa_login`, the commit of the session |
| `Verify`, `Burn` | `MFAService.verify`: the code is read as unused, then committed as used, before what it is for |
| `Enrol`, `CommitEnrolment` | `start_setup`, `activate`, `disable` |
| `Fail` | a request that fails after its reads |

### Accounts (`AccountsProofs`)

Where accounts come from and what a key may do: `InviteService`,
`UserService.create`, `ServiceAccountService`, `ApiKeyService`, `SSOService`,
and the guards of `api/deps.py`. Every insert (`Redeem`, `CreateUser`,
`CreateServiceAccount`, `Vouched`) ends in one action, `Insert`, since all four
race for the unique email. A call with a key is `Authenticate`, `Stamp` (the
commit of `last_used_at`) and `Authorise`, each of which reads at its own time.
Memberships and platform roles are changed by `Grant`, in one step: how those
requests may overlap is AdminLockout's.

### Desk (`MCDesk`, `DeskProofs`)

What people do with what the loops found: `AlertService.create` and `update`,
`IncidentService.update` and `add_note`, the notifications, `analyze_incident`
and the reports. Each `Goto` is a statement of the code: `SelectAdmins` and one
`Notify` per administrator before `CommitAlert`; `ReadLinked`,
`CommitAnalysis`, `ReadAgain` and `WriteReport` for a report, which commits the
event of its own analysis first. Both read the newest `PageLimit` linked alerts
(`limit=100`). `CommitTriage` writes the columns that differ
from what was loaded, as the ORM does.

## The runs

TLC finishes each within five minutes with two workers. No run has a type
invariant among its properties: the type invariants are in the modules
(`TypeOK`, `TypeInv`), the proofs rest on them, and `IInv` (Ingestion, AdminLockout),
`TokenInv`, `WebInv`, `ClientInv`, `RolesInv`, `IntelInv` and `AssuranceInv`,
which contain them, are what to add to a configuration when a definition
changes.

Runs that pass:

| Run | Module, cfg | What it shows |
|---|---|---|
| `ingestion_safety` | MCIngestion, `Ingestion_safety` | Two conjunction loops on two processes, a catalog loop, an operator who relinks alerts and opens an incident, exceptions and one stop. `AutoIncidentJustified` (an alert stored below CRITICAL is never escalated by a later sighting), `OneAutoIncidentPerAlert` whatever the operator does to the link, and the refinement `KeepsPromise` |
| `ingestion_steady` | MCIngestion, `Ingestion_steady` | Liveness with no exception and no stop: `EveryRecordRaised` although a concurrent insert ends the other's poll with records unprocessed, and `EscalationRule` while severities are not revised |
| `client_retry` | SourceClient, `SourceClient_retry` | All clients, with Sentinel's provider, against every pattern of outcomes: `PatientWithOutages`, `FailuresAreDeclared`, `ReauthOncePerAttempt`, `SpacedAttempts`, `CallEnds` |
| `tokens_rotation` | MCRefreshTokens, `RefreshTokens_rotation` | Three overlapping refreshes and logouts, with reuse, failures and expiry: `RotationChain` and `OneLiveToken`, unless two refreshes had read one token live at once; `EndedStaysEnded`, unless a refresh was in flight at the end |
| `web_faults` | WebSession, `WebSession_faults` | Two calls at a time, lost answers, 5xx, expiry, sign-out that may fail: every call returns, the tab's token is live and the session survives, *unless* two calls were at the pair at once or a refresh failed (`unlucky`) |
| `roles_approval` | MCCustomRoles, `CustomRoles_approval` | Two overlapping custom-role requests and two overlapping membership requests, two of the four at a time: `TwoPersonRule`, `DecisionGoverns`; `HeldRolesActive`, unless a second decision rejected the role; `WorkspaceGuardHolds` and `PlatformGuardHolds`, by which a last admin goes only through a request that another overtook |
| `intel_correlate` | MCThreatIntel, `ThreatIntel_correlate` | Two correlations or upserts at a time, and edits and deletes of two assets, with two indicators of one text: `OneAlertPerPair`; `CorrelationComplete`, with an indicator of each text read; `ConfidenceNeverFalls`, unless at the commit of a stale upsert |
| `assurance_reads` | MCMissionAssurance, `MissionAssurance_reads` | Summaries, simulations and stored scenarios with up to two writes between their statements: `QuietRunIsLive`, `DamageNeverHelps`, `RemovalNeverLowers`, `FailureHasCause` |
| `signin` | SignIn, `SignIn_account` | Two requests at a time against one account, Redis failing before or after it did its part: `EnrolmentHolds`, `RecoveryOnce`, and the liveness of the limiter, `ThrottleLifts` |
| `accounts` | Accounts, `Accounts_roster` | Two requests at a time among invitations, account creation, SSO and keys, with an administrator's change: `InviteSpentOnce`, `FlowOpensOne`, `RevokedForGood`, `CallsHadStanding`, `KeysStayCapped` |
| `desk` | MCDesk, `Desk_desk` | Three requests, two at a time, of every kind of the desk: `TimelineTellsStatus`, `UnsetFieldsKept`, `ListenersAreTold`, `QuietReportAgrees` |

One run in which TLC finds a violation of a sentence in the repository:

| Run | Property | What the code does |
|---|---|---|
| `admin_workspace` | `WorkspaceKeepsAdmin` | Two demotions overlap; each counts the other's admin, and "the last workspace admin cannot be removed or demoted" (`workspaces.py:4`) does not hold |

## Bounds

* Ingestion: two conjunction loops are the least that race on a key, and two
  keys with different object sets the least where one record can be lost behind
  another. The safety run's feeds hold a record below every threshold, a HIGH
  and a CRITICAL sighting of one key (by two loops, in either order) and a batch
  of two; in the liveness run both conjunctions are CRITICAL in every batch.
  `MaxManual = 1`: one foreign incident suffices to be linked and unlinked.
  `MaxStops = 1`: one stop can fall between any two steps.
* SourceClient: `MaxRetries = 3` is the code's default; `MinInterval = 3` lets
  the interval elapse before, during and after a backoff.
* RefreshTokens: four rows give a family of three and a second family; of three
  requests two meet at a token and the third comes upon what they leave.
  WebSession has three rows and two calls. `MaxTokens` is also the guard `Room`,
  so a run of WebSession may simply run out of tokens: `CHECK_DEADLOCK FALSE`
  there for this reason only.
* AdminLockout, CustomRoles: two users are the least with a "last" one and with
  two persons to approve. One role: roles do not interact, except through the
  slug, which is its name. Bundles: one without and one with a sensitive
  permission. `MaxBusy = 2` in the composed run: two requests at a time, of
  either kind or of both. Once a lost race has left neither a workspace nor a
  platform admin, nobody may ask for anything: `CHECK_DEADLOCK FALSE`.
* ThreatIntel: three indicators, two of them with one text; two assets, which
  hold no text or both, so that a run has several pairs to insert and two runs
  share some of them; `AssetLimit = 1`, so that the older asset is out of reach
  while the newer one is there; three levels of confidence, so that the lower of
  two upserts may be committed last; two requests at a
  time.
* MissionAssurance: three missions with a page of two put one out of reach and
  bring one in when another is deleted; `MaxWrites = 2` puts writes between two
  different pairs of statements; the starting tables hold an asset shared by
  two missions in two criticalities, and scores from 100 down to the cut-off at
  zero are reached through the scenarios.
* SignIn: a limit of one and a window of two ticks are the least with a hit
  inside a window that is not its first. Two secrets and two activations allow
  an enrolment to be replaced; three requests past their reads, two of them to
  hold one thing and a third to find what they left. The account starts new,
  with a session, or with a session and a second factor, so that the three
  requests are not spent on getting there. Those states are reached by a login,
  a setup and an activation. A counter past the limit is not counted further.
* Accounts: two emails, so that requests race for one and not for the other;
  three accounts, two keys, one invitation and one flow, each of which two
  requests may be after at once; three requests past their reads and one change
  of role. A service account and its key exist from the start, as after
  `CreateServiceAccount` and `Mint`. The bounds end the run:
  `CHECK_DEADLOCK FALSE`.
* Desk: two requests at a time of three in all: one before, to leave something,
  and two that meet; two alerts, one of which may be new; two statuses, with
  "open" the one to come back to; two fields, one set and one not. Whether
  preferences exist and who administers differs between initial states.
  `PageLimit = 1`, so that the second linked alert pushes the first off the page.
  `CHECK_DEADLOCK FALSE` for the same reason.

Symmetry is used only in runs without temporal liveness, over values that no
definition distinguishes: users other than the founder, and requests.

## Fairness

* `SteadySpec` (Ingestion): weak fairness of each loop's `Poll`, as `_loop` is
  a `while True` around sleep and poll; of each host's `Start`, as the
  container orchestrator restarts a stopped task. The steps of one poll are
  never enabled together with another of the same loop, so fairness of their
  disjunction is fairness of the loop. It has no `Fail`: a poll that fails
  between alert and escalation loses the escalation exactly like a stop.
* SourceClient: weak fairness of the client's own steps and of the clock.
  `Begin` is not fair; nothing obliges a poll.
* WebSession: weak fairness of what network, server and tab do for a call that
  is under way. The user is under no obligation, nor is any expiry.
* SignIn: weak fairness of the clock and of `Handle(r)`, the server's work on a
  request it has accepted, failures included. `Attempt` and `Enrol` are not
  fair. `ThrottleLifts` needs no more: a refused hit does not renew the window.
* The other specifications state no fairness: safety is all that is claimed.

## The proofs

Each holds for every value of the constants that satisfies the named
assumptions of its module (types of the constants; finitely many users in
AdminLockout, finitely many missions and assets in MissionAssurance). Every invariant and
every action property of the passing runs is stated by one of them.

| Module | Theorem | Establishes |
|---|---|---|
| IngestionProofs | `Invariance` | `IInv` is invariant |
| | `TypeCorrect`, `DedupeKeyUnique`, `IncidentsJustified`, `OneIncidentPerAlert` | the safety properties, from it |
| | `Refinement` | `Spec => KeepsPromise`: the loops implement `EscalationPromise` |
| | `ClientInvariance` | `ClientInv` is invariant: for every number of retries and every spacing |
| | `OutagesMetPatiently`, `FailuresAlwaysDeclared`, `ReauthAlwaysOnce`, `AttemptsAlwaysSpaced` | the safety properties of a source client, from it |
| SessionProofs | `RotationSpends` | a rotated token is spent |
| | `TokenInvariance`, `FamilyIsChain`, `SessionHasOneToken`, `FamilyEndsForGood` | the chain, its one live token and the end of a family, for any number of overlapping requests |
| | `TabInvariance`, `StoredTokenStaysLive`, `SessionKept` | the tab, with any number of calls: its token is live and its session kept, unless two calls refreshed at once or a refresh failed |
| | `TabUsesServer` | `WebSpec => TokenSpec` of RefreshTokens: the tab does to `refresh_tokens` only what the server allows |
| MembershipProofs | `AdminInvariance`, `WorkspaceGuarded`, `PlatformGuarded` | a last admin goes only by an overtaken request, for any number of overlapping ones |
| | `RolesInvariance`, `SensitiveNeedsTwo`, `DecisionsGovern`, `HeldMeansActive` | the approval rules, whatever overlaps |
| | `RolesImplementMembership`, `RolesGuardAdmins` | `RolesSpec => Spec` of AdminLockout: the composition adds no behaviour to memberships, so its guards hold in the composed system |
| ThreatIntelProofs | `Invariance`, `TypeCorrect`, `OneAlert` | whatever overlaps: one alert and match per pair, no dangling match |
| | `ConfidenceRises` | whatever overlaps: a confidence falls only at the commit of a stale upsert |
| | `CorrelationFindsAll` | whatever overlaps and whatever texts indicators share: `CorrelationComplete` |
| MissionAssuranceProofs | `AssuranceInvariance` | `AssuranceInv` is invariant |
| | `QuietRunsAreLive`, `FailuresHaveCauses` | what a request answers, and when it fails, with any number of missions, assets and writes |
| | `DamageNeverRaises`, `LossNeverLowers` | a scenario of any length: outages and alerts raise no score, losses lower none |
| | `ScoreInRange` | a score is within 0..100 whatever the assets and alerts; the code's `min(100, ...)` never acts |
| SignInProofs | `RecoveryCodesOnce` | a recovery code is accepted twice only if two requests held it at once |
| | `EnrolmentAlwaysHolds` | the second factor is one of which a code was seen, unless two enrolments met |
| | `CountersAlwaysExpire` | the limiter's counters all have an expiry, or are about to, or are `orphaned` |
| AccountsProofs | `AccountsTyped`, `InvitesAlwaysSpentOnce`, `FlowAlwaysOpensOne`, `RevokedAlwaysForGood`, `CallsAlwaysHadStanding`, `KeysAlwaysCapped` | types and the five properties of the run, whatever overlaps |
| DeskProofs | `DeskTyped`, `TimelineAlwaysTells`, `UnsetFieldsAlwaysKept`, `QuietReportsAgree`, `ListenersAlwaysTold` | types and the four properties of the run, whatever overlaps |

The arguments, and why the properties are not inductive by themselves:

* **Ingestion.** That an incident is opened once is not visible in the tables:
  an operator may clear the link, and `escalate` would then open another.
  What prevents it is `EscalationOwned`: only the loop whose INSERT succeeded
  escalates; it inserted the alert as CRITICAL, no other loop is escalating
  that key, and no automatic incident names the alert yet. This in turn needs
  the unique index (`UniqueDedupeKey`), that the loop's tracked set is still
  true (`PollHoldsRecords`: the mirror only grows) and that links and loaded
  rows exist (`LinksResolve`). The refinement maps `SubmitCommit` to `Raise`,
  `EscalateCommit` to `Open`, `UpsertCommit` to `Refresh`, and every other step
  to a stutter.
* **RefreshTokens.** `RotatesFirst`: a refresh about to rotate a token that is
  not contested is the only one there, and the token has no successor yet.
  `OneCarrier`: of the tokens of a family that are live *or about to be
  rotated* there is one; a rotation hands that on from the old token to the new
  one, even when a revocation has come between. `EndedIsQuiet`: no refresh of an
  ended family is past its read, and none gets there, since none of its tokens
  is live. A rotation is the only step that inserts into a family.
* **SourceClient.** `ClientInv`: how far a call has got bounds everything it
  has done. `PerAttempt` counts GETs and logins against the attempts begun, with
  one GET more while the re-login of the present attempt is under way; `Spaced`
  ties the ticks since the last GET to the phase, so that the throttle's sleep
  has been slept when the attempt's GET is sent. The properties speak of the end
  of a call; the invariant speaks of every phase before.
* **WebSession.** While not `unlucky`, at most one call is at the pair
  (`OneAtPair`), and the token it has taken from storage, or the one in
  storage, is live (`AtStored`). `unlucky` is set by the very step that breaks
  either. What the server does under a call is `RefreshTokens`' action of the
  same name, so its invariant is used, not proved again (`TabUsesServer`).
* **AdminLockout.** `GuardInv`: at the commit of a request that nobody overtook
  more than one admin is left, if it takes one away, and otherwise the row is as
  it was read: whatever would change either puts the request into `overtaken`.
  Removing one element of a finite set with more than one leaves one: the only
  place where finiteness is used.
* **ThreatIntel.** `KnowsStored`: a correlation only inserts pairs of stored
  indicators, and the commit checks the pairs and the assets again, so `alerts
  <= 1` does not depend on what was read. `NothingUnborn` covers assets not
  created yet. `ConfidenceRises` adds `UpsertCurrent`: what an
  upsert has loaded is still so, and what it will write is no less, unless it is
  stale for that indicator. For `CorrelationComplete`, `LookupComplete`:
  `by_value` holds, for each text of the indicators read, *one* of them. With
  two indicators of one text the other one is passed over, which is why the
  property asks for a match with an indicator of the text and not with each.
* **MissionAssurance.** `AssuranceInv`: the tables hold rows of the missions,
  assets and links that exist; what a request has read is such rows too; and
  until the first write after its start (`dirty`), it is what the tables hold
  (`Undisturbed`). From there the answers are the same expressions over equal
  arguments. The properties of scenarios compare two fleets: every perturbation
  of the kind in question keeps the relation "no better" (or "no worse")
  between the fleet before it and after, and so does the fold over a sequence of
  them; deductions are then compared set by set, and the score by the
  monotonicity of rounding (`RoundMonotone`). Sums and folds are recursive
  functions of the community modules; what is needed of them (they exist, are
  unique, typed, monotone) is proved by taking a smallest set that contradicts
  it (`SmallestSubset`), in place of an induction.
* **CustomRoles.** `JobsSound`: a role found active is active unless it was
  decided a second time, and a request's author never changes, so a check made before the commit is still
  good at the commit as far as the commit relies on it. `DecidedByAnother`
  carries the second person from the check to the row.
* **SignIn.** `Shapes` first reduces every step to four: nothing happens to the
  account, a request loads, a code is accepted, an enrolment commits. `CodeInv`:
  a code that nobody contested is held by at most one request, and one already
  accepted is neither unused nor held; since codes are issued in order, a new
  one was never accepted. `EnrolInv`: without a clash the single enrolment under
  way still finds the account as it loaded it. `GateInv`, for the limiter: a
  request that is calling Redis has a budget left and has loaded nothing, so no
  step but the limiter's own can take away the one that owes a counter its
  expiry.
* **Accounts.** Each property has its own invariant over `TypeInv`.
  `FlowInv`: a flow still stored, or held by a request, has opened nothing,
  and only one request holds it, as taking the state deletes it.
  `StandingInv`: the role a call goes by is among what has been true of its
  account since it began. `CapInv`: keys belong to service accounts, and those
  not granted anything since have no platform role and are no admins, before
  their insert too. `InviteInv`: an account an invite made has the invite's
  email and emails are unique, so there is one. That argument does not look at
  `used` at all: the unique index carries the property, and the flag only
  spares a second redemption the attempt.
* **Desk.** `ClockInv` (events and requests are dated before the next request)
  and `TimelineInv`: without two status changes at once the one under way
  loaded the present status, and its event will be later than all others.
  `ReportInv`: what a quiet request read is what the tables hold, its own event
  apart. `HeardInv` and `ToldInv`: an administrator who has been one, unmuted,
  since the request began is still to be told or among those told, and whoever
  is told was both at some time. `UnsetFieldsKept` needs only types: the commit
  is compared with the row that was loaded.

Only model-checked: liveness (`EscalationRule`, `EveryRecordRaised`, `CallEnds`,
`CallReturns`, `ThrottleLifts`), which this prover does not do under fairness,
as it can reason neither about ENABLED nor by well-founded induction over a
temporal formula. For two of them the safety they rest on is proved: the
attempts of a call are bounded (`ClientInvariance`, for `CallEnds`), and a
standing counter has its expiry (`CountersAlwaysExpire`, for `ThrottleLifts`).
The violation run's `WorkspaceKeepsAdmin` is false of the code; what the guard
does achieve is `WorkspaceGuarded`.

## What the code does otherwise than it says

The violation run above is the finding listed in `PROJECT.json`. The following
were met while modelling; no run is kept for them.

Reproducible by changing a constant:

* `PROPERTY StaysSignedIn` in `WebSession_faults`, in place of the properties
  there and with `Faults = {}`: two calls meet an expired access token; the
  second presents the token the first rotated; reuse detection revokes the
  family and the user is signed out.
* `MaxStops = 1` in `Ingestion_steady`, for `EscalationRule`: a process stops between the alert's commit and `escalate`; the next poll
  finds the alert and skips the escalation for ever.

Named as the exception of a property, and reproducible by leaving it out:

* Two refreshes of one token that overlap both rotate it and fork the family
  (`auth.py:109`; `contested` in `RotationChain` and `OneLiveToken`), and a
  refresh in flight during a logout or a reuse detection leaves a live token in
  the revoked family (`auth.py:138`; `ended`).
* Two `set_roles` leave the platform without an admin (`users.py:75`;
  `overtaken` in `PlatformGuardHolds`).
* Two opposite decisions on one approval that overlap: the later one wins
  without looking again, and if it rejects, somebody may hold the role, given to
  them in between or even after, by an `assign` that had read it active
  (`rbac.py:122`, `187`; `overruled` in `HeldRolesActive`). ADR-0014 says
  "Pending and rejected roles are unassignable". The rows agree afterwards
  (`DecisionGoverns`), but the first decider was told otherwise.
* Two overlapping upserts may lower a confidence (`engine.py:135`; `stale` in
  `ConfidenceNeverFalls`); ADR-0008 says it is the maximum seen.
* A Space-Track login that is answered 5xx or 429 gives the source up at once
  (`spacetrack.py:102`; the last disjunct of `PatientWithOutages`), where
  `base.py` says of transient failures that they are retried.

Visible in a definition:

* A conjunction whose severity is revised upwards after its alert was stored
  never escalates (`SubmitSelect`; `AutoIncidentJustified` states it).
* `escalate` overwrites a link an operator sets between its SELECT and its
  commit (`sinks.py:117`, `EscalateCommit`).
* The GET repeated after a Space-Track re-login is not throttled
  (`spacetrack.py:129`); `SpacedAttempts` therefore speaks of the GETs that
  open an attempt.
* SOCRATES failures are neither retried nor turned into `SourceUnavailable`
  (`socrates.py:61`); `FailuresAreDeclared` leaves that client out.
* A lost answer to a refresh signs the user out at the next 401
  (`unlucky` in WebSession).
* Of two indicators with one text (two types, or two spellings) only one can
  match an asset (`by_value`; `ReadIndicators`).
* A correlation reads the newest 10000 assets (`AssetLimit`), and an analysis or
  an incident report the newest 100 linked alerts (`PageLimit` of Desk), without
  saying so.
* A logout that fails is ignored by the tab, and the session's tokens stay live
  on the server (`api.ts:114`, `LoseSignOut`).
* The twin "rescores every mission" (`digitaltwin.py:4`), but reads the newest
  100 (`PageLimit`).
* The MissionIQ summary fails when an asset is deleted between the statement
  that reads the links and the one that reads the assets; the twin passes over
  it (`FailureHasCause`).
* The threat level and the number of open alerts come from separate statements
  and may belong to different moments; so may the parts of a score.
* `remove_asset` ("total loss") can only raise a score (`RemovalNeverLowers`).
* A stored scenario that names a deleted asset can never run again, and one
  that is deleted while it runs fails after its simulation was committed.

* A recovery code that two logins have read is accepted by both
  (`mfa.py:79`; `contested` in SignIn), although codes are "one-time".
* An activation that overlaps a second setup leaves MFA on with a secret no
  authenticator may have (`clash`).
* If Redis fails, or the process stops, between INCR and EXPIRE, the counter
  never expires and the address or the email stays refused (`orphaned`);
  "fail-open" covers the request at hand only (`ratelimit.py`).
* "Fail-open: notification errors never fail the calling operation — callers
  already committed their own state" (`notifications.py:5`): `create` has not,
  and if a notification cannot be written the alert is not either
  (`CommitAlert`).
* The cap on service accounts is looked at only when they are created;
  `set_member_role` and `set_roles` may raise one to administrator
  (`KeysStayCapped`).
* A key of a service account that was removed from the workspace cannot be
  revoked through the endpoint, which asks for the membership first (`Revoke`);
  the key itself still authenticates, with whatever platform role the account has.
* Two status changes that read the same status both record a transition from
  it, of which one did not happen (`muddled`).
* A report commits its analysis to the timeline and then shows the timeline
  without it (`QuietReportAgrees`); with a commit in between, its two counts
  of the same alerts may differ.
* A provider that answers 2xx with JSON of another shape is an error to the
  user: `complete` turns transport errors, status codes and bad JSON into
  `ProviderError`, and Sentinel falls back on nothing else (`malformed`).

Outside the modules:

* A workspace admin who holds a custom role keeps managing the workspace:
  `_require_ws_admin` (`api/v1/workspaces.py:55-65`) looks at `membership.role`
  only, contrary to ADR-0014, decision 2.

## Not modelled

* Rendering, parsing, prompts and wording: report PDFs, Sentinel prompts,
  narratives, the web pages. No state.
* Configuration, logging, health, migrations, seeds, Terraform: fixed before
  the system runs.
* QuantumShield and the audit log: single-row writes and reads of aggregates.
* Attribute-based access control (`core/abac.py`): the comparison of one row
  with the user that the same request has loaded, on three ordered values;
  `set_clearance` is a single-row write. Nothing is kept between two requests.
* Password hashing, JWT signatures, TOTP arithmetic, the exchange with the
  identity provider and the checks of its ID token: taken as passed or refused.
* Of the modelled parts: dependencies and classification of assets, listing
  endpoints, the single notifications of invites and approvals, the kinds of
  report that have the shape of the executive one, the summary and commander of
  an incident, which are written like an alert's fields.

## What is left

In order of weight:

1. **Single-use tickets**: an abstract specification that recovery codes, SSO
   states and invites each refine, with the proofs above as its lemmas.
2. **EscalationPromise**: its own invariants, so that Ingestion's follow by
   refinement.
3. **Escalation, between safety and liveness**: that a loop gives up an
   escalation only with the alert linked, or by an exception or a stop; the
   safety `EscalationRule` rests on.
