# TLA+ models of the EU AI Act compliance platform

This directory holds TLA+ specifications of the platform in `src/`, TLC configurations that
model-check them on small instances, and TLAPS proofs of the results that matter most. Paths
below are relative to the repository root.

1. [The system](#1-the-system): inventory of components, state, operations, interactions
2. [The modules](#2-the-modules): what models what
3. [The runs](#3-the-runs): what each shows, its bounds
4. [Fairness](#4-fairness)
5. [The proofs](#5-the-proofs)
6. [What the code does not keep](#6-what-the-code-does-not-keep)
7. [What is not modelled, and the plan](#7-what-is-not-modelled-and-the-plan)

## 1. The system

A multi-tenant web application (FastAPI, SQLAlchemy) that classifies an AI system against the
EU AI Act, maps obligations, assesses evidence, and keeps the result as a record. Around it
stand operator programs (seeding and amending the law, purging, creating users). The database
is the only state that several processes share; the rate limiter and the session signer live
in the web process.

| Component | State | Operations | Hard behaviour |
|---|---|---|---|
| Legal corpus (`legal/versioning.py`, `ingest.py`, `queries.py`) | `source_documents`, `requirements` (chained by `superseded_by_id`), conditions, exceptions, provenance, crosswalks | `supersede_requirement`, `ingest_seed` and the seed script, lookups of live versions | amendments racing on one version; a seed of four transactions that can die between any two; stale copies in a session |
| Assessment web flow (`api/routers/assessment.py`) | nothing on the server between `POST /assess` and `POST /report`: the classification travels in the browser's form | assess, report, history, deadlines, a past assessment's page | the law changes between the two requests; error records; forms sent twice |
| Assessment log and retention (`observability/assessment_log.py`, `retention.py`) | `assessment_records` | record, list, purge, delete | purge killed, repeated, racing deletion; what becomes "latest" |
| AI system registry (`systems/registry.py`) | `ai_systems` | get-or-create by name | lookup and insert without a unique constraint |
| Update alerts (`legal/update_alerts.py`) | none: computed from the latest record and the law | alert | inferred from two clocks rather than from versions |
| Deadlines (`legal/deadlines.py`) | none: computed from the latest record of each system and the law | due dates, what applies next, `/deadlines` | month arithmetic; one look at the clock per row; records that retention takes first |
| Rate limiter (`api/rate_limit.py`) | per-client deque of timestamps | `check`, from worker threads | no lock: count and append are separate; boundary of the window |
| Classification, retrieval, obligations, gaps, review, evidence | none | deterministic rules around one LLM call each | failing closed, guardrails, cut-offs |
| LLM client and instrumentation (`llm/`, `observability/instrumented_client.py`) | `llm_calls` | a call, one retry, a record of it | provider failure between the two calls |
| Tenant isolation (`persistence/tenancy.py`) | the session's bound tenant, cross-tenant flag | SELECT filter, flush check | identity map, nesting of contexts |
| Authentication and roles (`auth/`, `api/auth.py`, `api/routers/auth_routes.py`) | `users`, signed cookies in browsers | login, logout, current user, role check | an expiry in whole seconds against a finer clock; a secret that changes; the order in which a route asks for user, role and budget |
| Provisioning and migrations (`scripts/create_user.py`, `alembic/`) | `tenants`, `users`, the schema and its version | create a tenant or a user, upgrade, downgrade | a script of two commits; an upgrade that is atomic on PostgreSQL and not on SQLite, beside programs that use the database |
| Incidents (`incidents/registry.py`) | `incidents` | create, mark reported, list | two users marking at once; a list sorted by a deadline that no column holds |
| Report, templates, evaluation | none, or run offline | | |

How they interact: `POST /assess` calls classification, which calls retrieval (a query of the
live legal corpus) and the LLM client once per category, and sends the classification to the
browser. `POST /report` takes it back, calls the registry, obligation mapping (another query of
the corpus), evidence, gaps and review, and stores one assessment record. `/history` and
`/deadlines` combine the latest record of each system with the corpus as it is by then. The
purge works on the records of every tenant. Amendments reach the web process only through the
database.

What makes each correct:

- *Legal corpus*: exactly one live version of every ingested requirement; versions form one
  chain and are never rewritten; what an amendment does not change (conditions, exceptions)
  stays; every source is all or nothing; a seed that ends left nothing out.
- *Assessment lifecycle*: no false alert; an alert does not vanish; no purge brings an older
  conclusion back; every expired record goes.
- *Rate limiter*: never more than the limit in a window for sequential requests, never a refusal
  without cause, a bounded overrun with threads.
- *Classification to review*: no conclusion without a retrieved basis, whatever the model answers;
  what a rule concludes is true of the law as it was found; an obligation is cleared by supplied
  text only; whatever is doubtful is flagged for review; a record forgets no tokens of calls that
  returned and invents none; every request is answered.
- *Tenants*: to each tenant the shared tables behave like tables of its own, with one system of a
  name; no statement is one that the filter cannot protect; rows that refer to one another belong to one tenant and name its users; viewers leave no trace; pages lose nothing.
- *Login*: a session ends when it should and not before; whatever is costly was charged to the
  budget of its route; strangers cannot spend the budget of those who may assess.
- *Deadlines*: due on the anniversary; no date on which something comes into force is skipped; no
  assessed system is missing from the page, and what is overdue comes first.
- *Provisioning and migrations*: an upgrade adopts every row or none; an incident has the tenant of
  its system; an e-mail has one account; whatever is in the way of an upgrade can be explained.

The hazards, each at its line and with the properties about it, are in `PROJECT.json`.

## 2. The modules

| Module | What it is |
|---|---|
| `LawBook` | abstract: sources entered whole, one text of a requirement in force, amended in sequence |
| `LegalCorpus` | the corpus tables, the transactions of `supersede_requirement`, the seed script; implements `LawBook` |
| `LegalCorpusProofs` | its inductive invariants, theorems and the refinement |
| `AssessmentLifecycle` | an assessment from form to purge beside amendments and the calendar |
| `AssessmentLifecycleProofs` | its inductive invariant and theorems |
| `AssessmentPipeline` | one request through classification, obligations, evidence, gaps, review and storing, beside seeding |
| `AssessmentPipelineProofs` | its inductive invariant and theorems |
| `TenantRooms` | abstract: every tenant has tables of its own |
| `Workspaces` | sessions, listeners, the tenant-owned tables and the handlers on them; implements `TenantRooms` |
| `WorkspacesProofs` | its inductive invariant, theorems and the refinement |
| `SlidingWindow` | abstract: a limiter that remembers every request |
| `RateLimiter` | `RateLimiter.check`, one call at a time; implements `SlidingWindow` |
| `ThreadedRateLimiter` | `RateLimiter.check` step by step in several threads |
| `ThreadedRateLimiterProofs` | its inductive invariant and theorems |
| `Access` | the routes' guards, login and the session cookie, over `RateLimiter` |
| `AccessProofs` | the proofs of `RateLimiter` (window bound, refinement) and of `Access`, which leaves it undisturbed |
| `Calendar` | Python's dates, and `_add_months` on them |
| `Deadlines` | `/deadlines` system by system, and the order of incidents |
| `DeadlinesProofs` | lemmas on the calendar, its inductive invariant and theorems |
| `Provisioning` | the tenancy migration up and down, and `create_user.py` |
| `ProvisioningProofs` | its inductive invariant and theorems |
| `MC...` | constants and symmetry for TLC |

### LegalCorpus

`rows` are the committed rows of `requirements`; `supersededBy`, `conditions`, `exceptions`,
`provenance` and `crosswalks` are the columns and tables that hang on them. A row is
`[key, version, txn]`: its uuid is abstracted to who inserts it, so two transactions that insert
the same version would make two rows. The remaining columns (text, actor role, penalties) are
copied and never branched on, and are left out.

The database is read-committed. A transaction's rows appear at its `Commit`. An insert of a
unique key waits while another open transaction holds the same entry (`FlushInsert` is disabled)
and fails when a committed row does (`InsertConflict`). An editor is a session whose caller loads
a requirement (`Load`, keeping the copy of `superseded_by_id` that the check of
`supersede_requirement` reads), and then goes through its two flushes and the commit; it can roll
back anywhere. `.txn` says nothing about locks: the row lock that the second flush takes on the
old row needs no model, because the unique constraint on `(requirement_key, version)` lets one
editor at a time past the first flush for a given old row.

A seeder is a run of the seed script (`SeedStart`) or a direct call of `ingest_seed`
(`IngestSeed`, as in `scripts/demo.py` and the tests). It ingests sources and then frameworks,
one transaction each, and can die anywhere (`SeedEnd`). The lookups of one framework's targets
are separate statements, in any order, between which amendments may commit. A framework may cite
one requirement several times; the model counts these citations as one.

`LawBook` is what the rest of the program relies on, without rows, links, transactions or runs that
die: `ImplementsLawBook` maps `documents` to the sources entered, the versions of a key to what is
on file, and the live row's version, conditions and exceptions to the text in force.

### AssessmentLifecycle

A requirement is its key and the times at which its versions were created; that they form one
chain is what `LegalCorpus` proves. Time is a counter of instants. `created_at` is taken to the
microsecond as the row is flushed, so every stamp takes an instant of its own (`StampTaken`) and the
order of an amendment and a record is never lost. `tab` is a browser tab and the request it waits for: the form
it holds is the classification (`cited`) and, as history, the versions it `saw`. `Retrieve` reads
one requirement at a time, because `classify_system` issues one retrieval per category with an LLM
call between them. What the LLM answers is arbitrary (`Classified`). `ReportStart` is atomic up to
the first `await` after obligation mapping, and `Store` is the final insert. How a name finds its
system is left to `Workspaces`. `saw` and `overtaken` of a record are history: the versions it rests
on, and whether one of them had been superseded when it was stored. A record has the `keys`
that an alert looks for in its two JSON columns. Amendments stamp `created_at` at their flush and
become visible at their commit (`AmendFlush`, `AmendCommit`). The obligation to cease a prohibited
practice is no requirement and is never outdated, so only the high-risk obligations are modelled.
The date an assessment is about decides which requirements were in force, and is left to
`AssessmentPipeline` and `Deadlines`.

### AssessmentPipeline

`AssessmentLifecycle` leaves open what a classification and a report say; this module models it.
`ingested` is the set of requirement keys in the corpus: it only grows, because an amendment keeps a
requirement's key and copies its applicability (`LegalCorpus!ApplicabilityCarriedForward`). One
client works through its form, `/assess` (or the public `/ai-risk-check`), the obligations form and
`/report`; `phase` is where it has got to, and `asked` and `attempt` are the call of the LLM client
under way. A query of the corpus is a step, and so is a call's end, because sources may be ingested
between any two: the retrieval by date and the one without (`Retrieve`, `Probe`) may find different
laws. The model may answer anything its schema accepts (`ClassifierAnswers`, `AssessorAnswers`),
including the wrong category, a citation of anything and a conclusion without one; it may be
malformed twice, and the provider may fail in either attempt. `Conclude` and `Judge` are the
guardrails. `ReportStart` maps the obligations again, as `/report` does.

Abstracted: the ranking by keywords (any choice of the `Limit` best), the role filter (articles
9 to 15 are for providers and the rest for any role, but no category's keys are among those articles,
and obligations are looked up by key without it, so it removes no candidate), the seven evidence dimensions (the schema wants all of them,
and met for COMPLIANT: an answer that fails this is a malformed one), what file libraries extract
(text, blank text or a refusal), and `confidence` with the flag `LOW_CONFIDENCE`. A completion costs
one token. Of the five categories only two have key prefixes; the other three behave alike, and the
instance has one of them.

### Workspaces

`session` is `Session.info` of every process: a tenant or none, and the cross-tenant flag. `Visible`
and `QueryAllowed` are the SELECT listener: what it filters, and what it raises for. A query is the
tables it names anywhere and those whose entity is in its columns clause, where alone the filter can
attach (`Select`, `Count`). `InsertAllowed`, `Stamped` and `ChangeAllowed` are the flush listener.
`NoIsolationError` says of every select, insert and change a handler may be about to make that
neither raises: the transitions themselves assume it only where they change a row. A handler is
admitted by `Admit` (`get_current_user`: the cookie's user, whose tenant is bound) and then takes one
of the routes; those that write go through `Writer` (`require_writer`).

Routes declared with `def` run in a thread pool, so each statement is a step: the lookup of a system
and the insert of its incident, the load of an incident and its update, the two queries of
`/history`. `/report` is `async`. Its get-or-create is two statements as well (`LookUpSystem`,
`InsertSystem`), with no `await` in between, so that on the one event loop no other `/report` takes a
step there (`LoopFree`) while the thread pool goes on. That, and no constraint of the database, keeps
two systems of one name from being made: were the handler a plain `def` (the mutant `InAThread`), the
refinement would fail.

Ids are handed out in the order of `created_at`, and the id in a URL is any id. `StoreReport` is
SQLAlchemy's UPDATE: it sets the columns whose new value differs from the loaded one, so a user
already stored when the row was loaded is left out. `marks` is a history of who took which report
time. What a record concludes is left to the other modules. `Answer` stands for the pages that
only read and for the 403 and 404 answers. The server may die with all its requests at any
point (`ServerDies`), and so may the purge, whose deletes are flushed at its commit, inside the
cross-tenant block. A database that serialises single statements is assumed; nothing more.

`TenantRooms` has no sessions, flags or filters: each tenant has three tables, one step changes one
room, and only the purge reaches into all of them, alike. `Own` maps the shared tables to the rooms.

### Rate limiter

Time is a counter of instants; several requests may share one. A client is an entry of a limiter
object's dictionary, that is, a host and the object. `Pruned` is the `while` loop of `check`.
`Restart` is the process that ends and starts with empty deques; the history `admitted` that the
properties look at starts anew with it. In `ThreadedRateLimiter` one step is what CPython runs
without a switch point that matters: reading the clock, one loop iteration, counting, and
appending. `admitted` and `asked` are history: when a request was let through, and the instant it
had read from the clock. `MaxTime` and `MaxLog` only bound the exploration.

### Access

`Access` extends `RateLimiter`, whose two clients are here the shared limiter and that of `/login`,
for one host. `Checks` lists the dependencies of a route in the order in which FastAPI solves them:
the router's (`get_current_user`), the decorator's, the parameters'. `/report` therefore asks its
limiter before the role, `/assess` after it. Each dependency is a step (`CheckUser`, `CheckRole`,
`CheckLimit`), because those declared with `def` run in a thread pool; time passes, other requests
ask the limiters (`Others`) and the server may restart with another secret, or without one, in
between. A cookie is the user, the expiry and the key of its tag: who lacks the key cannot make the
tag, so no forged cookies are enumerated; `issued` is history. An instant is half a second in the
instance, as the expiry is cut down to whole seconds and the clock is not. Without a secret
`read_session` raises when it has a cookie to check, which is a 500. `Login` is `submit_login`
behind its limiter. Users are never removed by the program; `RemoveUser` is somebody at the database.

### Calendar and Deadlines

`Calendar` is the part of `datetime.date` that the code uses, with `AddMonths` from
`_add_months`. A record of `Deadlines` has the day it was made (`at`), the date it is about
(`asOf`) and the categories that came out as not applicable, by rule or because the model said so.
`PageBegin`, `PageRow` and `PageShow` are `list_all_deadlines`: the ids of the systems, then one
system at a time with a look at the clock, then the sort. Assessments, deletions, the purge and
midnight come in between; `newest`, `disturbed` and `on` are history for the properties. The sort is
any order that its key allows. `ReportBy` and `ListedBefore` are the deadline of an incident and the
key by which a system's page sorts them.

### Provisioning

`database` is SQLite or PostgreSQL, which differ in what the model is about. Alembic runs a revision
in one transaction, but the SQLite driver opens one only at the first INSERT or UPDATE: the tables
created before it are committed one by one (`Created`), and from the first UPDATE on other writers
wait (`Writable`). `Adopt` remembers the rows without a tenant that its UPDATE found; a row that the
older release adds after it makes NOT NULL fail (`UpgradeFails`). `MigrationDies` is the end of a
process that is killed, or whose statement fails because SQLite is locked by another: either way what
was committed stays. On PostgreSQL a role is a type,
which a downgrade leaves behind. `runs` are the runs of `create_user.py`: the tenant is committed,
then the e-mail looked up, then the passwords asked for, then the user inserted. `OldReleaseAdds` and
`Adds` are the two releases of the web application as the database sees them. `abandoned` is
history. `assessment_records` are treated by the migration like `ai_systems` and are left out.

## 3. The runs

"Pass" runs:

| Run | Shows | Instance |
|---|---|---|
| `amend` | one live version, carried conditions, append-only history, no crosswalk twice; an amendment that has begun ends | 2 editors, 1 seeder, 1 key, 3 versions |
| `seed` | the refinement of `LawBook`; a run that ends left nothing out | 2 seeders, 1 editor, 2 keys in 2 sources, 2 frameworks |
| `lifecycle` | alerts are true and persist; no purge revives an older record; every expired record is purged | 1 requirement with 3 versions, 1 tab, 2 records, 6 instants, retention 2 instants, purges that die |
| `pipeline` | `Grounded`, `TemporalFacts`, `ClearedOnlyByEvidence`, `DoubtReviewed`, `TokensAccounted`; every request is answered | 4 keys in 2 sources, 2 dates, retrieval limit 1, 3 categories, the duty to cease and one more |
| `workspace` | isolation and completeness of pages, agreement of the tables, one system per name, reporters, no exception of `tenancy.py`, and the refinement of `TenantRooms` | 2 tenants, 4 users (one a viewer), 2 requests at a time, 3 rows, 3 marks, page limit 1 |
| `access` | sessions end on time and not before, costly work is charged, the window bound and the refinement of `SlidingWindow` under all this | 2 limiters (windows 2 and 3, limits 2 and 1), 2 users, 2 secrets, a session of one second, 5 instants |
| `deadlines` | due dates, what applies next, completeness and order of `/deadlines`, what retention does to it | 2 systems, 2 records, 5 days from 2024-02-29 to 2026-08-02, 2 incidents |
| `provisioning` | incidents follow their systems, what a broken-off upgrade or a downgrade leaves in the way, and where empty tenants come from | both databases, 2 systems, 2 runs, 2 e-mails, 2 tenants, 2 deaths, 1 downgrade |
| `limiter_threads` | bounded overrun, no unjustified refusal, bounded deque | 2 threads, window 1, limit 2, 5 instants, 7 requests |

The runs leave out what the proofs already settle and what TLC confirmed before it was proved: the
type invariants (except that of `ThreadedRateLimiter`, which bounds its deque), `VersionChain`,
`SourceAllOrNothing`, which the refinement of `LawBook` contains, `AuthorsMayWrite`,
`StrangersSpendNothing`, `LateReportsListedFirst`, `OwnersKnown`, `HalfUpgradeAdoptsNothing` and
`OneAccountPerEmail`. Their theorems are in section 5.

Why these bounds suffice: a race on one version needs two editors and a third version to be
raced for again; the seed's order needs two sources and two frameworks, one of which annotates a
requirement of each source; `NoDuplicateCrosswalk` holds for one seed run at a time, which is how
the script is meant to be used, and is checked with one seeder (two at once can both find a
framework missing, and no constraint stops them; section 5 says what is proved of that). An alert needs versions before, at and after the
record's instant, and an amendment that is stamped before the record and committed after it. The purge needs two records of one system on both sides of the cutoff. With two
threads in the limiter the overrun bound
`MaxRequests + 2 * Threads - 1` is reached in the instance, so the bound is tight: the requests
admitted in one window that read the clock inside it number at most `MaxRequests + Threads - 1`,
and each thread can bring one that read the clock before.

The pipeline needs a category with no prefixes, one with fewer and one with more candidates than
the limit, a requirement that is not in force at the earlier date, and an obligation whose source
comes after the form. In `workspace` two requests suffice for every pair of statements to
interleave, three rows make a system, its incident or record and one row of somebody else, three
marks let two users mark an incident and one of them mark it again, and a page limit of one makes
every second record crowd one out. The requests are symmetric, for the handlers share one code, and
so are the two users of the first tenant, who have the same role.

`access` needs the two limiters to differ, so that the wrong one is noticed; the longer window is
emptied and filled again within five instants; a session of two half seconds can be issued in the
middle of a second, end and be replaced, and a second secret is enough to change it. The days of
`deadlines` are a leap day, its anniversary and the day after, the last day of a month within
retention of it, and an application date, on which a record may be made for that very date; two
systems suffice for an order. `provisioning` needs a broken-off upgrade, a second attempt, a downgrade
and another upgrade, with a row before, one during and two runs of the script that want one e-mail.

`CHECK_DEADLOCK FALSE` is set where only the bounds, or a stuck upgrade that nobody can repeat, stop
the model: `AssessmentLifecycle`, `ThreadedRateLimiter`, `Access` and `Provisioning` run out of
instants, records, versions, tenants or systems. `LegalCorpus`, `AssessmentPipeline`, `Workspaces`
and `Deadlines` are checked for deadlock.

The "violation" runs are in section 6.

## 4. Fairness

- `LegalCorpus!FairSpec`: a call of `supersede_requirement` runs in a thread that keeps running,
  so rejecting, failing, linking and committing are weakly fair. The insert may wait for another
  transaction, repeatedly; the database serves lock waiters in turn, hence strong fairness.
  Nothing is assumed of `Load`, rollbacks or seeders.
- `AssessmentLifecycle!FairSpec`: the clock advances; cron keeps starting the purge (weak
  fairness of `PurgeSelect`); a purge started over and over is not killed every single time
  (strong fairness of `PurgeCommit`). Nothing is assumed of users or amendments.
- `AssessmentPipeline!FairSpec`: a request that has been sent goes on (weak fairness of `Handle`):
  the handler runs on, and the provider answers or its client times out, which is a failure like
  any other. Nothing is assumed of the client or of the seeding, nor that a provider ever succeeds.

## 5. The proofs

All are checked by TLAPS for every value of the constants that satisfies the named assumption of
the module (`CorpusAssumption`, `LifecycleAssumption`, `LimiterAssumption`, `PipelineAssumption`,
`WorkspacesAssumption`, `AccessAssumption`, `DeadlinesAssumption`, `ProvisioningAssumption`).

**LegalCorpusProofs.** `OneLiveVersion` and `VersionChain` are not inductive: a commit keeps them
only because the version it adds is neither committed nor flushed by another open transaction
(`InsertReserved`) and the row it replaces is still committed (`OldCommitted`) and, by the chain,
the newest and therefore live (`OldIsNewest`, `OldIsLive`). `ApplicabilityCarriedForward` further
needs that what an open transaction has copied is what the seed gave (`CopiedFaithfully`,
`ConditionsKept`). `IInv` is their conjunction with the type invariant; there is one lemma per
action that disturbs it. From `Invariance` follow `TypeCorrect`, `VersionChainHolds`,
`OneLiveVersionHolds`, `SourceAllOrNothingHolds`, `ApplicabilityHolds` and the action property
`HistoryAppendOnlyHolds`.

*What the seed script achieves* takes a second invariant, `SeedInv`. A run knows what it has gone
through only from its stage, so that every stage before it is complete (`PastComplete`) rests on
what the probes may conclude from a single row: a document stands for all requirements of its source
(`SourceAllOrNothing`), a crosswalk row for its whole framework (`FrameworksWhole`), and nothing
is ever deleted. `TargetsResolved` says that what a run has looked up covers the seeds it is
done with. Hence `SeedRunCompletesHolds`, for any number of runs that overlap, die and are repeated.

`NoDuplicateCrosswalk` is not true of two overlapping runs, so it is proved under a condition:
`LoadedOnceHolds` assumes that no two runs load the same framework at once
(`OneLoaderAtATime`; `OnceInv` says that a lone loader's framework has no rows yet), of which
`NoDuplicateHolds`, one run at a time, is an instance. Without the condition
`DuplicatesBoundedHolds` still says that no version gets more copies of a crosswalk than there are
runs: once a framework has a row, no probe lets another run begin to load it, so the copies it will
have are those it has and the runs loading it now (`LoadersCounted`).

*The refinement.* `Refinement` shows that the tables implement `LawBook`: the commit of a source is
its `Enter`, the commit of an amendment its `Amend`, and every other step, probes, flushes, conflicts,
rollbacks and deaths included, changes nothing that the book shows. The book's text in force is the
live row's (`TextInForce`), of which `TextOfLive` says that it is the only one and applies to what
the seed said. The two models that live beside a changing law are tied to the same book:
`LawChangesByTheBook` (`AssessmentLifecycleProofs`) shows that the versions an alert is computed from
change by its `Amend` only, and `LawGrowsByTheBook` (`AssessmentPipelineProofs`) that the
law a request meets grows by its `Enter`, if each requirement is in one source, as in the seed files.

**ThreadedRateLimiterProofs.** Any number of threads run `check` without a lock. The deque is the end
of the history of what the admitted requests had read from the clock, and what it lost has expired
(`LogIsSuffix`, `ForgottenExpired`), but its entries are not in order and a length may be old when it
is compared. The bound covers the admissions of a window ending at `t` by two sets. Those whose
reading has not expired at `t` are still in the deque, and the deque is short: a thread appends only
if it saw room, so `DequeBound` counts the threads that have seen room together with the entries;
`FreshBound` carries that from the end of the window to any later time. The others read the clock
before the window began and were let through inside it: a thread has one request under way, so there
is at most one per thread (`LateBound`, which counts them with the threads that still may). `DequeBound`
also gives `TypeCorrect`. `RefusalsJustified`: a length is taken when the oldest entry has been found
not to have expired, the requests behind it were let through later, and the history only grows.

**AccessProofs, the limiter alone.** The log is the end of the history of admitted requests (`LogIsSuffix`),
what it no longer holds has expired (`ForgottenExpired`), and any two admissions `MaxRequests`
apart are more than a window apart (`Spaced`). `PrunedIsRecent` says that pruning leaves exactly
the part of the history that has not expired, so the limiter counts what `SlidingWindow` counts;
this gives `Refinement`. `Spaced` gives `WindowBoundHolds`: the members of a window lie in an
interval of `MaxRequests` consecutive indices.

**AssessmentPipelineProofs.** The guardrails work on what a call was given, so the invariant ties
the call under way to the request: `CallInv` (whom it is about fits the phase, and only a call has
an attempt), `CandidatesInv` (candidates are of their category and still ingested), `KnownInv` (what
was ingested when the request came still is), `ReportInv` (an assessment that clears its obligation
had text, and a record is what its report computed), `TokenInv` (where every charged token is, and
that an error record has no more than that) and
`FailedClosedInv` (an answer that fails closed claims nothing). Its six invariants
follow for any categories, keys, sources, dates and limit.

**WorkspacesProofs.** A handler acts on what it read earlier, so the invariant says that this is
still true when it writes: a bound session is its user's (`SessionInv`), ids are unique
(`IdInv`), what the purge has selected is everything up to a cutoff that is still there
(`PurgeInv`), the system looked up exists and is the tenant's, the user may write, the time
taken is in the history (`WorkInv`), the name a report found to be new still is (`NamingInv`, from
the event loop), a row with a reporter has a report time (`ReportedInv`,
`ReportTimesInv`), and what was there when `/history` began is of a listed system (`ListInv`).
One lemma, `LastingStep`, carries most of it: no step deletes a system or an incident, moves a row
to another tenant or system, takes back a report or reuses an id. `ReporterMarkedHolds` is the
subtle one: the update may keep a user it did not write, but only in a row that had been reported.
`Refinement` maps every step to a step of `TenantRooms`, or to none.

**AssessmentLifecycleProofs.** An alert is computed from times, the property speaks of versions. They
meet in `SawInv`: the versions a record saw had been created when it was stored, so a version created
later is a later one, and the version seen has been superseded (`LawInv` keeps the times of the
versions in the past). `PurgeRevivesNothing` needs that ids and times grow together (`OrderInv`) and
that what the purge has selected is closed downwards (`DoomedInv`), also when records are deleted or
added meanwhile. `TabInv` says of forms and reports under way that what they saw is there.

**AccessProofs, the routes.** Every step of `Access` is a step of `RateLimiter` or leaves it alone
(`LimitersUndisturbed`), so `WindowBound` and the refinement carry over without another induction.
Beside it the invariant says what the solved dependencies have found out: the user is the cookie's,
the cookie is of the running key and was alive when the request came, and a request past its limiter
has an entry in the history no older than itself, which lasts as long as the process does.

**DeadlinesProofs.** The calendar is proved about first: `Ordinal` is monotone (`OrdinalMonotone`),
and a year on is at least 365 days on (`AnniversaryIsAYearOn`), for all years, leap years included.
The invariant ties a row to the record it was computed from (`RowsInv`), a record to the law
(`RecordsInv`: nothing in force means not applicable), what is still to be read to what was there
when the page began (`ReadInv`), and a page that is shown to its order (`ShownInv`).

**ProvisioningProofs.** The subtle parts are `AdoptInv` (what is adopted but not committed is still
without a tenant, and on SQLite nothing else is), `SchemaInv` (what is there in each phase on each
database), `PhaseInv` (no downgrade or upgrade starts from the wrong version), `IncidentInv` (before
the revision incidents have no tenant) and `ExplainedInv`, stronger than `EmptyTenantsExplained`:
only the run that made a tenant explains its being empty, since one that was given it may leave.

**Only model-checked**: the liveness properties (`AmendmentsConclude`, `RecordsExpire`,
`RequestsAnswered`); liveness under fairness is beyond the prover. Every other property of a passing
run has its theorem.

## 6. What the code does not keep

Each of these is a statement of the repository that a run violates (`PROJECT.json`, "findings",
quotes it):

- `noop`: the seed script looks only for source documents, so a seed killed before its crosswalk
  transactions is taken for complete ever after.
- `crosswalk`: an amendment does not carry the crosswalks of its requirement to the new version,
  and lookups go through the live version.
- `window`: a version created and committed after `POST /assess` has read the law and before
  `POST /report` stores the record is never flagged: it is older than the record, and the one the
  record rests on is not live any more. (An amendment after the record is flagged, also on the same
  day, as `tests/test_update_alerts.py:59-72` has it.)

More disagreements need no run to be seen:

- `src/observability/assessment_log.py:1-4` says that token usage must be recoverable for a past
  assessment. `instrumented_client.py:62-78` catches `StructuredOutputError` only and then writes zero
  tokens, so a call that failed validation twice is on the record without its two completions, and a
  call that the provider broke off, be it on the retry of a completion already charged, is not on the
  record at all. `AssessmentPipeline` has both (`Logged`, `ReportRaises`), and `TokensAccounted` makes
  no claim for them beyond that the record never says too much.
- Two threads can admit more than the 10 requests a minute of `docs/security-model.md:30`;
  `OverrunBounded` (`limiter_threads`) says by how many at most.
- `README.md:73-76` promises on `/deadlines` "any requirement that wasn't yet applicable". The page
  looks at categories that came out as not applicable only: in one of which some requirement was in
  force, the others are not announced. `UpcomingIsFirst` states what is kept.
- Retention (90 days) removes a system from `/deadlines` long before its re-assessment (12 months)
  is due: `OverdueIsBackdated` says that within retention only an assessment that was about a day
  long past when it was made is ever called overdue.
- The tenancy migration says that it adopts every existing row into the default tenant
  (docstring, lines 13-15); after a downgrade rows keep the ids of the tenants it dropped, and the
  next upgrade leaves them there (`OwnersKnown` holds up to the first downgrade).
- An upgrade on SQLite that is killed, or fails because another process holds the lock, after its first
  statement, and on PostgreSQL any downgrade (the type `userrole` stays), is in the
  way of every later upgrade (`StuckUpgradeExplained`).
- A failed report is stored with obligations and no gaps; a past assessment's page shows the live
  text beside a conclusion drawn from an older version; the time and the user of a report that two
  users mark at once may come from different requests; an amendment writes no provenance record for
  the version it makes.

## 7. What is not modelled, and the plan

Order of the work, most important first; all but the last two items are done.

1. `LegalCorpus` and its proofs.
2. `AssessmentLifecycle` and its proofs.
3. `SlidingWindow`, `RateLimiter`, `ThreadedRateLimiter`, and proofs of the sequential limiter.
4. `AssessmentPipeline` and its proofs.
5. `TenantRooms`, `Workspaces`, their proofs and the refinement.
6. `Access`, over `RateLimiter`, and its proofs.
7. `Calendar`, `Deadlines` and their proofs.
8. `Provisioning` and its proofs.
9. Proofs about overlapping seed runs and about the limiter's threads.
10. `LawBook`, its refinement, and the two models that use it.
11. `confidence` and `LOW_CONFIDENCE` in `AssessmentPipeline`.
12. Abstract specifications of what the pipeline and the alerts promise, and their refinement.

Not modelled of what the modules are about: the public limiter in `Access` (the same code as the
shared one, before a route without guards); two upgrades at once (an operator starts
them by hand); pages that only read a past assessment; `tenant_context`, which the demo and
the tests use, and `RateLimiter.reset`, which only the tests do.

Left out for good: report assembly and templates (no state, wording), the other six
migrations (they only add tables and nullable columns), the evaluation harness and demo (offline callers of the same
functions), provenance beyond being written with its source, and the Anthropic transport (I/O).
