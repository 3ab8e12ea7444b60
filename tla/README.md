# Models of the refresh token grace server

TLA+ models, TLC configurations and TLAPS proofs for the code under `src/` of
IdentityServer4-v4-refresh-token-with-grace: a host of IdentityServer4 whose
refresh tokens survive a lost response, with its own refresh token store, client
secret validator, claims service, extension grant and user pages. Paths below are
relative to the solution directory (`src/` of the repository); `PROJECT.json` maps
every definition to the lines it models.

## 1. The system

A client that redeems a one-time refresh token and never sees the response is
locked out. This host lets it present the old token again for a while: the old
token (the *parent*) stays in the store next to the new one (its *child*), every
further redemption replaces the child, and the first redemption of a child proves
that it arrived, so that the parent can go.

| Component | State it keeps | Operations | Talks to |
|---|---|---|---|
| Grace refresh token service (`GraceRefreshTokenService/`) | none of its own; the token it works on is a private copy | Create, Validate, Update | store (await), queue (through the store) |
| Refresh token store (`PersistantStorage/`) | persisted grants, in memory | store, get, update (insert or replace), *deferred* remove | queue |
| Background removal queue (`BackgroundServices/`) | a concurrent queue and a semaphore | queue, dequeue; one hosted worker | store |
| Client configuration (`ClientStore/`, `Config.cs`) | the registered client objects, shared by all requests | read; the token lifetime is also *written* | everybody |
| Token request validation (`MyValidators/`, `ScopedServices/`) | claims collected for a request | authenticate the client, validate scopes, the extension grant, the claims of the token | client objects |
| Account, consent, device and grants pages (`Quickstart/`) | the session cookie; decisions handed to IdentityServer | show and post the forms | IdentityServer, store |
| Client-side form validation (`wwwroot/lib/jquery-validation-unobtrusive`, with `jquery-validation` under it) | per form: rules, errors, pending remote checks, whether a submission waits | parse, check an input or the form, submit, reset, answers of the server | the user, the server's remote checks |
| Tenant middleware (`TenantServices/`, in the pipeline of `Startup.cs`) | per request: path, base path, tenant | take the tenant off the path | routing, IdentityServer, the browser that follows links |
| External login, home, diagnostics, console client, protected API, host start-up | none, or none that changes | | |

What is hard here:

* **Handlers overlap.** Every request runs on its own; each `await` on the store
  lets another one in. `UpdateRefreshTokenAsync` writes back a copy that was read
  several awaits before, on one object that it changes, stores, changes back and
  stores again.
* **Removal is deferred.** A removed token stays valid until one background worker
  gets to it, and may be written back after it was removed.
* **Replies get lost.** That is what the feature is for.
* **Time.** A token has an absolute lifetime, a sliding one and a grace period.
* **Failures.** A removal that throws is logged and dropped; a host that stops
  loses the queue.
* **Shared configuration.** One request's override of the token lifetime is
  written into the object all requests of the client read.
* **Tabs.** A page is made for one user and may come back when another one is
  signed in.
* **Who sees which path.** The tenant is taken off in the middle of the pipeline: what
  comes before it matches another path than what comes after.
* **Answers race edits.** A remote check of a form is answered after the value has
  changed, the form was reset or another request was sent; requests are aborted and
  lost, and a submission waits for a count of them.

What makes each part correct:

* *Grace service and store*: no token is removed but for a reason; the child that
  a stored token names can be redeemed; nobody extends the lifetime of a sign-in;
  a consumed token stays consumed; attempts and grace period are respected;
  superseded parents go; every request is served.
* *Queue*: items run once, in order, all of them; the unchecked `TryDequeue` never
  comes back empty.
* *Token endpoint*: a token says what its own request asked for; protected claims
  and client secrets are respected; lifetimes stay in range.
* *Pages*: nothing is granted that its user did not confirm; nobody is signed out
  who did not want it.
* *Forms*: a form goes out only with values as its attributes declare them and as
  the server accepted them; errors are shown where they are, and only there; a
  submission that waits is decided.
* *Tenants*: a browser stays with its tenant, wherever it is sent;
  IdentityServer's endpoints answer below a valid tenant only.

`PROJECT.json` lists the hazards at their lines with the properties that watch
them.

## 2. The modules

```
GraceRules  <------- GraceRefinement -----> GraceRefreshToken     WorkQueue
    ^                     ^                        ^                  ^
GraceRulesProofs   MCGraceRefreshToken   GraceRefreshTokenProofs     BackgroundTaskQueue
    ^                                              ^                  ^            ^
    +----------------------------------- GraceRefinementProofs        |            |
                                                                      |            |
TokenEndpoint <- MCTokenEndpoint                MCBackgroundTaskQueue      BackgroundTaskQueueProofs
      ^-------- TokenEndpointProofs
UserInteraction <- MCUserInteraction
      ^-------- UserInteractionProofs
UnobtrusiveAdapters <- FormValidation <- MCFormValidation
                             ^-------- FormValidationProofs
TenantPipeline <- MCTenantPipeline
      ^-------- TenantPipelineProofs
```

Operators commented as *mutants* stand before the definition they alter. No
specification uses them: each is a plausible slip in the code, which the property
that `PROJECT.json` pairs it with must notice.

### GraceRefreshToken

`GraceRefreshTokenService`, `MyDefaultRefreshTokenStore` and the user's
revocation, with any number of requests in progress. `pc[i]` says where the handler
of request `i` is; a handler is split at each of its accesses to what it shares:

| Action | Code |
|---|---|
| `CreateRefreshToken` | `CreateRefreshTokenAsync` |
| `Present` | a client sends a handle (external) |
| `Validate`, `Refuse` | `ValidateRefreshTokenAsync`, `AcceptConsumedTokenAsync`: the read that decides, then the removal of a refused handle |
| `Consume` | mark the copy; without grace write it back |
| `MintChild` | slide the lifetime, store the child |
| `LinkParent` | write the presented token back with the new child |
| `DropOldChild`, `DropOldParent` | queue the removal of what the copy named *when it was read* |
| `UpdateReusable` | the branch for reusable tokens |
| `Reply` | the response, delivered or lost |
| `RemoveNext`, `WorkItemFails` | the worker runs the oldest item, or the item throws |
| `RevokeGrants` | `GrantsController.Revoke` |

`store[h]` is the grant of handle `h`; `token[i]` the object the handler holds.
A request mints at most one token, so handles are named by the requests that mint
them. `family`, `born` and `revoked` are history: no action reads them to decide
anything. `Pacing` bounds the environment: requests may overlap (`"concurrent"`),
come one at a time (`"sequential"`), or one at a time after the worker has caught
up (`"drained"`).

Simplifications. The two clock reads of one validation are one instant. The user
stays active and the client keeps offline access, so that the refusals for those
reasons are the same step as the others. The hash in front of the store is injective,
as a cryptographic hash is meant to be. `RemoveAllAsync` of the in-memory store is
one step. There is one subject, and one revocation. Dequeueing an item and running
it are one step, which `BackgroundTaskQueue` justifies: there is one worker, and the
item it holds is the oldest one. `ConsumedTime == null` is -1.

### GraceRules and GraceRefinement

`GraceRules` is what the repository's README promises (its rules 1 to 6), as atomic
steps on live handles, without time, queue or requests in progress.
`GraceRefinement` maps the service to it: a redemption takes effect when the
presented token is written back, and what a handler is about to queue, or has
queued, counts as gone.

### BackgroundTaskQueue and WorkQueue

`BackgroundTaskQueue` is the queue and the worker's loop at the grain of its single
operations: append and release of a producer, the check of the stopping token, wait,
dequeue, run or throw, and the stop of the host. `WorkQueue` is the FIFO queue it
implements (`RunsInOrder`).

### TokenEndpoint

A token request on its way through `MyClientSecretValidator` (`Authenticate`),
`MyDefaultResourceValidator` (`ValidateScopes`),
`ArbitraryResourceOwnerGrantValidator` (`ValidateForm`, `CheckLifetime`,
`OverrideLifetime`, `CollectClaims`) and `MyDefaultClaimsService` (`AccessTokenClaims`
in `Issue`). `accessTokenLifetime` is the property of the shared client object;
`OptionalClaims` is per request, as it is registered. A form is a record of what the
validators tell apart: whether the secret is right, the grant, the types of claims,
the asked lifetime. External: the password check, which has either result, and the
creation of the token. IdentityServer4 takes the lifetime from the client object
when it identifies the client or when it creates the token; the repository does not
show which, and both are allowed. A refresh leaves this module for
GraceRefreshToken.

### UserInteraction

The actions of `AccountController`, `ConsentController` and `DeviceController` over
tabs of browsers with a session cookie each. A request carries the user it arrived
with (`post[t].user`) while another tab changes the session. `Admitted` is the
anti-forgery token, which is bound to the user, and `[Authorize]`. Decisions are
about an *ask*, a return URL or a user code; `open` is the set of those
IdentityServer has an authorization context for. External: the authorize endpoint
(`Authorize`), the device's poll (`Poll`), expiry (`Expire`) and what the
interaction services do with an answer.

Simplifications. Whether a return URL is valid is decided at the start. Reading the
context for a redisplayed consent page is one step with the decision to redisplay.
The form that captures a user code is part of `ShowAsk`. Remembered consent is left
out. Pages that only link elsewhere are one page, `"elsewhere"`.

### UnobtrusiveAdapters

Pure operators: the adapters of `jquery.validate.unobtrusive.js`, which turn the
`data-val` attributes of an input into rules, the order in which jQuery Validate tries
them, and the methods that decide them. An input goes by its name, a sequence of
segments, so that a reference like `*.Email` is resolved as in the code. What values
are made of is left out: the constant `Facts` tells what the methods tell values apart
by. `Declared` says what the attributes of an input mean, without adapters and rules;
it is the reference the adapters are checked against.

What a page may declare is assumed (`DeclarationsAssumption`). Its attributes are those of
the adapters; bounds are numbers, a password that needs non-word characters needs at least
one, and the field that `equalto` names is there, by its full name or as `*.` and one
segment. Adapters of one input that set the same rule set it to the same parameter
(`Agreeing`): the rules are one object, so that of a `length` with a minimum of 2 and a
`minlength` of 3 the later one has its way, whatever the page declares. A page of
`[Required]` fields, like the view models of this host, meets all of it.

### FormValidation

One form of a page, from the load of the page to its submission. Scripts run to
completion, so each handler is a step; the functions they call are operators on the
record `validator` and keep the names of the code:

| Action | Code |
|---|---|
| `Init`, `Load`, `Insert` | `$(function)`, a new page, a script that calls `parse` for added inputs |
| `Type`, `Key`, `Leave` | `onkeyup`, `onclick`, `onfocusout` (with the blur handler of `equalTo`), which call `element` |
| `Fill` | a value that changes without an event the validator listens to |
| `Submit`, `Validate` | the submit handler and the validate function, which call `form` |
| `Reset` | `onReset`, `resetForm`, and the reset of the values |
| `Answer` | the callback of a remote check, with `stopRequest` and the submission it may resume |
| `Fail` | a request that fails: there is no handler |

`inflight[f]` is the request under way for a field, at most one because the next
aborts it; it is not `live` once a reset has detached what its callback writes to.
`verdict` and `undisturbed` are history.

Simplifications. Every input has one container for its message. Wording, highlights,
labels and focus are left out. Inputs have no validation by class or other attributes,
none is hidden or disabled, no button cancels validation, there is no custom submit
handler and no debug mode, and `additional-methods.js` and the form plugin are not
loaded. Exceptions are not modelled: `MethodsAssumption` excludes the three attributes
whose rule has no method.

The scripts are vendored in `wwwroot/lib` and served; the partial view
`_ValidationScriptsPartial.cshtml` includes them, but no view includes that partial, so
the pages of the host as it stands are validated on the server only. The pages of the
model are therefore pages of the kind the attributes describe, not pages of this host.

### TenantPipeline

A request on its way through `Startup.Configure`, one action per middleware, in the
order of `stage`: `StaticFiles`, `Routing`, `Tenant` (`TenantMiddleware.Invoke`),
`IdentityServer`, and `Endpoints`, which with the authorization before it runs the page
that `Routing` selected. A path is the sequence of its segments, so that a trailing or
doubled slash is an empty segment, as `Split('/')` has it; `path`, `base` and `tenantId`
are `Request.Path`, `Request.PathBase` and the scoped `ITenantData`. External: what
static files, routing and the endpoints of IdentityServer look up (`File`, `Routes`,
`PathOf`, constants), the pages to which an answer may send the browser (`SendsTo`), the
link it sends (`Link`) and the browser that follows it (`Follow`). `sender` is history.

The tenant of a path that starts with two slashes is empty; links do without a base of
only a slash, so such a tenant is lost, and `TenantKept` excludes it. The resolver of this
host accepts every segment. `ITenantResolver` is there for one that does not: the passing
run has such a one, without which nothing is ever refused.

What the lookups hold is assumed to be of this kind (`PathsAssumption`): the bound on
paths leaves room for the tenant in front of a link, no endpoint of IdentityServer is at
`/`, and the names of endpoints, pages and files are told apart.

Simplifications. What a page does with its request is left out. The developer's exception
page changes nothing.

## 3. What the runs show

| Run | Instance | Checks |
|---|---|---|
| `concurrent` | 4 overlapping requests; a sliding, a strict and a reusable client; clock 0..2; lost replies, failing removals, a revocation | `TypeOK`, `RemovalJustified`, `LatestChildKept`, `LifetimeNotExtended`, `ConsumedForGood` |
| `sequential` | 4 requests one at a time, 4 clients, clock 0..3, the worker at its own pace | `AttemptsBound`, `GraceWindow` |
| `drained` | 4 requests, each after the worker has caught up, fairness | `RulesFollowed`, `AtMostACouple`, `RequestsServed`, `ParentGone` |
| `task_queue` | 4 producers, failing items, stop at any time, fairness | `TypeOK`, `PermitsMatchItems`, `DequeueFindsItem`, `RunsInOrder`, `ItemsRun` |
| `token_endpoint` | 3 overlapping requests, 3 clients, lifetimes below, at and above the limit | `TypeOK`, `LifetimesInRange`, `ClaimsAreOwn`, `ProtectedClaimsKept`, `RequestedAmrKept`, `SecretChecked` |
| `pages` | 2 tabs, 2 users, an authorization request, a device | `TypeOK`, `GrantedAsConfirmed`, `SignOutConfirmed` |
| `forms` | 6 pages over 4 inputs and 3 values, 2 edits, 1 lost request, fairness | `TypeOK`, `PendingCounted`, `AcceptedAsDeclared`, `AcceptedAsAnswered`, `ErrorsShown`, `ErrorsHaveACause`, `SubmissionsDecided` |
| `tenant` | all paths of 1 to 3 of ten segments, an accepted, an unknown and an empty tenant | `TypeOK`, `TenantKept`, `EndpointsNeedTenant` |

Why the bounds are enough to be interesting. Four requests are a sign-in and three
redemptions: two overlapping redemptions of one token and a third of the token or of
either child, or a chain of three generations, in which a parent is superseded. The
absolute lifetime, the sliding one and the grace period all end within the clock's
range, so that every comparison is taken on both sides of its edge; attempts of two
and three put the maximum within reach. Handles are interchangeable, and so are
requests, tabs and users: symmetry is used for safety only and never in a run with a
liveness property. Three requests of the token endpoint let one request override the
lifetime between the check and the token of another, and a third see the result.
Two tabs are what it takes for one to change the session under the other.
The settings scale `Config.cs` (3600 s, 300 s, 10 attempts) down to units of the
clock. `MaxTime`, the number of requests and the single revocation are bounds of the
instances; the theorems have none of them but a last moment `MaxTime` of the clock,
which is any natural number.

The pages of `forms` have two remote checks that need each other's values, a
remote check and an input that must equal it, inputs that arrive late with and without a
validator in place, and between them every adapter that has a method except those that
differ in a name only. Two edits (`MaxEdits`) let a value change while its check is under
way and change back; one lost request (`MaxLost`) leaves a field waiting beside
another. Requests, resets and submissions are not bounded.

In `tenant` three segments (`MaxSegments`) are a tenant and the longest path that the
host serves; the segments include the parts of those paths and the empty one, so that
each lookup is tried with, without and with a wrong tenant, and with slashes too many.

`AtMostACouple` holds of the service when it is drained because it implements
`GraceRules`; it is checked directly as well.

### Disagreements between the code and what is said of it

Each is a run that TLC finds violated.

* `concurrent_attempts`: overlapping redemptions each count from the number they
  read, so a token is redeemed more often than the configured maximum.
* `pending_removal`: a superseded parent whose removal still waits in the queue is
  accepted, and its redemption removes the upgraded child. Rule 4 of the README is
  there to prevent exactly this.
* `revoked_in_flight`: a redemption that was validated before a revocation stores
  its tokens after it.
* `lifetime_override`: after one request asked for a shorter token lifetime, a
  request for the configured one is refused, and tokens of requests that ask for
  none are short, until the host restarts.

More were met and have no run:

* A child starts with the attempts of its parent (`GraceRefreshTokenService.cs:132-137`
  reset the times and links only), so it is refused before it was itself redeemed as
  often as configured. `ChildOf` copies the code, and `AttemptsBound` bounds the number
  from above only.
* When the user code of a device page expires between the page and its form, the page
  reports success (`DeviceController.cs:84`), though nothing was granted
  (`GrantedAsConfirmed`).
* `UseRouting` (`Startup.cs:82`) selects a page by the whole path, before the tenant is
  taken off it, while IdentityServer's endpoints are matched after. Whom the authorize
  endpoint of a tenant sends to the login or consent page below that tenant finds
  nothing (a state of `TenantPipeline` with `sender` set and nothing `served`).

### Fairness

`GraceRefreshToken` assumes weak fairness of each handler (`Serve(i)`) and of the
worker: the web server schedules what it has accepted, no handler waits for another,
and `QueuedHostedService` is a hosted service whose loop goes on after an item
throws. Nothing is assumed of clients, users or the clock. `BackgroundTaskQueue`
assumes weak fairness of the worker and of a producer that has appended and is
about to release, which is straight-line code; the host need not ever stop.
`TokenEndpoint`, `UserInteraction` and `TenantPipeline` state safety only. `FormValidation` assumes
that the server answers a check that is under way; that a request may fail instead is
allowed, and `SubmissionsDecided` promises nothing then. Users need do nothing.

## 4. What is proved

Checked by TLAPS for every value of the constants, from the named assumptions on
constants (types of settings, fresh null values, what pages may declare and which paths
lookups may hold), which TLC evaluates on each run.

* **GraceRefreshTokenProofs**: `TypesHold`, `RemovalsAreJustified`,
  `LatestChildIsKept`, `LifetimesAreNotExtended`, `ConsumptionIsForGood`, all from
  `Spec` alone: any pacing, failing removals, revocations. None of the properties
  is inductive. `Inv` adds
  * `Control`: what the fields of a request are at each place of its handler;
  * `Lineage`: every handle that is stored, queued, delivered or presented was
    minted, and a family has one root and one client;
  * `Genuine`: every stored token *and every copy in a handler* has the creation
    time of its sign-in, a lifetime within the absolute one, the parent it was
    really minted from, and only names a child that was minted from it and
    linked. This is why writing back a stale copy does no harm to lifetimes;
  * `Superseded`: the child a handler is about to drop is no longer named by its
    parent, because the same handler has overwritten it;
  * `Safekeeping`: a child is safe from the moment it is stored, before its
    parent names it.

  `RemovalJustified` and `LatestChildKept` are then inductive together:
  a removal of a named child is either that of a handler whose parent has been
  redeemed again, or comes with a presentation or a revocation. The two action
  properties follow from `Genuine` and `Control`.
* **GraceRefinementProofs**: `ServiceFollowsRules`, for any number of requests and any
  lifetimes, grace period and maximum, of one client with grace and one-time tokens, drained and
  without faults or revocation (`OnlyGrace`, the assumption of the refinement itself). A
  redemption takes effect when the parent is written back (`LinkParent`); every other
  step is a stutter. `Settled` says why: the queue is empty while a handler decides, so
  that what is stored is what the rules call live (`ParentSettled`), and a child that
  nobody names is stored, unseen and unredeemed (`ChildSettled`). `CouplesAtMost` follows
  from it and from the proof about the rules, which is instantiated with the same mapping.
  The module also proves `AttemptsAreBounded` and `GracePeriodsEnd`, for every pacing
  but `"concurrent"`; overlapping requests refute the first (`concurrent_attempts`). Whether
  the next redemption is accepted depends on two fields of the stored token, while the
  properties count redemptions, so `Tally` ties them: one handler is at work
  (`OneAtATime`), and every stored token, and the copy it is about to be replaced with,
  *tells* of its children: `ConsumedAttempts` is at least their number, and
  `ConsumedTime` is no later than the birth of any (`StoredTells`, `CopyTells`). Between
  storing the child and writing the parent back only the copy does. A redemption that
  overlaps another would write back a copy that does not tell of the other's child.
* **GraceRulesProofs**: the rules leave at most two usable tokens to a sign-in, a
  parent and its latest child (`RulesKeepACouple`), and bound the uses of each
  (`RulesBoundUses`).
* **BackgroundTaskQueueProofs**: permits, the worker and the producers about to
  release account for every item (`PermitsAlwaysMatch`); hence a dequeue finds one
  (`DequeueAlwaysFinds`); types; the queue implements `WorkQueue` (`QueueRunsInOrder`).
* **TokenEndpointProofs**: types; `LifetimesStayInRange`, whose invariant follows
  the lifetime in the client object, in a request that is about to override it and
  in one that has attached it; `ClaimsStayOwn`, for the collected claims belong to
  their request; `SecretsAreChecked`; `ProtectedClaimsAreKept` and
  `RequestedAmrIsKept`. For the last two `AskInv` adds that a request past the
  validator of the arbitrary grants was examined by it (`Examined`) and collects what
  it was allowed (`CollectedAsAllowed`); a requested amr and that of the framework are
  two, so the one that is dropped when there is only one is never the requested.
* **UserInteractionProofs**: types; `GrantsAreConfirmed`. The invariant says
  that a page with a decision to make names an ask (`PagesNameAsks`) and that an
  answer under way was confirmed by the user it is made for (`AnswersKept`), which
  survives a change of the session in another tab because both are taken from
  the request. `SignOutsAreConfirmed`: a logout that nobody was asked about arrived
  without a user (`LinksHaveNoUser`), so it deletes no cookie even when another tab
  has signed in by the time it is handled.
* **FormValidationProofs**: types; `PendingStaysCounted`; `AcceptedOnlyAsAnswered`.
  `AcceptedAsAnswered` says nothing of a form that has not gone, so the invariant adds
  what makes it go rightly: fields that wait are counted (`Counted`), and what a field
  remembers of its last check is what the server last said of it, unless the field
  waits, when it is what the request under way is about (`Remembered`). Every function
  of the code has a lemma that it keeps this (`Good`), and `HandleMeansAnswered` draws
  the conclusion: when the submit handler lets the form go nothing waits, so every
  memory that was used is a verdict.

  `AcceptedOnlyAsDeclared`, `ErrorsAreShown` and `ErrorsHaveCauses` rest on what the
  adapters make of the attributes. `Made` is the set of rules of an input, each adapter's
  own and the one that never fails; `AfterMakes` shows that the adapters, one after
  another, make exactly these (an induction over the registry, by way of the least number
  at which it fails: `Counting`), `InOrderKeeps` that putting `required` first and
  `remote` last loses none, and `AdapterMeans`, adapter by adapter, that the rules of one
  are met exactly if the attribute holds. So a check finds a rule that fails exactly if
  the input is not as declared (`FailingTells`), and because of the rule that never fails
  it always says something of an input with rules (`CheckDecides`), without which an
  error could stay after its field was emptied. The state part is `ShownInv`: the
  settings are made of the page's attributes (`RulesOfPage`); what is shown is what the
  validator has the input down for, and so is what the last check has *listed*, because a
  late answer shows that list again (`Shown`); and a verdict kept against a field is the
  server's last one (`Refused`), also after a reset, whose requests leave none. It also has
  what `PendingStaysCounted` says of progress: until a request fails, every field that
  waits has a request under way (`Awaited`), for a new check replaces the request of a
  field and never drops it, and an answer, also a stale one, ends the wait with it.
* **TenantPipelineProofs**: types; `TenantsAreKept` and `EndpointsNeedATenant`, for any
  paths, pages, endpoints and tenants. `Way` follows a request: up to the middleware the
  path is what was asked for; behind it the base is the first segment of that and the path
  the rest (`Rest`). So the tenant is the first segment (`Named`), and a link below the
  base starts with it (`Sending`).

Only model-checked: liveness (`RequestsServed`, `ParentGone`, `ItemsRun`,
`SubmissionsDecided`), which is beyond the prover.

## 5. Not modelled

* The external login page: `Startup.cs` registers no provider, so neither
  `Challenge` nor `Callback` completes in this host.
* Home and diagnostics pages, the protected API and the start-up of the host: no
  state that changes.
* The console client: a sequential demo, one of the environments of
  GraceRefreshToken.
* `ClientExtra.ShallowCopy` and the client stores; the listing of grants, which
  only reads.
* Persistent storage of grants: this host keeps them in memory, and so a crash
  loses tokens and queue together.

## 6. Plan

Done: the grace service with its rules, their refinement, the queue, the token endpoint,
the pages, the client-side validation and the tenant pipeline, with their runs; every
safety property and every action property of them is proved. In order of importance, next:

1. Split `Validate` at its two clock reads and at the check of the user's profile,
   and let the user be deactivated in between.
2. A composition of GraceRefreshToken with the token endpoint's client secret
   check, for clients that refresh without a secret.
3. More than one subject, and more than one revocation; the grants listing.
4. The refusal of tokens whose lifetime or grace period is over as a refinement of rules
   that know the time.
