# A TLA+ model of the NUTMEG authentication platform

This directory holds a specification of the platform in `../src`: a Go server that
answers, for the products of a student festival, *who is this Google user and may they
come in*; the whitelist its administrators keep; the registry of products; the signing
out of people at every product; and the two example products. The modules are
translated from the code. TLC checks them on small instances; every safety property it
checks there is also proved with TLAPS, for every instance.

## The system

| Component | State | Operations | Talks to |
|---|---|---|---|
| Whitelist (`internal/whitelist`) | table `allowed_emails`: role and `disabled_at` of each address | `Add`, `EnsureMember`, `SetRole`, `Disable`, `Enable`, `SelectForBulkDisable`, `Lookup` | called by all that follow |
| Admin API (`internal/api/admin_whitelist.go`, `requireAdmin` in `server.go`) | none; a handler holds what it has read | add, role, disable, enable, bulk-disable, list | whitelist, notifier |
| `cmd/seed-admin` | none (another process on the same database) | add and promote one address | whitelist |
| Verify endpoint (`internal/api/verify.go`) | none | check a product's credentials and an ID token, `admit` the person (registers a first login), record the login | clients, Firebase, whitelist |
| Google sign-in (`api/google_sign_in.go`, `googleauth`, `firebaseauth`) | users in Firebase | `admit`, then `CustomTokenFor`: find, delete or create the Firebase user, mint a token | Google, Firebase, whitelist |
| Products and logins (`internal/clients`, `api/admin_clients.go`, `cmd/register-client`) | tables `clients` (name, active, revoke URL, hash of the secret) and `user_client_links` (sub, product, address) | `Create`, `Update`, `RotateSecret`, `FindByName`, `Authenticate`; `RecordLogin`, `RevocationTargets` | |
| Notifier (`internal/revocation`) and force logout | none; results of the running request | revoke Firebase refresh tokens, send a signed notification to each product, report each attempt | Firebase, products |
| Database (`internal/store`) | one SQLite connection, `user_version` | `Open`: migrate | opened by the server and each command |
| Admin screen (`web/index.html`) | the listed entries, the previewed criteria | preview and run of a bulk-disable; one request per other button | admin API |
| FinanSu (`examples/finansu-mock`) | `users` (linked sub, soft deletion), `mail_auth`, `session` | password sign-up, sign-in and sign-out; sign-in and sign-up with the platform; revocation | verify, notifier |
| GM2 (`examples/gm2-mock`) | `users.tokens`, a JSON column | the same, with devise_token_auth | verify, notifier |
| Configuration, start (`internal/config`, `cmd/server`) | environment | wiring | |

Nothing in the code takes a lock, and no handler opens a transaction (only FinanSu's
registration does). `store.Open` limits the pool to one connection, so *a statement* is
atomic, but a handler executes several statements and HTTP calls, and other requests,
a command in another process, and products run between them. A handler may end after any
of them: a statement fails, the client hangs up (which cancels the request's context) or
the process stops. Nothing is retried by itself. So the hard behaviours are

- guards that must decide in one statement (`lastAdminGuard`, FinanSu's link) and reads
  that are used after something has run in between (`requireAdmin`, `explainNoop`, the
  list of a bulk run, `Update`'s `Get`, a login past `admit`);
- a notification that is lost, late, answered with an error, or handled after the notifier
  has given up at 5 s; a request cut off between the people or the products it handles;
- legal sequences that meet in the wrong place: a disabled person who is added, seeded or
  logs in again, an ID token older than a revocation, an old secret after an update.

What makes each component correct:

- *whitelist*: there is an active administrator for ever once there is one; nobody but a
  self-registration and the command line acts without one; what was acknowledged stays,
  what was refused changed nothing; every call, a bulk run too, ends;
- *verify and revocation*: no session exists that a revocation would not find; "revoked"
  is never said of a session that survived; every product gets its result whatever the
  others do and a bulk run forgets nobody; who has been disabled and reported signed out
  stays out;
- *products*: a replaced secret never works again; the secret that was shown is the right one;
- *Google sign-in*: a person is one Firebase user for good; nobody is vouched for who has not
  shown that the address is theirs; a user that anything refers to is never deleted;
- *FinanSu*: one login, one account; a linked account can sign in; a sign-in and a
  revocation end every session that was there before;
- *GM2*: one login, one account; a sign-in on one device leaves the others alone, up to the
  limit of devices; a revocation ends them all;
- *bulk screen*: a preview lists whom the form means; a run reaches nobody the admin could
  not expect;
- *database*: whoever has it open finds the whole schema, and whoever keeps trying gets in.

## The modules

Each module takes its slots for concurrent calls as a constant, keeps the call of each
slot in a record with a `pc` that names the statement it executes next, and has one
action per statement, with the Go code up to the next one. `Fail` (or `HangUp`,
`LoginFails`) ends a call at any statement. History that only properties read is marked so.

- **Roster** - what the whitelist promises: a function from addresses to entries, changed
  by joining, by appointment from the command line, or by somebody *else* who is an
  administrator. No requests, statements or answers.
- **Whitelist** - the detailed specification. `table` is `allowed_emails`, `req` the calls:
  the five admin operations (`Authorise` is `requireAdmin`'s lookup, the rest the statements
  of `store.go`), `login` (`admit` with `EnsureMember`) and `seed` (`seed-admin`).
  `UpdateRole`, `DisableRow` are the guarded UPDATEs, `Explain` is `explainNoop`, `Reread` the
  Lookup that their answer carries. `R == INSTANCE Roster WITH roster <- table` states the
  refinement. **MCWhitelist** instantiates it, **WhitelistProofs** holds the proofs.
- **Revocation** - verify, the login records, the notifier and the three handlers that use
  it, with the browser, Firebase and the products around them. `links` is
  `user_client_links`, `session` what the products hold, `net` the notifications on the
  way. A login is `VerifyToken`, `Admit`, `RecordLogin`, `OpenSession`; an admin request is
  `Disable`, `ReadTargets`, `RevokeFirebase` for each sub, `Notify` or `Skip` for each product and
  then `NotifySucceeds` or `NotifyFails`, and `Following` for the next person of a bulk run.
  `DisableFails` is a refused or failed UPDATE, `LookupFails` a failure after it (the Lookup in
  `Disable`, or `RevocationTargets`): 500, or in a bulk run an entry of `failed` and the next
  person. A product deletes sessions for good, as FinanSu does, or is one of `WriteBack`, as GM2
  is: `held` are sessions its requests have loaded and will save again.
  The whitelist is reduced here to whether a person is active; that callers are authorised
  and entries exist is Whitelist's subject. **MCRevocation**, **RevocationProofs**.
- **Clients** - `row` is the table `clients`; secrets are numbered in the order they are
  generated. `Update` is `Get` and `Write`; `register-client` is `Find` and then either.
  **MCClients**, **ClientsProofs**.
- **FirebaseUsers** - `handleGoogleSignIn` and `CustomTokenFor`, one action per call of Firebase:
  `Find`, `Delete`, `Create`, `Mint`, then `Exchange` in the browser and `VerifyLogin`, which records the
  uid. `PasswordSignUp` is the sign-up from before the provider was switched off that the
  code's comment speaks of. **FirebaseUsersProofs**.
- **FinanSu** - `user`, `owner` (mail_auth) and `session` are its tables; `call` its requests.
  Each request remembers one token that was valid when it arrived, any (`older`): what a property
  says of that one it says of all. **FinanSuProofs**.
- **Gm2** - `account` is the table `users` with the `tokens` column of each row, `call` the requests.
  ActiveRecord loads a row (`Load`) and later saves the column (`Save`, `Clear`), so every
  request carries the tokens it has `loaded`. The gem evicts the oldest tokens beyond
  `MaxDevices` (`Kept`) and refuses expired ones (`Expire`). **Gm2Proofs**.
- **BulkScreen** - the form, `previewed` (the list on the screen and `previewedCriteria`), the
  dry runs and runs on their way, and the handler that answers them. `Bounds` is `criteria`,
  `Matches` is `BulkCriteria.matches`; time is counted in hours, so that midnight in Japan is not
  midnight in UTC. **BulkScreenProofs**.
- **Migrate** - `applied` is the schema, `version` is `user_version`, `process` the processes in
  `store.Open`. `Apply` is one transaction: a migration and the version after it.
  **MigrateProofs**.

Shared state joins them: Revocation's `active` is Whitelist's `table[e].active`; its
notifications are what FinanSu's `revoke` call handles (`HandleNotification` is the
successful outcome of it); Clients' rows say which products verify accepts and where they
are notified (`Skip` may happen at any product that is not assumed reliable, because the
admin screen sets and clears the URL at any time). FirebaseUsers' `recorded` are the subs of
Revocation's `links`: its `OneUidPerPerson` is what Gm2 assumes of `Vouched` and what lets
Revocation fix `EmailOf`. BulkScreen's `entry` is Whitelist's `table` without the statements, its
`Select` is Whitelist's `BulkSelect` with the conditions put in.

## The runs

| Run | Question and result | Instance |
|---|---|---|
| `whitelist` | With two calls of any kind at once: `UnderAuthority`, `AcknowledgedHolds`, `RefusalChangedNothing`, the refinement of Roster, `KeepsAnAdmin`. Holds. | 3 addresses of which 2 eligible, 2 slots, symmetric; 254 k states |
| `revocation` | `NothingUnrecorded`, `ClearedIsOut`, `NoSilentSurvivor` for one person at one product, with two logins and two admin requests at once, each of which may be cut off, so every retry is there. Holds. | 1 person, 1 product, 2 logins, 2 requests, symmetric; 377 k |
| `revocation_liveness` | One product that answers, one that may not and that writes sessions back, and bulk runs over two people in which any disable or lookup may fail: unless Firebase never answers, every request is answered and the first product drops its sessions whatever the second does (under fairness); `NothingForgotten`, `EveryTargetReported` and, again, `ClearedIsOut`. Holds. | 2 people, 2 products, 1 login, 1 request; 286 k |
| `clients` | Two calls of any kind on a product: `OldSecretIsDead`, `HandedOutWorks`. Holds. | 1 name, 2 URLs, 2 slots, 4 secrets, symmetric; 1.2 M |
| `firebase_users` | Three sign-ins at once: `NothingRefersToDeleted`, `OneUidPerPerson`, `VouchedForOwner`. Holds. | 2 addresses of which 1 allowed, 4 uids, 3 slots, symmetric; 4 k |
| `finansu` | Two requests of any kind: `OneAccountPerLogin`, `LinkedHasAuth`, `ReplacedTokenIsDead`, `RevokedTokenIsDead`. Holds. | 2 users, addresses, subs, slots and tokens, symmetric; 814 k |
| `gm2` | Three requests of any kind: `OneAccountPerLogin`, `OtherDevicesStayIn`, `RevokedTokenIsDead`. Holds. | 2 addresses, 1 sub vouched for with both, 3 tokens and slots, `MaxDevices` 2, symmetric; 715 k |
| `bulk_screen` | Two previews and a run while the form and the whitelist change: `NoSurprise`, `ListsWhoIsMeant`. Holds. | 2 people on either side of a midnight in Japan, 2 previews, 1 run; 534 k |
| `migrate` | Three processes and two failures: `OpenIsComplete`, `VersionCounts`, `UpgradesInPlace` (under fairness). Holds. | all 8 migrations, any version to start from; 13 k |
| `disabled_is_out`, `gm2_revived`, `migrate_race` | What a comment says and the code does not do. Violated, see below. | the smallest instance that shows it, or that of the run above |

**Why the bounds suffice.** A guard of the whitelist relates one row to the number of active
administrators, and a race needs the row of one call to be changed by another: two eligible
addresses and two slots already give two administrators who disable each other, and the third
address is one that must never get a row. A slot is reused without end, so two slots mean two
calls *at a time*, not two calls. For more people and calls the safety results are proved.
In Revocation two logins overlap with each other and with two requests, which gives every
overlap of a revocation with its retry. Two people give the loop of a bulk run a first and a
last; two products give the notifier's loop one that fails before and one after the reliable
one, and one of them writes sessions back, while the product of `revocation` deletes them for
good. In FinanSu a token is issued anew once nobody has or remembers it (a `Create` that finds none
left waits). Two are enough for a sign-in or a notification with an older token to end while
another sign-in issues a new one in between, and for an account with a session on each of its
two addresses, both of which a sign-in has to end; with three the run takes three times as
long and finds the same.
In Clients the number of secrets is the only bound inside the model (`MaxSecrets`): four
allow two rotations on top of two creations. In FirebaseUsers the interesting case needs a
third sign-in (one deletes an unverified user and creates another while two have found
the first), and each sign-in creates at most one user: four uids leave one for the password
sign-up (an action that finds no unused uid waits, which only cuts long behaviours short). In
Gm2 a notification, a sign-in and a sign-out at once need three slots; tokens are reused once
nobody has or remembers them, and with `MaxDevices` 2 the third sign-in evicts one (the
library's limit is 10; the theorems are about any). In BulkScreen two previews are the fewest whose answers can
arrive out of order, and the forms put each kind of bound at the boundary of somebody. In
Migrate the number of migrations is the real one; `MaxFailures` bounds what happens from outside,
and fairness needs it finite, as no run is expected to succeed on a disk that stays full.

**Symmetry** is declared only in runs without liveness properties.

**Fairness.** Revocation: weak fairness of the handler of an admin request, since a handler that
has started runs until it returns, and its wait for a product ends by the 5 s timeout of
`NewNotifier`; a product in `Reliable` handles what it is sent, which is what "reachable"
means. `NewNotifier`'s timeout is for products only: nothing in the code limits how long a call of
Firebase takes, so `RevokeFirebase` is not fair, and `Answered` and `ReachableIsSignedOut` hold
of requests that do not wait for Firebase for ever (`FirebaseHangs`). Requests whose client may
hang up (`Impatient`) are excluded from the liveness properties, because they are cut off by
design. Migrate: a process goes on, and one that could not open the database is started again,
as an operator or supervisor does; without the second half nobody could be said to get in at
all. No fairness is assumed of logins, browsers, networks or administrators.

**Mutants.** Operators named `Bad...` are plausible mistakes (a dropped guard, a row keyed by
the wrong column, a loop that stops early). Each stands before the definition it would
replace, and each property of a passing run fails under at least one of them.

## Where the code and its documentation differ

Three runs show it:

1. `disabled_is_out` - a login that passed `admit` just before Disable and is recorded after
   the targets were read gets a session that no notification ends, although the admin is told
   "revoked" for every product. `internal/revocation/revocation.go:1-3` promises an immediate
   effect. What does hold is `ClearedIsOut`: if no login was between `admit` and its answer
   when the targets were read, the person is out and stays out, at every product that deletes a
  session for good, as FinanSu does. GM2 may bring it back, which is the next point.
2. `gm2_revived` - a GM2 sign-in that loaded the tokens column before a notification and saves it
   afterwards brings every revoked token back, after the 204. What holds is
   `RevokedTokenIsDead`: all tokens but those another request had in memory are dead.
3. `migrate_race` - `migrate` reads `user_version` once, before its transactions. If the server and
   a command open a new file at the same moment, the slower may run the repeatable migration 1
   again after the other has finished, commit `user_version = 1` and fail at migration 2; from
   then on no process can open the file. `OpenIsComplete` and `VersionCounts` hold all the same:
   nothing is lost, and setting the version by hand repairs it.

Smaller ones were met while modelling and have no run of their own:

- *whitelist*: `explainNoop` guesses from a later Lookup, so a call can be refused with "the last
  active administrator cannot be disabled or demoted" about a member (that such a refusal changed
  nothing is `RefusalChangedNothing`), and a demotion that `lastAdminGuard` held back is answered
  200 if the entry is disabled before it looks (so of `SetRole` `AcknowledgedHolds` asks only that
  a role it *set* stays). `seed-admin` prints that a disabled person "is now an administrator"
  (`cmd/seed-admin/main.go:47`); the entry stays disabled and `requireAdmin` refuses them.
- *bulk-disable*: somebody promoted after the selection is disabled as an administrator,
  although "administrators are never included" (`admin_whitelist.go:145`). The screen counts
  failures among the disabled (`index.html:274`) and says that a failed notification can be
  resent with the row's force-logout button (`index.html:245,275`), which a disabled row no
  longer has (`index.html:208-231`). If the form is edited while a preview is on its way, the
  answer enables the run button again, for the conditions of the preview (`NoSurprise` holds:
  the list shown is theirs).
- *products*: `clients.Update` writes both columns, one of them as an earlier `Get` read it, so of
  two concurrent updates of different columns one is undone (`clients/store.go:182-197`); the
  secret is not among them (`OldSecretIsDead`).
- *Firebase*: an ID token minted before a force logout signs in until it expires, as
  `firebaseauth/verifier.go:45` says and `revocation.go:115-116` does not. For a disabled person the
  whitelist stops it (`ClearedIsOut`).
- *FinanSu* answers "already linked to another login" to one of two first requests of the same
  login, and keeps two sessions for a user with two mail_auth rows who signs in through both at once.
- *the caller*: `requireAdmin` looks once, so an administrator who is disabled or demoted while a
  request of theirs runs finishes it. `Whitelist` does not keep who a caller is; `UnderAuthority`
  says that *somebody* is in charge at that moment.
- *bulk-disable* reports a person whose UPDATE took effect but whose Lookup failed as not disabled
  (`admin_whitelist.go:172-178`) and notifies nobody; `NothingForgotten` shows that they are among
  the failed, and a second run or a force logout finds their sessions (`NothingUnrecorded`).
- *GM2*: two saves of the tokens column over each other, with neither locking the row, sign
  a device out or keep in one that signed out. `OtherDevicesStayIn` is about sessions whose own
  sign-in nobody overlapped.
- *GM2*: `update!` has no condition on the column, so the check that an account is not linked yet
  is not repeated; it is `OneUidPerPerson` that keeps two logins off one address.
- *signatures*: `README.md:128` has a timestamp rejected that is off by 5 minutes or more ("以上"), the code only more
  than 5 minutes (`revocation.go:72`, `platform_revocations_controller.rb:45`).

## What is proved

Every invariant and every action property of the passing runs is a theorem, and so is the
refinement of Roster. Each proofs module has the same layout: an inductive invariant `IInv`
of named parts, which TLC has checked on the instance of the run; a lemma that the initial states
satisfy it; a lemma for each action, or for each way an action can change the state; and
theorems that follow from `IInv`.

In `WhitelistProofs`, for any addresses, eligible subset and slots, from no assumption but
`EligibleAssumption`:

- `TypeCorrect`: `Spec => []TypeOK`;
- `Authority`: `Spec => []UnderAuthority`;
- `Refinement`: `Spec => R!Spec`, the statements implement the roster in every interleaving;
- `LastAdminStays`: `Spec => KeepsAnAdmin`, the last active administrator is never lost;
- `ReportsHold`: `Spec => []AcknowledgedHolds`;
- `RefusalsChangeNothing`: `Spec => []RefusalChangedNothing`.

The inductive invariant is `IInv == TypeOK /\ CallOK /\ EligibleRows /\ UnderAuthority`.
`UnderAuthority` alone is not inductive for want of `CallOK`, which ties a statement to the
operations that reach it: without it a `login` could be at `disable`, and nobody need be in
charge. `EligibleRows` is needed by the refinement, where an appointment is of an eligible
address. The key lemma is `NotLast`: an active administrator that `lastAdminGuard` does not
protect has a colleague; so `DisableRow` and `UpdateRole` are *overseen by somebody else*,
which the roster asks of `Bar` and `Reassign`, and the roster then never loses its last
administrator. The step lemmas have one case per action.

What calls report needs a second invariant, `GoodReports`. A call is bound by what it reports
only when it is done, but by then the row may have been written by others; so `Claims` says from
which statement on a call is going to report something about an address, and `Settled` that the
row agrees with it from then on unless a later call that undoes it has run. `Progress` says
where a call can be that has `changed` something, which no refused call has. `BrokenIsAgainst` joins
the two: a row that contradicts a claim is one that `SetRow` notes as undoing it.

In `ClientsProofs`, for any products, URLs and slots and any `MaxSecrets` (`SecretsAssumption`):

- `TypeCorrect`: `Spec => []TypeOK`;
- `OldSecretStaysDead`: `Spec => []OldSecretIsDead`;
- `HandedOutSecretWorks`: `Spec => []HandedOutWorks`.

The invariant is `IInv == TypeOK /\ CallOK /\ Generated /\ OnePlace /\ Stored`. Its core is
`OnePlace`: a secret is with one call that has still to store it, or in the row of one
product, or retired, and never in two of these places; `Generated` makes a new secret
different from all of them. `Shapes` says that every step leaves the table alone (`Quiet`), draws
a secret (`Draws`) or sets one row (`Sets`), so that each part of the invariant is shown for three
shapes and not for eight actions.

In `FirebaseUsersProofs`, for any addresses, uids and number of sign-ins at once
(`AllowedAssumption`):

- `TypeCorrect`: `Spec => []TypeOK`;
- `DeletedIsUnknown`: `Spec => []NothingRefersToDeleted`;
- `OnePersonOneUid`: `Spec => []OneUidPerPerson`;
- `OnlyOwnersVouchedFor`: `Spec => []VouchedForOwner`.

The invariant is `TypeOK /\ VerifiedStays /\ OnePerEmail /\ CallsKnow /\ RecordedVerified`. A
verified user is never deleted, because a sign-in only goes on to delete a user it has found
unverified and `CallsKnow` says that user is unverified still; Firebase keeps one live user per
address; and verify records verified users only. So the logins recorded of an address are those of
its one live user.

In `RevocationProofs`, for any people, subs, products and reliable ones among them, and any
number of logins and admin requests at once:

- `TypeCorrect`: `Spec => []TypeOK`;
- `EverythingIsRecorded`: `Spec => []NothingUnrecorded`;
- `ClearedStaysOut`: `Spec => []ClearedIsOut`;
- `RevokedIsDropped`: `Spec => []NoSilentSurvivor`;
- `EveryTargetHasAResult`: `Spec => EveryTargetReported`;
- `NobodyIsForgotten`: `Spec => []NothingForgotten`.

The invariant is `TypeOK /\ NothingUnrecorded /\ HeldOK /\ RevsOK`. `RevsOK` says three things of
every request. `Accounted`: a pair is ahead (its person is still on the list, `Ahead`), or its
person has failed, or it is a target with one result or still to be told; nobody who had a
session is outside these, which rests on `NothingUnrecorded`, and when the request is answered
nothing is ahead. `Silent`: a product counted as revoked, or that has handled its notification,
has dropped those sessions. `Out`: a person who was quiet when the targets were read has no
session but those, and none once cleared, because they are `Barred`: not active, and with no login
between `admit` and its answer. `Out` is about `Lasting` sessions only, as those at a product of
`WriteBack` may come back, and `HeldOK` keeps these apart. Then a person whose every target is
revoked has lost everything there was. `Calm` names the steps that leave all of `Out` alone.

In `FinanSuProofs`, for any users, addresses, subs, tokens and requests (`NoneAssumption`: the
value that stands for NULL is none of them):

- `TypeCorrect`: `Spec => []TypeOK`;
- `OneLoginOneAccount`: `Spec => []OneAccountPerLogin`;
- `LinkedCanSignIn`: `Spec => []LinkedHasAuth`;
- `ReplacedStaysDead`: `Spec => []ReplacedTokenIsDead`;
- `RevokedStaysDead`: `Spec => []RevokedTokenIsDead`.

The invariant is `TypeOK /\ TokensDiffer /\ UsersOK /\ CallsKnow`. `UsersOK` is what the tables
promise at every moment: whoever is linked exists, a sub links one user, and whoever a mail_auth
row names has one. (That they exist is not promised: a password sign-up may name any user id,
and no foreign key refuses it.) `CallsKnow` is what a request may rely on later although others
have run: the user it has found is linked to its sub still, a notification's token belongs to a
session of the user linked to its sub. `OneAccountPerLogin` then follows from the unique link,
and the dead tokens from a `Create` that issues only `NewTokens`, which nobody has or remembers.

In `Gm2Proofs`, for any addresses, subs, tokens, `MaxDevices` and requests between their load and
their save at once (`MaxDevicesAssumption`, `NoneAssumption`, and `VouchedAssumption`: two subs are
never vouched for with one address, which is `OneUidPerPerson` of FirebaseUsers):

- `TypeCorrect`: `Spec => []TypeOK`;
- `OneLoginOneAccount`: `Spec => []OneAccountPerLogin`;
- `DevicesStayIn`: `Spec => []OtherDevicesStayIn`;
- `RevokedStaysDead`: `Spec => []RevokedTokenIsDead`.

The invariant is `TypeOK /\ RowsOK /\ CallsKnow /\ OneHome /\ PendingFresh /\ AllRevoke /\ WorksOK`. As a
request may save what it loaded long ago, the column is never enough: the proof speaks of where a
token *is* (`Has`), which is the column or the memory of a request that may write it there. A
token has one account as its home (`OneHome`), and until it is issued none (`PendingFresh`). A session
that has to work is in the column and in the memory of everybody who is going to save it, and is
asked to work no more once it is evicted or has expired (`WorksOK`); the tokens of a notification
stay with the account of its sub, and after the 204 only in memories it could not see (`AllRevoke`). `RowsOK` needs `VouchedAssumption`: `update!` overwrites a link without
looking, and it is that no other sub comes with that address that keeps it. All actions go through one
lemma, `Step`, that says what a request may do to the column and what it may load; only `Expire`,
which takes a token out of every memory at once, is shown by itself.

In `BulkScreenProofs`, for any people, forms and previews and runs on their way (`PeopleAssumption`:
an address says at most one entry year; `FormAssumption`):

- `TypeCorrect`: `Spec => []TypeOK`;
- `NobodyIsSurprised`: `Spec => []NoSurprise`;
- `PreviewsListWhoIsMeant`: `Spec => ListsWhoIsMeant`.

The invariant adds to `NoSurprise` that an answered preview, the list on the screen and a run that
has been sent each cover whom their conditions select at this moment (`Covers`), which holds because
whoever starts to match has become a member since. `ListsWhoIsMeant` is not about interleavings
but about arithmetic: `DayBounds` and `MatchesIsMeant` show that the bounds `criteria` computes in hours
select the days in Japan that the form means, at every midnight.

In `MigrateProofs`, for any number of migrations, processes and failures (`LastAssumption`,
`FailureAssumption`):

- `TypeCorrect`: `Spec => []TypeOK`;
- `VersionIsHonest`: `Spec => []VersionCounts`;
- `OpenedIsUpToDate`: `Spec => []OpenIsComplete`.

The invariant is `TypeOK /\ VersionCounts /\ PastIsApplied /\ OpenIsPast`: a process that is past a migration
finds it applied, whoever did it. `user_version` is not that: a slow process may set it back.

Only model-checked: the liveness properties `ReachableIsSignedOut`, `Answered` and `UpgradesInPlace`.
They rest on fairness, hence on ENABLED, about which TLAPS does not reason here. The three
violations are TLC's as well.

## Not modelled, and the plan

Left out by choice: HTTP and JSON decoding, CORS, logging, validation that refuses a call
before its first statement, signature bytes and their time window, hashing and token formats,
timestamps that nothing compares (`first_seen_at`), who is noted in `added_by` and
`disabled_by`, and configuration. A rejected signature is one cause of `LoseNotification`; an
expired ID token can stop being used at any time. The address of a Firebase user is fixed:
nothing in the code changes it, and a person with a new Google address gets a new user.
FirebaseUsers leaves out that an address may be verified by anything but `CustomTokenFor`, which
is what switching the providers off means. Gm2 leaves out the endpoints of devise_token_auth that
change or delete an account, which of the tokens beyond ten devices is the oldest, the spelling of
addresses and passwords.
Of the screen only the bulk-disable keeps state between requests; the other buttons are the
requests of Whitelist, Clients and Revocation.

Next are the safety halves of the liveness properties (what a step towards an answer may not
undo: no target comes back to `left`, no migration is taken away) and the joints between the modules
that are stated in words above: that a login record of FirebaseUsers is what `Vouched` of Gm2 assumes,
and that BulkScreen's `Select` is an instance of Whitelist's `BulkSelect`.

## Running

    tlc -config MCWhitelist.cfg MCWhitelist      # likewise the other .cfg files
    tlapm WhitelistProofs.tla                    # likewise the other ...Proofs modules

`PROJECT.json` lists the runs with their properties, the definitions with the lines they
model, the hazards of the code with the properties that cover them, and the theorems.
