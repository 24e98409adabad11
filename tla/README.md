# A formal model of the BWIN API

TLA+ modules for the parts of this FastAPI/PostgreSQL application whose
correctness depends on the order in which requests touch shared rows, the TLC
configurations that check them on small instances, and machine-checked proofs
of the properties that matter most.

Contents: [how the system runs](#how-the-system-runs),
[inventory](#inventory), [modules](#modules),
[authentication](#authentication), [support tickets](#support-tickets),
[the site](#the-site), [runs and bounds](#runs-and-bounds),
[divergences](#where-code-and-documentation-disagree), [fairness](#fairness),
[proofs](#proofs), [limits](#what-is-not-modelled), [plan](#plan).

## How the system runs

Every HTTP request gets one SQLAlchemy `AsyncSession` (`app/core/database.py`,
`get_db`). The engine sets no isolation level, so PostgreSQL runs it at READ
COMMITTED, and no query in the repository asks for `FOR UPDATE`. Services own
the transaction: they commit themselves, and whatever is not committed when an
exception or a crash ends the handler is rolled back. Three facts follow, and
every module rests on them:

* A row read earlier in a request can be stale when the request writes it.
  `autoflush` is off and `expire_on_commit` is off, so an object keeps the
  values it was loaded with.
* `BaseRepository.update` emits an `UPDATE ... WHERE id = ...` of the columns
  that changed. It waits for a concurrent writer of the row and then applies
  itself, whatever that writer did: checks made in Python are not repeated.
* A bulk `UPDATE ... WHERE condition` (`revoke_all_for_user`,
  `invalidate_outstanding`) selects from what was committed when the statement
  began, waits for the writers of those rows, and rechecks the condition on
  their newest versions. It does not see rows committed meanwhile.

A handler is therefore a chain of steps cut wherever another transaction can
get in between: a read of committed rows, a write that may have to wait, a
commit, a message sent after the commit.

## Inventory

| Component | State | Operations | Hard behaviour | What makes it correct |
|---|---|---|---|---|
| auth sessions (`app/modules/auth/services/auth.py`) | `refresh_tokens`; access tokens held by clients | login, social login, refresh, logout, logout-all, authenticate | concurrent refreshes, bulk revocation racing inserts, replay detection committing before its 401 | an ended session stays ended; a renewed session is ended; sign-out everywhere ends all it can see |
| password reset and change (`services/password_reset.py`) | `password_reset_tokens`, `users.password_hash`, `users.tokens_valid_from` | forgot-password, verify link, reset-password, change-password | reset racing sign-in; three transactions in change-password; opposite lock orders; throttle; mail after commit; whole-second cutoff | no session of the old password survives a reset; a link works once; a delivered link exists |
| users (`app/modules/users`) | `users`, `user_identities`, `user_roles`, `user_details`, picture files | register, update, status, verify, set_password, roles, unlink, delete, restore, picture, details | check-then-write on identifiers and on the last way to sign in; a file is no part of a transaction | a user can always sign in some way; identifiers unique; a picture points at a file |
| social sign-in (`auth/services/oauth.py`) | identities, OAuth state | start, callback, link by email | two tables written in steps; commits before the sign-in guard | one account per provider identity; the copy in `users` is that of the identities |
| support tickets (`app/modules/support`) | tickets, messages, attachments, feedback, status and assignment histories, counters | create, create for a student, reply, note, assign, change status, escalate, close, reopen, merge, feedback, upload, delete, restore | numbers drawn as a maximum plus one; transitions checked on a stale status; merges crossing replies, uploads and each other | numbers are unique; the lifecycle follows its table; the histories, counters and mirrored columns agree with the rows they mirror |
| category tree, menu tree (`categories`, `menus`) | type, parent pointer, soft delete | create, edit, move, delete, restore | cycle and depth guards read before they write; restore guards nothing; menu items rely on a category another module changes | the trees stay trees, within one type, under live parents |
| blogs, pages, automations, courses, consultancies | address, status, publication date, category, tags | create, update, publish, unpublish, archive, delete, restore | republishing, addresses that must not move, taxonomies that change underneath | an article keeps its address and its date once it is public |
| master data (`master_cruds`) | fields, records, answers | define, edit, delete and restore a field; create, edit, delete, restore a record | an answer outlives the record's deletion; a field is edited while a record is filled in | a stored answer reads as its field's type |
| subscriptions | address, status, link | subscribe, confirm, unsubscribe, resend, bounce, edit, delete, restore | confirm racing unsubscribe, duplicates, cooldown, mail after commit | only a confirmed address is on the list; who left stays away |
| notifications | announcement, its copies, counters | create, send, edit, publish, delete, restore; open, archive, mark all read | recipients rebuilt while published or read; copies written from stale rows, counters in SQL | a reader is counted once; what was read is not sent anew |
| roles, permissions | roles, permissions, grants, assignments, their activity entries | create, edit, delete, restore, grant, revoke, sync, assign, seed | two transactions for an assignment and its entry; seeding beside administrators | the log names what a role or an account holds |
| inquiries | inquiries, messages about them | submit; open, move, edit, mark unread, delete, restore | count-then-insert limit, repeats, mail after commit | the limit holds; nobody is told of what is not stored |
| settings, translations | values, texts, seeded defaults | set one or a form, create, delete; edit texts; seed and sync | a seeding in one transaction per file beside administrators; rows deleted and made again | a deployment completes what is missing and overwrites no value of an administrator's |
| media | files by name | store, remove | a request that dies between file and row | no row points at a missing file |
| migrations (`alembic/versions`) | the schema, seeded rows | upgrade, downgrade | foreign keys that refuse a revert, seeds that meet rows of administrators | every revision applies and can be reverted |
| activity logs | entries | record | written in a transaction of its own | the log names what changed |
| core, shared | engine, sessions, base repository, tokens | `get_db`, create, update, filter, paginate | transaction boundary | as above |

How they interact: `auth` reads and writes `users`, `refresh_tokens` and
`password_reset_tokens` in one transaction, and calls `UserService` for
`set_password`; every other component asks `auth` (`get_current_user`,
`require_permission`) who the caller is; all record to `activity_logs` in their
own transaction. Nothing runs in the background (`app/jobs` is empty); messages
leave through a sender called in the request. `app/modules/cms`, `lms` and
`reports` are empty.
The content modules meet in one place: a menu item, an article or a record is
filed under a category, which its service reads once, when the row is filed.

`PROJECT.json` lists each component with its status, and under `hazards` the
lines where tests hardly reach.

## Modules

| Module | Models |
|---|---|
| `AuthSessions` | the tables `users`, `refresh_tokens`, `password_reset_tokens`, their row locks, and every handler that writes them |
| `AuthSessionsProps` | its type invariant, inductive invariant, safety, action and liveness properties |
| `SessionLedger` | what `refresh_tokens` promises, without transactions or handlers |
| `MCAuthSessions` | `AuthSessions` for TLC: the symmetry set |
| `AuthSessionsProofs` | proofs about `AuthSessions`: types, ended sessions, renewals |
| `AuthHandlersProofs` | proofs about `AuthSessions`: what each handler holds, what its commit does, the refinement of `SessionLedger` |
| `AuthAloneProofs` | proofs about `AuthSessions` while requests do not overlap |
| `SupportTickets` | the tables of `app/modules/support` and every handler that moves a ticket along, its messages and attachments |
| `SupportTicketsProps` | its type invariant, inductive invariant, safety and action properties |
| `TicketLifecycle` | what a ticket goes through, without handlers, dates or counters |
| `MCSupportTickets` | `SupportTickets` for TLC: the symmetry set |
| `SupportTicketsProofs` | proofs about `SupportTickets` under every interleaving |
| `SupportCountsProofs` | proofs about its counters, and about the desk while requests do not overlap, with the refinement of `TicketLifecycle` |
| `Calls` | a request of the other modules: load and check, then write by id |
| `CategoryTree` | category types and the trees of categories; walking a tree of rows with a parent column |
| `MenuTree` | menu items beside the categories they lie in |
| `Publishing` | blogs, pages, automations, courses and consultancies beside their categories |
| `MasterData` | fields, records and answers beside their categories |
| `Accounts` | `users` and `user_identities`: registration, edits, verification, linking, unlinking, social sign-in |
| `Access` | roles, permissions, grants, assignments, their log entries and their seeding |
| `Profiles` | pictures, the files they are, and details of accounts |
| `Subscriptions` | the newsletter list and its links |
| `Notifications` | announcements, the copies their recipients read, and the counters |
| `Inquiries` | the contact form and the desk's inbox |
| `Configuration` | settings, translations, and seeding beside administrators |
| `Migrations` | the 29 revisions, upgrade and downgrade |
| `Site` | the modules from `CategoryTree` on side by side |
| `MCSite`, `MCCategoryTree` | `Site` and `CategoryTree` for TLC: loads, symmetry sets |
| `SitePeopleProofs` | proofs about calls, `Access` and `Accounts`, within `Site` |
| `SiteOfficeProofs` | proofs about `Inquiries`, `Notifications`, `Subscriptions`, `Configuration` and `Migrations`, within `Site` |
| `SiteContentProofs` | proofs about `Profiles`, `MasterData`, `Publishing`, `CategoryTree` and `MenuTree`, within `Site`, and about the types of the whole |

A definition whose comment begins with "Mutant" is not part of a
specification. It is the definition that follows it with a plausible bug in it;
putting it in that definition's place makes the property `PROJECT.json` pairs
it with fail, which shows that the property depends on the code.

## Authentication

### State

Each of the three tables has three variables, `user`/`userW`/`userLock` and so
on: the committed rows, the newest version of each row (its writer's, while a
writer holds it), and the request holding the row lock. `Publish` and `Discard`
are COMMIT and ROLLBACK; `Unlock` ends the transaction. A row keeps only the
columns a decision reads:

| Model | Code |
|---|---|
| `user[u].hash` | `password_hash`; `None` is an account without a password |
| `user[u].validFrom` | `tokens_valid_from`, in whole seconds; 0 is NULL |
| `user[u].status` | `status`; `blocked` stands for `suspended` and `deactivated`, which `can_sign_in` treats alike, and for a soft-deleted account |
| `user[u].verified` | the timestamp of the contact the link went to; one contact per account |
| `sess[t].revoked` | `revoked_reason`, `"live"` when `revoked_at` is NULL |
| `link[l].used`, `.retired` | `used_at`, `invalidated_at` |
| `access` | access tokens handed out, with their `iat`; they are not rows |
| `mail` | reset links delivered |
| `req[r]` | a request handler in flight: operation, where it stands (`pc`), what it has read |

`origin` and `spends` are history: how a session was opened, from which parent
and by which password, and how many resets committed with a link. Two kinds
of constant stand for the same thing on both sides of an interface: a refresh
token is the key of its row (the code stores its SHA-256 digest), and so is a
reset token.

### Actions

| Action | Code |
|---|---|
| `LoginVerify`, `LoginTouch`, `Commit` | `AuthService.login`: verify; then `last_login_at` (the users row lock) and the new session in one flush sequence; commit |
| `RefreshLoad`, `RefreshRotate`, `Commit` | `AuthService.refresh` of a live token: the row read as live is retired by id, the pair issued |
| `RefreshReuse`, `RevokeScan`, `RevokeAll`, `Commit` | `AuthService.refresh` of a rotated token: every session of the account is revoked and committed before the 401 |
| `LogoutLoad`, `LogoutMark` | `AuthService.logout` |
| `LogoutAllStart`, `RevokeScan`, `RevokeAll` | `AuthService.logout_everywhere` |
| `RequestLoad`, `RetireScan`, `RequestInsert`, `Commit`, `RequestSend` | `PasswordResetService.request`: limits, retire outstanding links, insert, commit, send |
| `ResetLoad`, `ResetRenew`, `RevokeScan`, `RevokeAll`, `ResetSpend`, `Commit` | `PasswordResetService.reset` |
| `ChangeLoad`, `SetHash`, `ChangeCommit`, `RevokeScan`, `RevokeAll`, `ChangeStamp`, `ChangeCommit`, `ChangeIssue`, `Commit` | `PasswordResetService.change_password`: three transactions |
| `ChangeLoad`, `SetHash`, `Commit` (op `set_password`) | `UserService.set_password` on its own: the administrator's route, and change-password with `sign_out_other_sessions` false |
| `SetStatus` | `UserService.update` with a status |
| `DeadlockVictim`, `Crash`, `Rollback` | PostgreSQL's deadlock detector; a handler that dies at any step |
| `Tick` | the clock |

A request that is turned away (wrong password, expired link, over the limit)
changes nothing and is not a step. Times the code computes before a statement
that may wait (`iat`, the cutoff) range over the interval from the request's
start, or the load of the row, to now.

### Properties

Under every interleaving of requests and crashes:

* `RevocationIsFinal`: no late writer revives a session that has ended.
* `RenewedParentIsRetired`: parent and successor are never usable together.
* `RevokeAllEndsWhatItSaw`: a bulk revocation ends all it matched, including
  rows that other requests hold.
* `KeepsLedger`: every commit opens one session, renews one, or ends some; the
  handlers implement `SessionLedger`. Its `state` is the committed
  row read as unborn, live or ended; its `parent` is the history of committed
  rows.
* `ResetLeavesNoLoginSession`: a sign-in that verified the old password leaves
  no session behind a reset, because both write the users row first.
* `ResetCutsOffAccess`, `ChangeCutsOff`: tokens of an earlier second are
  refused from the commit on.
* `MailedLinkIsStored`: no link is mailed whose row was rolled back.
* `OnlyAdminsUnblock`: a reset that read PENDING never lifts a suspension. In
  the model the status is the newest version, because `users.update` refreshes
  the object after it has the row lock and before `_mark_contact_verified`
  looks at it.
* `RequestsFinish`: every request ends, although a reset and a password change
  take users and refresh_tokens in opposite orders.

While an account's requests do not overlap (crashes and any order allowed):
`RotatesOnce`, `LinkWorksOnce`, `OneUsableLink`, `ThrottleHolds`,
`SessionsKnowPassword`. Each of the first four is a read
followed by a write with nothing that makes the pair atomic, and fails when two
requests overlap; `refresh_twice.cfg` shows the first.

`RevokeAllEndsWhatItSaw` speaks of what the statement saw because a session
inserted by a transaction that commits afterwards survives sign-out everywhere.

## Support tickets

### State

| Model | Code |
|---|---|
| `ticket[t]` | the `support_tickets` row: `no`, `status`, `resolved`/`closed`/`first` (`resolved_at`, `closed_at`, `first_response_at`), `escalated`, `assignee`, `merged` (`merged_into_id`), `deleted`, `replies` and `files` (`total_replies`, `attachment_count`), `rating` (the copy a queue shows) |
| `message` | `support_ticket_messages` in order of insertion, each with its ticket and whether it is a reply; an internal note and a system line are not |
| `file[f]` | `support_ticket_attachments`: its ticket, `None` once deleted |
| `trail[t]`, `handover[t]` | the latest `support_ticket_status_history` and `support_ticket_assignments` rows |
| `survey[t]` | the rating of the `support_ticket_feedback` row |
| `numbering` | the request that holds `pg_advisory_xact_lock` on this year's numbers |
| `req[r]` | a handler in flight: what it loaded (`row`), what it decided (`want`, `cols`), the messages and attachments a merge has read |

A ticket has one student, so the student's side is one actor; trainers
(`Agents`) see what they are assigned, an administrator sees all
(`policy.py`). Numbers are compared within one year.

### Actions

A handler loads the ticket, checks the transition, decides in Python which
columns change, and writes them by id. Nothing locks the row between the load
and the UPDATE, so each operation is two steps: `Reply`, `Note`, `Assign`,
`ChangeStatus`, `Escalate`, `Close`, `Reopen`, `Feedback`, `Delete`, `Restore`,
`Upload`, `Unfile` load and decide; `Write`, `WriteFeedback` and `WriteFile`
write, add the messages and history rows, and commit. `cols` is the set of
columns the UPDATE names, since SQLAlchemy leaves out those that did not
change: what another handler wrote to the others stays. The counters are
added to in SQL (`bump_counters`), and so from their newest value (`Counted`).

| Action | Code |
|---|---|
| `Number`, `Insert` | `create`: the advisory lock and the next number; the insert and commit, which releases the lock |
| `Reprioritise`, `AssignRaised`, `AssignNothing` | the rest of `create_for_student`, in transactions of their own on the object the session still holds |
| `Merge`, `MergeMessages`, `MergeFiles`, `WriteMerge` | `merge`: the guards; the SELECT of `reassign_to_ticket`; its UPDATE by id and the attachments; the rest and the commit |
| `Refused` | the `IntegrityError` of a second feedback |
| `Crash` | a handler that dies, or that PostgreSQL ends in a deadlock of two merges, before its commit |

### Properties

Under every interleaving and crash (`desk_overlapping`):

* `NumberIsFree`: no two tickets share a number, and none is reserved twice;
  the lock must outlive the insert and deleted tickets must keep theirs.
* `NoReplyUncounted`: replies that land together, or on a ticket being merged,
  are all counted.
* `DeskInv`, with `RatingMirrorsFeedback` among its conjuncts: of two feedbacks
  that both passed the check, only the one whose row went in writes the ticket.
* `EscalatedIsFlagged`: `status = escalated` only with `is_escalated` set,
  although `change_status` and `escalate` write the two from stale rows.
* `HistoryIsCurrent`: the last history rows say where the ticket stands,
  although a handler tells them from the values it loaded and writes them only
  when its own values differ. It speaks of tickets that were not merged: a
  merge's line does not start where the one before it ended.

While requests do not overlap (`desk_one_at_a_time`): `ClosedLeftOnlyByReopen`,
`DatesMatchStatus`, `MergesEnd`, `FilesCounted`, and

* `KeepsLifecycle`: the desk implements `TicketLifecycle`. The card of a ticket
  is what its course depends on, of its row (`Cards`): status, escalation flag,
  assignee, merge target, rating, deletion. Every commit is one whole decision
  about one card as it stands (it moves along the transition table, is handed
  over, escalated, rated, merged, deleted or restored) or leaves all cards alone,
  and nothing but a restore happens to a deleted ticket. `FollowsTransitions`,
  that statuses change along the table, is the part of it that `constants.py`
  states.

Each rests on a check of a loaded row and fails when two requests overlap.

## The site

The administration and content modules are one shape: a handler loads its rows,
checks its guards in Python, writes by id the columns whose value it changed,
and commits. `Calls` is that shape. `Begin` loads and checks and keeps in
`call[r]` what was decided; a later step writes it down (`Written`, of the
columns `Changed` names) and ends the request; `Die` ends it anywhere before.
A unique index is checked again when a row is written, since it holds whatever
the Python check saw. `Alone` says that the behaviour makes its calls one after
the other; a property with `Alone` in front rests on a guard that two
overlapping calls get past, and its comment says which part does not need it.

A `gone` column is `deleted_at`. A moment is kept as far as the code asks about
it (has a cooldown passed, has an expiry come), not as a number of seconds.

### Trees: `CategoryTree`, `MenuTree`

`types` and `cats` are `category_types` and `categories`, `items` is `menus`.
`Ancestors` and `Descendants` are the repository's walks, which stop at deleted
rows. One action per operation: `CreateCategory`, `UpdateCategory`,
`MoveCategory`, `DeleteCategory`, `RestoreCategory`, the same for items, and
`CreateType`, `DeleteType`, `RestoreType`; `WriteType`, `WriteCategory` and
`WriteItem` write.

* `OnlyRestoreBreaksTrees`: while calls do not overlap, only `restore` makes a
  sound tree unsound (a parent deleted, of another type or navigation, or a
  ring). No call on items takes an item out of the Menu Category type; a call
  on its category can, since none of them looks at a menu.
* `NeverItsOwnAncestor` is what `models/category.py` promises and `restore`
  breaks (`category_ring`).

### Content: `Publishing`, `MasterData`

`articles` is the table `load.part` names. `Publish`, `Unpublish`, `Archive`,
`DeleteArticle` and `RestoreArticle` are common; creation and update differ by
kind: which taxonomy its category is of (`BlogCategoryFits`, `TagsFit`,
`CategoryFits`), whether an address may still change (`MayReslug`), which codes
are unique.

* `PublicationHolds`: a published or archived article keeps its address, and a
  date once set stays until a call names another.

In `MasterData` a category's fields are its form, a record answers it, each
answer a row. `_guard_answered`, the form's types and required fields, and the
update in place of `set_values` are modelled; of the field types `text` and
`number` stand for one that reads any text and one that does not.

* `AnswersFitTheirFields`: an answer is to a live field of its record's category
  and reads as its type, in deleted records too, because a restore examines
  none. Names of fields stay distinct under overlap.

### Accounts: `Accounts`, `Access`, `Profiles`

`users` and `ids` are `users` and `user_identities`. A link or an unlink is
three steps: load and check; INSERT or DELETE, and the SELECT the copy in
`users` is rebuilt from; UPDATE and commit. `SocialLink` and `SocialCreate` are
`resolve_social_login`. `Unpinned` is the lock a foreign key's INSERT holds on
the users row.

* `AccountsDistinct`: addresses, numbers and identities belong to one account,
  deleted ones included, under any overlap; in turn, the copy in `users` is that
  of the identities.
* `AccountStaysWithOwner`: in turn, no call takes the last way to sign in, and
  only an edit of the status ends a block.

In `Access`, `given` is `role_permissions` and `user_roles` in one: a set an
owner holds, written by a DELETE of rows it sees and an INSERT of rows it names.
`logged` is what the last entry of `activity_logs` says. A grant and its entry
commit together; the roles of an account commit before their entry (`WriteEntry`), so a
request that dies between them (`LoseCall`) is remembered in `unlogged`. The
reference seeder (`SeedRoles`, `SeedPermissions`, `SeedGrants`) runs beside the
administrators.

* `AuthorityIsLogged`: in turn, the last entry about a role or an account names
  what it holds, but for such a death.

`Profiles` has `pictures` (`users.avatar_url`), `uploads` (the files) and
`details`. Storing a file, pointing the row at it and discarding the old file are
steps a request may die between.

* `PictureOutlivesPointer`: in turn, an account whose picture is stored is never
  left pointing at a missing file by its own upload or removal.

### Outreach: `Subscriptions`, `Notifications`, `Inquiries`

`subs` is the list, `links` what was mailed to whom. A mail is a step after the
commit and may be lost (`LoseMail`). `Resume` starts a sign-up again,
`Confirm` follows a link, `Unsubscribe` that of a footer; `MarkSubscribed`,
`MarkUnsubscribed`, `MarkBounced`, `CreateSubscription`, `UpdateSubscription`,
`DeleteSubscription` and `RestoreSubscription` are the list's administration.

* `LeavingIsHonoured`: in turn, no row reads as both subscribed and left, a
  token means an address still to be confirmed, and a link does not subscribe
  an address that has left since.

`notes` and `copies` are `notifications` and `notification_recipients`. An edit
that changes the audience deletes and inserts copies, so a copy has a number: one made
again is not the one a reader had loaded. `OpenCopy`, `ArchiveCopy` and
`MarkAllRead` write the copy from the loaded row and move the counters in SQL.
`Frozen` is the guard on announcements that went out.

* `EngagementAddsUp`: `total_recipients` counts the copies and `total_reads` no
  fewer than its readers under any overlap; in turn both are exact, and so are
  the views.
* `ReadingIsKept`: in turn, what was read stays read and its announcement is
  sent to nobody else.

`inquiries` is the inbox, `told` what the desk was mailed of. `Submit` checks
the limit and the repeat; `SubmitAgain` is a repeat, which writes nothing and
sends its messages; `Tell` follows the commit.

* `SubmissionsPaced`: in turn, no window holds more than the limit from one
  address, whatever the desk deletes or corrects; under any overlap nobody is
  told of what is not stored.

### Deployment: `Configuration`, `Migrations`

`settings` and `strings` are settings and translations. `Seed` inserts missing
settings; `SyncLocale` then takes one locale file after another, each in its own
transaction, so a seeding may die half way.

* `SeedingCompletes`: under any overlap a shipped setting stays and only a form
  that names it changes its value; in turn, a seeding that ends leaves no setting
  and no string of its files missing, whatever earlier ones left half done.

In `Migrations`, `Revisions` is the chain of `alembic/versions`: the tables each
creates with their foreign keys, the rows it seeds, what its downgrade deletes
and drops. `Upgrade` and `Downgrade` run one command, in one transaction;
`AddPermission`, `AddType`, `AddCategory` and `FileUnder` are rows of
administrators between two commands.

* `RevisionsApplyAndRevert`: what an applied revision seeded is there; the next
  one applies unless a staff-made type has the name it seeds; the last one
  reverts unless something is filed under a topic of the support desk, and then
  leaves what earlier ones seeded and the categories administrators made in
  other taxonomies.

## Runs and bounds

| Run | Instance | Question |
|---|---|---|
| `sessions` | 2 requests, 3 tokens, login/refresh/logout/logout-all, crashes, 1 tick; 122,832 states | Does the session table keep its promises under concurrency? |
| `passwords` | 2 requests, 2 tokens, 1 link, 2 passwords, login/refresh/forgot/reset/change/set_password/status, crashes, 1 tick; 647,852 states | Do writers of the users row respect each other? Is `HandlerInv` an invariant? |
| `one_at_a_time` | 1 request, 3 tokens, 3 links, 2 passwords, crashes, 2 ticks; 681,921 states | Do the README's promises hold when requests do not overlap? |
| `progress` | 2 requests, login/forgot/reset/change, no crashes, no ticks, `FairSpec`; 13,116 states | Does every request end? |
| `refresh_twice` | 2 requests, 3 tokens, login/refresh | violated: see below |
| `admin_password` | 1 request, login/set_password | violated: see below |
| `desk_one_at_a_time` | 1 request, 2 tickets, 1 agent, 1 attachment, every operation, crashes, 6 calls, 1 tick; 5,877,340 states | Does the desk implement the lifecycle, and keep dates, window, merges and attachment counter, when requests do not overlap? |
| `desk_overlapping` | 2 requests, 2 tickets, 1 agent, 1 attachment, 2 ratings, every operation, crashes, 5 calls; 2,807,893 states | What still holds when they do? Is `DeskInv` an invariant? |
| `merge_counts` | as `desk_one_at_a_time` | violated: see below |
| `close_and_reply` | 2 requests, 5 calls, 1 tick | violated: see below |
| `site` | 2 requests, two of most rows, one part at a time, calls in turn and together, crashes; 607,892 states | Does each administration and content module keep its tables in order, and what of that survives overlap? |
| `category_ring` | 1 request, 1 type, 4 categories, 5 calls | violated: see below |

Why the authentication runs are enough to be interesting. One account, because no statement of
these handlers touches the rows of another account. Two requests, because each
hazard is a race between a reader-then-writer and one other transaction.
Three tokens give a sign-in, its successor and a competing successor. Two
passwords give an old and a new one. A tick is a second (`TicksPerSecond = 1`),
so that a run of one or two ticks crosses the boundary of the whole-second
comparison; lifetimes are chosen so that access tokens, refresh tokens and the
throttle window end inside the run that asks about them. `MaxClock`, the number
of tokens and the number of links bound the runs; a request that will need a
token or a link starts only while one is left, so that no request stops half
way for want of one.

Why the support runs are. `MaxCalls` bounds the calls clients make; a crash, a
tick and the later steps of a handler are no calls. Two tickets are what a
merge needs. Six calls are enough to raise two tickets, escalate, resolve or
close one, reopen it and merge it; five are enough to raise two, and let two
operations overlap after a third has moved one of them. One agent stands
beside the administrator, so that there are two kinds of staff, a handover to
nobody and back. One attachment is both the first and, with
`MaxAttachments = 1`, the one at the cap. With `ReopenDays = 0` a reopen is
inside the window at the tick of the close and outside it at the next, and the
mutant `ZeroIsNoWindow` reads 0 as no window. The overlapping run keeps the
clock still: none of its properties reads a date.

Why the site run is. `Loads` says which part of the site a behaviour is about,
which requests may call (`crowd`: one, so that calls follow each other, or two,
so that they overlap) and how many calls are made; each initial state picks
one load. One part at a time loses nothing, because no action of
one part reads a table another part writes, categories excepted; and those who
read categories carry every call on categories with them (`menus`) or start
from every state these calls can bring a category to (articles, records: they
read a category once, when a row is filed, and no property speaks of it later;
a deleted category turns a field or a record away as an inactive one does).
Calls per part, in turn / together:

| Part | Calls | Part | Calls |
|---|---|---|---|
| categories | 3 / 2 | menus | 2 / 2 |
| pages | 4 / 2 | courses | 3 / 2 |
| blogs, automations, consultancies | 3 / none | data | 4 / 2 |
| accounts | 3 / 2 | access | 4 / 2 |
| profiles | 4 / 2 | subscriptions | 4 / 3 |
| notifications | 3 / 2 | inquiries | 3 / 2 |
| configuration | 3 / 2 | migrations | 5 / none |

The short loads are enough where the initial states are many: trees start from
every sound forest, accounts from one with any address, password and
identities, settings from any that are missing, grants from before and after a seeding; two or three calls
then bring a row from any state into any other. Subscriptions, pages, pictures
and records start from nothing and get more calls: sign
up, leave, sign up again and confirm is four. Two rows are what
every uniqueness check and every parent pointer needs. With `MaxDepth = 3` the
depth guard takes four rows to turn a call away, as in `category_ring`; with
the two of `site` it never does, and no property is about depth: the guard does not
keep the limit, since it ignores the height of what is moved.
`MaxSubmissions = RateWindow = RepeatWindow = 1` and `MaxClock = 2` put
the second form of a sender on both sides of either window; `MaxLinks = 4` lets
every call of a load of four mail a link. `Stops` are the positions of the revision
chain a deployment may come to rest at: empty, before the first grants, before
categories, before and after the taxonomies of the blog and of the support desk, and the newest. Migrations run alone, as
deployments do.

`CHECK_DEADLOCK FALSE`: the bounded system really stops, once the clock has
reached `MaxClock` and nobody calls (or every token or call is used up).

Requests, tickets, agents, attachments, tokens, links and passwords are symmetric in the safety runs: no
definition tells two of them apart. In the site run requests, the rows `x1` and
`x2` and the names `n1` and `n2` are; the members of its other sets are told
apart by what `MCSite` defines over them. The liveness run uses no symmetry.

## Where code and documentation disagree

* `refresh_twice`: the README says that each refresh token works exactly once.
  `AuthService.refresh` checks `revoked_at` on the row it loaded and retires
  the row by id; two overlapping refreshes both succeed. What still holds is
  `RenewedParentIsRetired` and `KeepsLedger`.
* `admin_password`: the README says that with a password change every older
  access token fails at once. `tokens_valid_from` is stamped only by reset
  and change-password; the administrator's route writes the hash alone.
* `merge_counts`: `timeline.py` says that a system line does not count towards
  `total_replies`, and the model of the ticket that the counters cannot drift.
  `merge` adds the number of all messages it moves, system lines and internal
  notes included. What still holds is `NoReplyUncounted`.
* `close_and_reply`: `constants.py` says that only a reopen leaves `closed`. A
  reply, assignment, status change or escalation that loaded the ticket before
  a close committed writes its own status after it, and `closed_at` stays set.
* `category_ring`: `models/category.py` says that the service enforces that a
  category is never its own ancestor. `restore` looks at nothing, and the cycle
  guard of a move sees live rows only: delete a leaf and then its parent, restore
  the leaf alone, move the old grandparent under it, restore the parent. One
  request at a time is enough. What still
  holds is `OnlyRestoreBreaksTrees`.

Further observations of the same kind, with no run of their own, since each
only shows again that a checked row was stale, or concerns no promise:

* `first_response_at` is overwritten when two first replies of staff overlap.
* Two merges of A into B and of B into A that overlap leave a cycle.
* Two deletions of one attachment that overlap take it off the counter twice.
* The status history row of a merge has `closed` as its old status, because
  the UPDATE before it has refreshed the object.
* A student's reply to a resolved ticket reopens it and leaves `resolved_at`.

Trees and content:

* A category or menu item comes back by `restore` under a deleted parent, or
  across types or navigations. The depth guard ignores the height of the
  subtree that is moved. Two moves under each other's subtree that overlap
  leave a ring, and a create beside a delete a live row under a deleted parent.
* A move or a change of title of a menu item does not look at its category
  again; deleting a category or changing its type looks at no menu item, post
  or record.
* A draft never published can be archived; `published_at` outlives an
  unpublish although the column's comment says "Null while it is a draft". A
  course cannot be edited once its category is inactive.
* An answer inserted while `_guard_answered` runs is not seen by it.

Accounts:

* `resolve_social_login` commits a link before the sign-in guard refuses the
  account. Two links of one account that overlap leave a copy in `users` that
  has one of them.
* Blocking an account ends none of its sessions; `ACCOUNT_CLOSED` is never
  written.
* A deleted custom role still confers its permissions on who holds it. The
  seeder refills a system role whose permissions were all revoked, although the
  README promises that customisation survives a deployment.
* A picture set by its address may be the file of another account's upload, and
  goes with that.

Outreach:

* Changing the address of a pending subscription keeps the link mailed to the
  old one valid.
* Overlapping first reads push `total_reads` past the readers; `mark_all_read`
  counts rows another request has read or rebuilt meanwhile. A withdrawn or
  deleted announcement can still be opened by its id. A rebuild loaded before
  the publication may run after it.
* Only the latest inquiry is compared for a repeat: A, B, A writes three rows.
  A repeat's messages are sent again, a double click that overlaps inserts two
  rows, and `read_at` and `read_by` are overwritten after `mark_unread`.

Deployment:

* `docs/migrations.md` says that every revision is reversible. That of the
  support desk is not while a ticket or a course is filed under one of its
  topics, and takes the administrators' own topics with it. A seed whose
  conflict clause names the slug fails on a staff-made type of that name. The
  revert of a resource deletes administrators' own permissions of it.
* Importing the locale files again overwrites administrators' translations.


## Fairness

`SupportTickets` and `Site` state no liveness: no step of theirs waits for
anything but a statement, a request may die at any step, and nothing promises
that an administrator comes back or a link is followed. In
`AuthSessions`, `FairSpec` assumes strong fairness of each request's next step and weak
fairness of the deadlock detector. A handler's step is enabled as long as
the event loop runs and the database grants it the rows it needs. PostgreSQL
grants row locks in queue order, so a step that is enabled again and again
between other holders of the row is eventually taken, hence strong fairness.
The detector runs `deadlock_timeout` after a wait begins. Nothing is assumed
of arrivals, crashes, the clock or administrators. With `NoVictim` in place of
the detector `RequestsFinish` fails: the reset and the change wait for each
other.

## Proofs

Every theorem holds for any sets of rows, requests and values and any bounds
that the named assumptions of the modules allow; each run checks the same
formulas on one instance.

### Authentication

| Module | Theorem | States |
|---|---|---|
| `AuthSessionsProofs` | `Invariant` | `Spec => []SessionInv` |
| | `Typed` | `Spec => []TypeOK` |
| | `ParentsRetired` | `Spec => []RenewedParentIsRetired` |
| | `EndedIsFinal` | `Spec => RevocationIsFinal` |
| `AuthHandlersProofs` | `Handlers` | `Spec => []HandlerInv` |
| | `MailedLinks` | `Spec => []MailedLinkIsStored` |
| | `RevokeAllEnds` | `Spec => RevokeAllEndsWhatItSaw` |
| | `ResetLeavesNoLogin` | `Spec => ResetLeavesNoLoginSession` |
| | `ResetCutsOff` | `Spec => ResetCutsOffAccess` |
| | `ChangeCuts` | `Spec => ChangeCutsOff` |
| | `BlockStays` | `Spec => OnlyAdminsUnblock` |
| | `ImplementsLedger` | `Spec => KeepsLedger` |
| `AuthAloneProofs` | `TokenRotatesOnce` | one request at a time: `Spec => []RotatesOnce` |
| | `LinkOnce` | the same, finitely many links: `Spec => []LinkWorksOnce` |
| | `NewLinkRetiresOld` | the same: `Spec => []OneUsableLink` |
| | `LinksWithinLimits` | the same: `Spec => []ThrottleHolds` |
| | `SessionsKnow` | one request at a time, passwords change by reset: `Spec => []SessionsKnowPassword` |

They rest on the assumptions of `AuthSessions` (`ClockAssumption`,
`NoneAssumption`, `OpsAssumption`): the bounds are numbers, and `None` and
`Absent` are none of the values they stand apart from.

Hardly a property is inductive. That an ended session stays ended depends on
what an uncommitted writer will publish, so `SessionInv` adds:

* `SessRowsOK`, `LinkRowsOK`: the newest version of a committed row is a row,
  and is not live if the committed one has ended. Every write of a token row
  either sets a reason or inserts a row that did not exist, and a rollback
  restores the committed version.
* `RequestsOK`: a request that will write a row by key has found it committed.
* `ParentsOK`: while a successor is not committed, its transaction also holds
  the row of its parent with a version that has ended; so the commit that
  publishes the one publishes the other, and a crash drops both.

`HandlerInv` adds what a commit needs to be judged, the place each handler
stands at:

* `UserLocksOK`, `SessLocksOK`, `LinkLocksOK`: a row no request holds has one
  version, so a rollback by one request touches no other's rows.
* `EndsOK`, `BirthsOK`: a held version of a committed session ends it and keeps
  its owner; an uncommitted session is the only one its request opens, beside
  the one it renews.
* `HandlersOK`: which steps a handler of each operation passes (`PathOK`); that
  once `revoke_all_for_user` has run, every session it matched is ended or held
  (`ScanOK`); that a reset which holds the users row has matched every session
  of a sign-in (`SawOK`, since a sign-in needs that row); and that its cutoff is
  no earlier than its start (`CutoffOK`).
* `MailOK`: what is mailed or about to be is committed. `BlocksOK`: no version
  of a blocked account's row lifts the block.

The run `passwords` checks `HandlerInv` before it is proved. The refinement
`ImplementsLedger` splits the steps into those that commit (each opens one
session, renews one or ends some, by `HandlerInv`) and those that leave `sess`
alone, which stutter.

`AuthAloneProofs` is about instances with one request (`Alone`: any two members
of `Requests` are the same; the run `one_at_a_time` has one), which may still
crash anywhere. `RotateInv` says no two newest versions have one parent;
`LinksInv` that a link spends once, that an account has one outstanding link and
that links respect the throttle, each with what the one handler in flight has
already looked up; `KnowInv` that sessions know the password the account has in
its newest version. `IsFiniteSet(Links)` is there because the throttle counts.
`OnlyResets` (no `change` or `set_password` among `Ops`) is the case the
property is about: the run `admin_password` shows it false otherwise.

The proofs have one lemma per action. The lemmas on `Publish`, `Discard` and
`WriteSessions` carry most of them, and are cited by each action that commits,
rolls back or writes sessions.

### Support tickets

| Module | Theorem | States |
|---|---|---|
| `SupportTicketsProofs` | `DeskInvariant` | `Spec => []DeskInv` |
| | `Typed` | `Spec => []TypeOK` |
| | `NumbersDistinct` | `Spec => []NumberIsFree` |
| | `RatingsAgree` | `Spec => []RatingMirrorsFeedback` |
| | `EscalationsFlagged` | `Spec => []EscalatedIsFlagged` |
| | `HistoriesCurrent` | `Spec => []HistoryIsCurrent` |
| `SupportCountsProofs` | `RepliesCounted` | `Spec => []NoReplyUncounted` |
| | `DatesAgree` | one request, finitely many tickets: `Spec => []DatesMatchStatus` |
| | `AttachmentsCounted` | the same: `Spec => []FilesCounted` |
| | `MergesAcyclic` | the same: `Spec => []MergesEnd` |
| | `TransitionsFollowed` | the same: `Spec => FollowsTransitions` |
| | `ClosedUntilReopened` | the same: `Spec => ClosedLeftOnlyByReopen` |
| | `LifecycleKept` | the same: `Spec => KeepsLifecycle` |

`TypeOK` and `RatingMirrorsFeedback` are conjuncts of `DeskInv`, which the run
checks. The theorems rest on `BoundsAssumption`, `ValuesAssumption`,
`FilesAssumption` and `OpsAssumption` of `SupportTickets`. The properties speak
of rows; what keeps them is what a handler between its load and its write is
about to do. So `DeskInv` adds, for each request in flight (`InFlight`, `WriteOK`):

* a request about to insert holds the advisory lock, so there is one at most,
  and its number is above all in use;
* the status, or the assignee, is among the columns written exactly when a
  history row is written with it, and both carry the same value;
* a handler that will make the ticket escalated sets the flag too, or found
  it set; nothing clears the flag, so the second case survives any wait;
* the rating is written by feedbacks only, and `merged_into_id` by merges only.

The proof has one lemma per action. `LoadKeeps` serves every action that loads
and decides: it asks only that the decided row `Fits` the loaded one.
`TicketWritten` and `MergeWritten` serve the actions that write; `Grows` (no
row, number or flag is ever lost) carries what the other requests know across
them.

`CountsInv` is why no reply goes uncounted under overlap: the counter is written
only by SQL increments, never from a loaded copy, and a merge adds what it
moves. While requests do not overlap (`OneHandler`), `AloneInv` adds that the
handler's loaded row is the stored one (`HandsInv`), that dates are in order
(`DatesInv`), that attachments belong to tickets that exist (`FilesInv`), and
that some ranking of all tickets rises along every merge (`RankInv`), which is
the witness that merges end and is mended after each merge.

`LifecycleKept` needs one thing more of the handler in flight: that the card it
will write comes from the card it loaded by one decision (`Turn`), and that the
target of a merge is still there (`TurnsInv`). One lemma per operation
(`ReplyTurns`, `EscalateTurns`, `CloseTurns` and so on) says so of the moment the
row is loaded, when the guards are checked. `AloneInv` says that the loaded row is
the stored one when the handler writes, and that it writes all it changed, so the
step it then takes is that decision (`WriteSteps`, `MergeSteps`, `InsertSteps`);
every other step leaves the cards alone. That an escalation is a move of the
table at all (a ticket without the flag does not stand as escalated) and that a
finished ticket without feedback carries no rating come from `DeskInv`.

### The site

| Module | Theorem | States |
|---|---|---|
| `SitePeopleProofs` | `AuthorityLogged` | `SiteSpec => []AuthorityIsLogged` |
| | `DistinctAccounts` | `SiteSpec => []AccountsDistinct` |
| | `OwnerKeepsAccount` | `SiteSpec => AccountStaysWithOwner` |
| `SiteOfficeProofs` | `FormPaced` | `SiteSpec => []SubmissionsPaced` |
| | `EngagementCounted` | `SiteSpec => []EngagementAddsUp` |
| | `ReadingKept` | `SiteSpec => ReadingIsKept` |
| | `LeavingHonoured` | `SiteSpec => LeavingIsHonoured` |
| | `SeedingCompleted` | `SiteSpec => SeedingCompletes` |
| | `RevisionsHold` | `SiteSpec => []RevisionsApplyAndRevert` |
| `SiteContentProofs` | `PictureOutlived` | `SiteSpec => PictureOutlivesPointer` |
| | `AnswersFitted` | `SiteSpec => []AnswersFitTheirFields` |
| | `PublicationHeld` | `SiteSpec => PublicationHolds` |
| | `TreesKept` | `SiteSpec => OnlyRestoreBreaksTrees` |
| | `SiteTyped` | `SiteSpec => []SiteTypeOK` |

Here overlap is a matter of the load, not of the instance: the theorems are
about behaviours with any crowd, and a property says under `Alone` what it
promises only while calls follow each other. So each part has two invariants,
proved together over `CallsInv` (requests in flight are of the crowd):

* one that holds however calls overlap: rows have their columns, calls carry
  what their kind of call may carry, and what unique indexes keep apart is apart
  (`AccessInv`, `AcctInv`, `InquiryInv`, `NoteInv`, `SubInv`, `ConfigInv`,
  `ProfileInv`, `DataInv`, `DataTyped`, `ArticleTyped`, `TreeInv`);
* one under `Alone`, of the form "the call in flight knows ..., and the rows
  ...": what a guard established when the call began still stands when it
  writes, because no other call is in flight (`LoggedInv`, `MirrorInv`,
  `PacedInv`, `EngagedInv`, `HonouredInv`, `SeededInv`, `ShownInv`,
  `FittingInv`, `TreeWise`, and the second half of `ArticleInv`).

Some of what the second kind knows: a loaded set of roles is the stored one and
its entry follows in the next transaction or the account is in `unlogged`; the
window that ends with a new inquiry has room (`PacedInv` counts every window
whose ends the clock can reach, since a new row falls in several); a copy is
counted as read by the step that writes it; a seeding has loaded the file of
every language it is done with; the answers a call on a record keeps are those
of the category it will leave the record in.

`SiteSpec` runs one part, so each part's invariant is wrapped (`AccessSite`,
`AcctSite` and so on: on this part the invariants hold, off it the tables are
empty) and preserved by the steps of other parts because they leave its
variables alone. One lemma per part, such as `ProfileMoves`, `DataCallMoves` and
`TreeMoves`, says that the calls of the other requests stay in order whatever a
step does to its own rows and its own call.

The trees need a fact about a recursive function: `Descendants` walks down a
level at a time, as often as there are rows. `DescendantsLeast` and
`DescendantsClosed` say that what it finds is the least set that holds the live
rows under x and under its own members; the rest of the proof uses nothing else
of it. (Each level but the last adds a row, so as many levels as rows are
enough; `Climb`, of `SiteOfficeProofs`, is the induction, from the library's fact that every set of
numbers has a smallest member.) `HangKeepsForest` then says that a row hung
under one that is not below it leaves a forest a forest, and `DropKeepsForest`
that a row without children may go. What the guards of a create, edit, move or
delete establish when the call begins are the hypotheses of these two, so the
call in flight knows that the trees will be as sound as they are once it has
written (`TreeKnows`), and while calls do not overlap the trees do not change
before it has (`TreeWise`).

What a row is under overlap (`SiteTyped`) rests on what a call carries. A
service writes only the columns it was given, so a call on an article, a field,
a record or an answer carries a part of a row, which fits any row of its table,
and a whole row when it inserts (`DataCarries`, `ArticleCarries`);
that a row is there when a part is written on it holds because rows are marked as
deleted, never removed. Articles are of the kind of the behaviour's load, so
their rows are typed by it (`ArticleRow`).

The migrations are proved from what the 29 revisions are. `RevisionsOK` says of
each, in turn, that it makes tables no earlier one makes, refers only to tables
that are there by then, drops what it makes, and seeds rows that no other
revision's revert deletes. From these facts the rest is for any revision: the
schema after n of them is what the first n make (`SchemaAt`), and a database is
`Sound(n, db)` when that is its schema, its rows are in tables that are there,
and the seeds of the first n are there. `Applies` and `Reverts` say when a
revision goes through and that it leaves a sound database, and an induction along
the chain (`UpgradeSound`, `DowngradeSound`) that a whole command does.
`MigrationInv` is `Sound` of the database at its revision.

The assumptions: `LoadsAssumption` (a crowd is a finite set of requests, calls
are counted), and, in each module, that NULL is none of the values it stands
apart from (`AccessNoneAssumption`, `AcctNoneAssumption`, `SubNoneAssumption`,
`ConfigNoneAssumption`, `NoteNoneAssumption`, `InquiryNoneAssumption`,
`DataNoneAssumption`, `ArticleNoneAssumption`, `MigrationNoneAssumption`,
`AddressAssumption`), that ids of different tables
differ (`TablesAssumption`), that the tables of categories and of menu items are
finite (`CatsAssumption`, `ItemsAssumption`), that limits and the clock are numbers
(`WindowAssumption`), that readers are finitely many (`TeamOfAssumption`), that a
deployment stops at a revision there is (`StopsAssumption`), and
`DefaultGrantsAssumption`. `site` evaluates all of them.

### Only model-checked

* `RequestsFinish`: liveness is out of the prover's reach.
* The five runs that end in a violation: a theorem about them would be false.

No module of the project holds a RECURSIVE operator (walks up and down a tree
are recursive functions).

## What is not modelled

In authentication: `purge_expired` (no request calls it), the read-only
endpoints, device metadata of a session, bcrypt and JWT encodings (a password
is its value, a token is its key), and accounts with two contacts. Soft delete
of a user acts on sign-in as a block does. Social sign-in is modelled from the
profile a provider vouches for (`Accounts`); the exchange with the provider and
its state cookie are not.

In the support desk: changes of priority, category, subject and description
(nothing decides by them), watchers, the files themselves with their types and
sizes, downloads, exports, statistics, the activity feed, and the format of a
ticket number (a year and a counter).

In the site: titles, texts, search metadata, images, prices and orders of
siblings; edits that write only these (of category types, roles and
permissions); activity entries other than those about authority, which are
written in the transaction of what they record; listings, filters, bundles for
readers and statistics. Delivery of an announcement to a course is refused by
the code. Course contents, frequent questions, reviews, projects and
certificates have tables and no service.

In migrations: columns, indexes, check constraints, grants (inserted and deleted
with their permission) and the backfill of the social columns.

The composition of the routers, middleware and response envelopes.

Components and statuses are listed in `PROJECT.json`.

## Plan

Modelled and checked: authentication and the support desk, each with its
refinement, and every administration and content module. Proved: every safety and
action property of the runs that pass; `RequestsFinish` stays with TLC. Next, should
the code come to need it:

1. `purge_expired`, once something calls it, as an action of `AuthSessions` that
   deletes rows other handlers may hold.
2. What an overlap may do to the card of a ticket, as an abstract specification of
   its own: which of its columns a late writer can set back, and which it cannot.
