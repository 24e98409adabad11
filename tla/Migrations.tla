----------------------------- MODULE Migrations -----------------------------
(***************************************************************************)
(* The revisions of alembic/versions, applied and reverted by `alembic     *)
(* upgrade' and `alembic downgrade', and the rows administrators add       *)
(* between two deployments.                                                *)
(*                                                                         *)
(* A revision creates tables, seeds rows, and undoes both.  alembic/env.py *)
(* runs all the revisions of one command in one transaction, so a command  *)
(* goes through or, when PostgreSQL refuses one statement, changes         *)
(* nothing.  Columns, indexes and check constraints are left out; so are   *)
(* grants, which are inserted and deleted with the permission they grant.  *)
(* Of the rows, those are modelled that a revision seeds or looks for, and *)
(* those whose foreign key can refuse a DELETE.                            *)
(***************************************************************************)
EXTENDS Calls, Sequences

CONSTANTS
    Stops,          \* revisions a deployment may stop at, as positions
    OwnResources    \* resources administrators add a permission to

VARIABLES
    at,         \* alembic_version, as a position in the chain
    schema,     \* tables, and the columns added to one later
    stored

migrationVars == <<at, schema, stored>>

\* A row is told by its table, its key and, a permission, by its resource.
\* of is the row or the resource it belongs to, name another unique column.
Row(table, of, key, name, seeded) ==
    [table |-> table, of |-> of, key |-> key, name |-> name, seeded |-> seeded]

SameUnique(x, y) == /\ x.table = y.table /\ x.key = y.key
                    /\ x.table = "permissions" => x.of = y.of

Seeded(table, of, keys) == {Row(table, of, k, k, TRUE) : k \in keys}
Settings(keys) == Seeded("settings", None, keys)
Permissions(resource, actions) == Seeded("permissions", resource, actions)

\* restrict: tables a row of this one holds by ON DELETE RESTRICT; loose:
\* by CASCADE or SET NULL.
Table(name, restrict, loose) == [name |-> name, restrict |-> restrict, loose |-> loose]

\* lenient: seeded with ON CONFLICT DO NOTHING, on whatever column.  The
\* downgrade deletes all permissions of some resources, these rows, the
\* seeded permissions, the seeded roles, the types of emptied that nothing
\* is filed in, the types of cleared with what is filed in them; then drops.
Plain == [tables |-> <<>>, columns |-> {}, seeds |-> {}, lenient |-> FALSE,
          resources |-> {}, exactly |-> {}, system |-> FALSE, slugs |-> {},
          emptied |-> {}, cleared |-> {}, drops |-> <<>>]

View == {"view", "create", "update", "delete"}

(***************************************************************************)
(* The revisions, in the order of the chain.                               *)
(***************************************************************************)
InitialBaseline == Plain

AddTranslations == [Plain EXCEPT !.tables = <<Table("translations", {}, {})>>,
                                 !.drops = <<"translations">>]

AddRoles == [Plain EXCEPT !.tables = <<Table("roles", {}, {})>>, !.drops = <<"roles">>]

SeededRoles == {"super-admin", "admin", "content-manager", "editor", "instructor",
                "support", "student"}

SeedSystemRoles == [Plain EXCEPT !.seeds = Seeded("roles", None, SeededRoles),
                                 !.slugs = SeededRoles]

AddPermissions ==
    [Plain EXCEPT !.tables = <<Table("permissions", {}, {}),
                               Table("role_permissions", {}, {"roles", "permissions"})>>,
                  !.drops = <<"role_permissions", "permissions">>]

SystemPermissions ==
    [user |-> View,
     role |-> View \cup {"assign"},
     permission |-> View \cup {"assign"},
     course |-> View \cup {"publish"},
     lesson |-> View,
     page |-> View \cup {"publish"},
     category |-> View,
     enrollment |-> {"view", "create", "delete", "grade"},
     media |-> {"view", "upload", "delete"},
     translation |-> View \cup {"import"},
     setting |-> {"view", "update"},
     report |-> {"view", "export"},
     notification |-> {"view", "send"}]

OriginalPermissions ==
    UNION {Permissions(res, SystemPermissions[res]) : res \in DOMAIN SystemPermissions}

SeedPermissionsAndGrants == [Plain EXCEPT !.seeds = OriginalPermissions, !.system = TRUE]

AddUsers ==
    [Plain EXCEPT !.tables = <<Table("users", {}, {}),
                               Table("user_identities", {}, {"users"}),
                               Table("user_roles", {}, {"users", "roles"})>>,
                  !.drops = <<"user_roles", "user_identities", "users">>]

AddRefreshTokens == [Plain EXCEPT !.tables = <<Table("refresh_tokens", {}, {"users"})>>,
                                  !.drops = <<"refresh_tokens">>]

FirstSettings == {"app_base_url", "frontend_url", "social_login_redirect_path",
                  "google_auth_enabled", "google_client_id", "google_client_secret",
                  "google_callback_url", "facebook_auth_enabled", "facebook_app_id",
                  "facebook_app_secret", "facebook_callback_url"}

AddSettings ==
    [Plain EXCEPT !.tables = <<Table("settings", {}, {})>>,
                  !.columns = {"users.google_id", "users.facebook_id",
                               "users.social_provider", "users.is_social_login"},
                  !.seeds = Settings(FirstSettings),
                  !.drops = <<"settings">>]

AddPasswordResetTokens ==
    [Plain EXCEPT !.tables = <<Table("password_reset_tokens", {}, {"users"})>>,
                  !.seeds = Settings({"password_reset_path"}),
                  !.exactly = Settings({"password_reset_path"}),
                  !.drops = <<"password_reset_tokens">>]

AddTokensValidFrom == [Plain EXCEPT !.columns = {"users.tokens_valid_from"}]

AddCategories ==
    [Plain EXCEPT !.tables = <<Table("category_types", {}, {"users"}),
                               Table("categories", {"category_types", "categories"}, {"users"})>>,
                  !.drops = <<"categories", "category_types">>]

AddBlogs ==
    [Plain EXCEPT !.tables = <<Table("blogs", {"categories"}, {"users"}),
                               Table("blog_tags", {"categories"}, {"blogs"})>>,
                  !.drops = <<"blog_tags", "blogs">>]

BlogTypes == {"blog_category", "blog_tag"}

SeedBlogTaxonomies ==
    [Plain EXCEPT !.seeds = Seeded("category_types", None, BlogTypes)
                            \cup Permissions("blog", View \cup {"publish"}),
                  !.resources = {"blog"},
                  !.emptied = BlogTypes]

AddActivityLogs ==
    [Plain EXCEPT !.tables = <<Table("activity_logs", {}, {"users"})>>,
                  !.seeds = Permissions("activity_log", {"view", "export"}),
                  !.resources = {"activity_log"},
                  !.drops = <<"activity_logs">>]

AddMenus == [Plain EXCEPT !.tables = <<Table("menus", {"categories", "menus"}, {"users"})>>,
                          !.drops = <<"menus">>]

SeedMenuTaxonomy ==
    [Plain EXCEPT !.seeds = Seeded("category_types", None, {"menu_category"})
                            \cup Permissions("menu", View),
                  !.lenient = TRUE,
                  !.resources = {"menu"},
                  !.emptied = {"menu_category"}]

MasterFields == Table("master_crud_fields", {"categories"}, {"users"})
MasterRecords == Table("master_cruds", {"categories"}, {"users"})
MasterValues == Table("master_crud_field_values", {"master_crud_fields"}, {"master_cruds"})

AddMasterCruds ==
    [Plain EXCEPT !.tables = <<MasterFields, MasterRecords, MasterValues>>,
                  !.drops = <<"master_crud_field_values", "master_cruds",
                              "master_crud_fields">>]

SeedMasterCrudPermissions ==
    [Plain EXCEPT !.seeds = Permissions("master_crud", View)
                            \cup Permissions("master_crud_field", View),
                  !.resources = {"master_crud", "master_crud_field"}]

AddPages == [Plain EXCEPT !.tables = <<Table("pages", {}, {"users"})>>, !.drops = <<"pages">>]

AddUserDetails == [Plain EXCEPT !.tables = <<Table("user_details", {}, {"users"})>>,
                                !.drops = <<"user_details">>]

AddCourses == [Plain EXCEPT !.tables = <<Table("courses", {"categories"}, {"users"})>>,
                            !.drops = <<"courses">>]

AddConsultancies ==
    [Plain EXCEPT !.tables = <<Table("consultancies", {"categories"}, {"users"})>>,
                  !.seeds = Permissions("consultancy", View),
                  !.resources = {"consultancy"},
                  !.drops = <<"consultancies">>]

AddAutomations ==
    [Plain EXCEPT !.tables = <<Table("automations", {"categories"}, {"users"})>>,
                  !.seeds = Permissions("automation", View \cup {"publish"}),
                  !.resources = {"automation"},
                  !.drops = <<"automations">>]

NewsletterSettings == Settings({"newsletter_confirm_path", "newsletter_unsubscribe_path"})

AddSubscriptions ==
    [Plain EXCEPT !.tables = <<Table("subscriptions", {}, {"users"})>>,
                  !.seeds = Permissions("subscription", View) \cup NewsletterSettings,
                  !.exactly = NewsletterSettings,
                  !.resources = {"subscription"},
                  !.drops = <<"subscriptions">>]

CertificateTemplates == Table("certificate_templates", {}, {"users"})
CourseContents == Table("course_contents", {}, {"course_contents", "courses", "users"})
CourseFaqs == Table("course_faqs", {}, {"courses", "users"})
JobSuccesses == Table("job_successes", {}, {"courses", "users"})
Projects == Table("projects", {}, {"courses", "users"})
Reviews == Table("reviews", {}, {"courses", "users"})

AddCourseContents ==
    [Plain EXCEPT !.tables = <<CertificateTemplates, CourseContents, CourseFaqs,
                               JobSuccesses, Projects, Reviews>>,
                  !.drops = <<"reviews", "projects", "job_successes", "course_faqs",
                              "course_contents", "certificate_templates">>]

TicketsTable == Table("support_tickets", {"categories"}, {"users", "support_tickets"})
OfTicket(name) == Table(name, {}, {"support_tickets", "users"})
TicketActivities == OfTicket("support_ticket_activities")
TicketAssignments == OfTicket("support_ticket_assignments")
TicketFeedback == OfTicket("support_ticket_feedback")
TicketMessages == OfTicket("support_ticket_messages")
TicketHistory == OfTicket("support_ticket_status_history")
TicketFiles == Table("support_ticket_attachments", {},
                     {"support_tickets", "support_ticket_messages", "users"})

SupportTables == <<TicketsTable, TicketActivities, TicketAssignments, TicketFeedback,
                   TicketMessages, TicketHistory, TicketFiles>>

SupportSettings == Settings({"support_ticket_reopen_days", "support_ticket_max_upload_mb",
                             "support_ticket_max_attachments",
                             "support_ticket_allowed_extensions"})

SupportActions == {"view", "view_all", "create", "reply", "assign", "status", "priority",
                   "category", "escalate", "internal_note", "merge", "export", "report",
                   "delete"}

\* The topics of the desk, of which the last stands for the eight.
SupportSeeds == Permissions("ticket", SupportActions)
                \cup SupportSettings
                \cup Seeded("category_types", None, {"support_ticket"})
                \cup Seeded("categories", "support_ticket", {"general-inquiry"})

\* _unseed runs before the tables are dropped.
SupportUnseed == [exactly |-> SupportSettings, resources |-> {"ticket"},
                  cleared |-> {"support_ticket"}]

SupportDrops == <<"support_ticket_attachments", "support_ticket_status_history",
                  "support_ticket_messages", "support_ticket_feedback",
                  "support_ticket_assignments", "support_ticket_activities",
                  "support_tickets">>

AddSupportTickets ==
    [Plain EXCEPT !.tables = SupportTables,
                  !.seeds = SupportSeeds,
                  !.exactly = SupportUnseed.exactly,
                  !.resources = SupportUnseed.resources,
                  !.cleared = SupportUnseed.cleared,
                  !.drops = SupportDrops]

InquirySettings == Settings({"contact_inquiry_rate_limit_max",
                             "contact_inquiry_rate_limit_window_minutes",
                             "contact_inquiry_notify_email",
                             "contact_inquiry_acknowledge_submitter"})

AddContactInquiries ==
    [Plain EXCEPT !.tables = <<Table("contact_inquiries", {}, {"users"})>>,
                  !.seeds = InquirySettings
                            \cup Permissions("inquiry", {"view", "update", "delete", "export"}),
                  !.exactly = InquirySettings,
                  !.resources = {"inquiry"},
                  !.drops = <<"contact_inquiries">>]

NotificationPermissions == Permissions("notification", {"create", "update", "delete"})

\* Mutant: reverting deletes the permissions the way the other revisions do.
NotificationUnseedByResource == [exactly |-> {}, resources |-> {"notification"}]

\* notification.view and notification.send are an earlier revision's.
NotificationUnseed == [exactly |-> NotificationPermissions, resources |-> {}]

NotificationsTable == Table("notifications", {}, {"users"})
RecipientsTable == Table("notification_recipients", {}, {"notifications", "users"})

AddNotifications ==
    [Plain EXCEPT !.tables = <<NotificationsTable, RecipientsTable>>,
                  !.seeds = NotificationPermissions,
                  !.exactly = NotificationUnseed.exactly,
                  !.resources = NotificationUnseed.resources,
                  !.drops = <<"notification_recipients", "notifications">>]

Revisions == <<
    InitialBaseline, AddTranslations, AddRoles, SeedSystemRoles, AddPermissions,
    SeedPermissionsAndGrants, AddUsers, AddRefreshTokens, AddSettings, AddPasswordResetTokens,
    AddTokensValidFrom, AddCategories, AddBlogs, SeedBlogTaxonomies, AddActivityLogs, AddMenus,
    SeedMenuTaxonomy, AddMasterCruds, SeedMasterCrudPermissions, AddPages, AddUserDetails,
    AddCourses, AddConsultancies, AddAutomations, AddSubscriptions, AddCourseContents,
    AddSupportTickets, AddContactInquiries, AddNotifications>>

Newest == Len(Revisions)

ASSUME StopsAssumption == Stops \subseteq 0..Newest

(***************************************************************************)
(* Applying and reverting one revision: the database after it, or None     *)
(* when a statement of it is refused.                                      *)
(***************************************************************************)
TableSet == UNION {{Revisions[n].tables[i] : i \in DOMAIN Revisions[n].tables} : n \in 1..Newest}

Names == {t.name : t \in TableSet} \cup UNION {Revisions[n].columns : n \in 1..Newest}

\* Rows of the revisions, and of administrators, whose keys are their own.
SeedRows == UNION {Revisions[n].seeds : n \in 1..Newest}
OwnNames == {"own", "menu_category", "support_ticket"}
OwnRows ==
    [table : {"permissions", "category_types", "categories", "blogs", "courses",
              "support_tickets"},
     of : OwnResources \cup {x.key : x \in SeedRows} \cup {"own", None},
     key : {"own"}, name : OwnNames, seeded : {FALSE}]

Databases == [schema : SUBSET Names, stored : SUBSET (SeedRows \cup OwnRows)]

\* A database is not mistaken for a refused command.
ASSUME MigrationNoneAssumption == None \notin Databases

\* A key restricts its row's deletion, and any reference its table's drop.
Restricts == {<<t.name, u>> : t \in TableSet, u \in {v.name : v \in TableSet}}
             \cap UNION {{t.name} \X t.restrict : t \in TableSet}
References == UNION {{t.name} \X (t.restrict \cup t.loose) : t \in TableSet}

HoldsUp(x, y) == x.of = y.key /\ <<x.table, y.table>> \in Restricts

Creatable(rev, db) ==
    \A i \in DOMAIN rev.tables :
        rev.tables[i].restrict \cup rev.tables[i].loose
            \subseteq db.schema \cup {rev.tables[j].name : j \in 1..i}

\* uq_category_types_name.
SameName(x, y) == x.table = "category_types" /\ y.table = x.table /\ x.name = y.name

Standing(rev, x, there) == \E y \in there : SameUnique(x, y) \/ (rev.lenient /\ SameName(x, y))

\* A name in use, where ON CONFLICT names the slug only.
NameTaken(rev, there) ==
    \E x \in rev.seeds, y \in there : SameName(x, y) /\ ~Standing(rev, x, there)

Applied(rev, db) ==
    IF db = None \/ ~Creatable(rev, db) \/ NameTaken(rev, db.stored) THEN None
    ELSE [schema |-> db.schema \cup {rev.tables[i].name : i \in DOMAIN rev.tables}
                     \cup rev.columns,
          stored |-> db.stored \cup {x \in rev.seeds : ~Standing(rev, x, db.stored)}]

Filed(type, there) == {x \in there : x.table = "categories" /\ x.of = type}

Unseeded(rev, there) ==
    {x \in there :
        \/ x.table = "permissions" /\ (x.of \in rev.resources \/ (rev.system /\ x.seeded))
        \/ x.table = "roles" /\ x.seeded /\ x.key \in rev.slugs
        \/ x.table = "category_types" /\ x.key \in rev.cleared
        \/ x.table = "category_types" /\ x.key \in rev.emptied /\ Filed(x.key, there) = {}
        \/ x.table = "categories" /\ x.of \in rev.cleared
        \/ \E y \in rev.exactly : SameUnique(x, y)}

Dropped(rev) == {rev.drops[i] : i \in DOMAIN rev.drops}

Droppable(rev, db) ==
    \A i \in DOMAIN rev.drops :
        \A t \in db.schema \ {rev.drops[j] : j \in 1..i} : <<t, rev.drops[i]>> \notin References

Reverted(rev, db) ==
    LET doomed == Unseeded(rev, db.stored)
    IN  IF db = None \/ ~Droppable(rev, db)
           \/ \E y \in doomed, x \in db.stored \ doomed : HoldsUp(x, y)
        THEN None
        ELSE [schema |-> db.schema \ (Dropped(rev) \cup rev.columns),
              stored |-> {x \in db.stored \ doomed : x.table \notin Dropped(rev)}]

(***************************************************************************)
(* The commands, and the administrators in between.                        *)
(***************************************************************************)
Database == [schema |-> schema, stored |-> stored]

\* All pending revisions up to n, or down to it, in one transaction.
UpTo(n) == LET db[i \in at..n] == IF i = at THEN Database ELSE Applied(Revisions[i], db[i - 1])
           IN  db[n]

DownTo(n) == LET db[i \in n..at] == IF i = at THEN Database
                                    ELSE Reverted(Revisions[i + 1], db[i + 1])
             IN  db[n]

Command(n, db) == /\ db # None
                  /\ at' = n
                  /\ schema' = db.schema
                  /\ stored' = db.stored

Upgrade(n) == n > at /\ Command(n, UpTo(n))

Downgrade(n) == n < at /\ Command(n, DownTo(n))

Add(row) == /\ row.table \in schema
            /\ ~\E y \in stored : SameUnique(row, y)
            /\ stored' = stored \cup {row}
            /\ UNCHANGED <<at, schema>>

AddPermission(res) == Add(Row("permissions", res, "own", "own", FALSE))

\* A type of their own, which may have the name a revision will seed.
AddType(name) == /\ ~\E y \in stored : y.table = "category_types" /\ y.name = name
                 /\ Add(Row("category_types", None, "own", name, FALSE))

TypesThere == {y.key : y \in {x \in stored : x.table = "category_types"}}

AddCategory(type) == /\ type \in TypesThere
                     /\ Add(Row("categories", type, "own", "own", FALSE))

\* What the services let be filed under a category: a post or a ticket under
\* its own taxonomy, a course under any category.
Takes == [blogs |-> {"blog_category"}, support_tickets |-> {"support_ticket"},
          courses |-> TypesThere]

FileUnder(table, c) ==
    /\ c.table = "categories"
    /\ c.of \in Takes[table]
    /\ Add(Row(table, c.key, "own", "own", FALSE))

MigrationInit == at = 0 /\ schema = {} /\ stored = {}

MigrationNext ==
    /\ made < load.calls
    /\ made' = made + 1
    /\ UNCHANGED <<load, call>>
    /\ \/ \E n \in Stops : Upgrade(n) \/ Downgrade(n)
       \/ \E res \in OwnResources : AddPermission(res)
       \/ \E name \in OwnNames : AddType(name)
       \/ \E type \in TypesThere : AddCategory(type)
       \/ \E table \in DOMAIN Takes, c \in stored : FileUnder(table, c)

MigrationSpec == CallsInit /\ MigrationInit /\ [][MigrationNext]_<<callVars, migrationVars>>

\* The names the model gives to what it finds in the database; a row is in a
\* table that is there.
MigrationTypeOK == /\ at \in 0..Newest
                   /\ Database \in Databases
                   /\ \A x \in stored : x.table \in schema

(***************************************************************************)
(* Properties.                                                             *)
(***************************************************************************)
\* What the revisions up to n have seeded is there, whoever put it there.
SeedsThere(n, there) ==
    \A i \in 1..n : \A x \in Revisions[i].seeds :
        Standing([Revisions[i] EXCEPT !.lenient = TRUE], x, there)

Vocabulary(there) == {x \in there : x.table = "categories" /\ ~x.seeded
                                   /\ x.of # "support_ticket"}

\* The rows that make a command fail: something filed under a topic of the
\* support desk when its revision is reverted, and a type that has the name
\* of one to be seeded.
TopicInUse == \E x \in stored, y \in Filed("support_ticket", stored) : HoldsUp(x, y)

NameClash(rev) == NameTaken(rev, stored)

\* docs/migrations.md: every revision is reversible.  In whatever order
\* deployments apply, revert and re-apply revisions while administrators add
\* rows, what an applied revision seeded is there; the next one applies
\* unless a type has the name it seeds; the last one can be reverted unless
\* something is filed under a topic of the support desk, and then leaves
\* what the earlier ones seeded, and every category administrators made in
\* a taxonomy other than the support desk's.
RevisionsApplyAndRevert ==
    /\ SeedsThere(at, stored)
    /\ at < Newest => (Applied(Revisions[at + 1], Database) = None <=> NameClash(Revisions[at + 1]))
    /\ at > 0 =>
          LET back == Reverted(Revisions[at], Database)
          IN  /\ back = None <=> Revisions[at] = AddSupportTickets /\ TopicInUse
              /\ back # None =>
                    /\ SeedsThere(at - 1, back.stored)
                    /\ "categories" \in back.schema => Vocabulary(back.stored) = Vocabulary(stored)
=============================================================================
