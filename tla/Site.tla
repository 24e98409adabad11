-------------------------------- MODULE Site --------------------------------
(***************************************************************************)
(* The administration and content modules of the application side by side. *)
(*                                                                         *)
(* Routers, services and repositories of a module touch the tables of that *)
(* module and, where they file a row under a category, read the categories *)
(* through CategoryTree.  A behaviour puts its load on one part of the     *)
(* site; the tables of the others stay as an empty database has them.      *)
(***************************************************************************)
EXTENDS MenuTree, Publishing, MasterData, Accounts, Access, Subscriptions,
        Notifications, Inquiries, Profiles, Configuration, Migrations

treeLoads == {"categories", "menus", "data"} \cup Kinds

contentVars == <<items, articles, fields, records, answers>>
officeVars == <<subVars, noteVars, inquiryVars, configVars, migrationVars>>
peopleVars == <<acctVars, accessVars, profileVars>>

On(part) == load.part = part
Nothing(table) == [x \in table |-> None]

ContentInit ==
    /\ IF load.part \in Kinds THEN ArticleInit ELSE articles = Nothing(Articles)
    /\ IF On("data") THEN DataInit
       ELSE /\ fields = Nothing(Fields)
            /\ records = Nothing(Records)
            /\ answers = Nothing(Records \X Fields)
    /\ IF On("menus") THEN MenuInit ELSE items = Nothing(Items)
    /\ IF On("categories") THEN TreeInit
       ELSE load.part \in treeLoads \/ (types = Nothing(Types) /\ cats = Nothing(Cats))

PeopleInit ==
    /\ IF On("accounts") THEN AcctInit ELSE users = Nothing(Users) /\ ids = {}
    /\ IF On("access") THEN AccessInit
       ELSE /\ roles = Nothing(RoleIds)
            /\ perms = {}
            /\ given = [o \in Grantees |-> {}]
            /\ logged = Nothing(Grantees)
            /\ unlogged = {}
    /\ IF On("profiles") THEN ProfileInit
       ELSE /\ pictures = Nothing(Owners)
            /\ uploads = [u \in Uploads |-> "unnamed"]
            /\ details = Nothing(Owners)

\* What the other parts start from is one empty table each.
OfficeInit ==
    /\ SubInit
    /\ NoteInit
    /\ InquiryInit
    /\ MigrationInit
    /\ IF On("configuration") THEN ConfigInit
       ELSE settings = Nothing(Keys) /\ strings = Nothing(StringKeys \X Languages)

SiteInit == CallsInit /\ ContentInit /\ PeopleInit /\ OfficeInit

ContentNext ==
    \/ On("categories") /\ TreeNext /\ UNCHANGED contentVars
    \/ On("menus") /\ MenuNext /\ UNCHANGED <<articles, fields, records, answers>>
    \/ load.part \in Kinds /\ ArticleNext /\ UNCHANGED <<items, fields, records, answers>>
    \/ On("data") /\ DataNext /\ UNCHANGED <<items, articles>>

PeopleNext ==
    \/ On("accounts") /\ AcctNext /\ UNCHANGED <<accessVars, profileVars>>
    \/ On("access") /\ AccessNext /\ UNCHANGED <<acctVars, profileVars>>
    \/ On("profiles") /\ ProfileNext /\ UNCHANGED <<acctVars, accessVars>>

OfficeNext ==
    \/ /\ On("subscriptions") /\ SubNext
       /\ UNCHANGED <<noteVars, inquiryVars, configVars, migrationVars>>
    \/ /\ On("notifications") /\ NoteNext
       /\ UNCHANGED <<subVars, inquiryVars, configVars, migrationVars>>
    \/ /\ On("inquiries") /\ InquiryNext
       /\ UNCHANGED <<subVars, noteVars, configVars, migrationVars>>
    \/ /\ On("configuration") /\ ConfigNext
       /\ UNCHANGED <<subVars, noteVars, inquiryVars, migrationVars>>
    \/ /\ On("migrations") /\ MigrationNext
       /\ UNCHANGED <<subVars, noteVars, inquiryVars, configVars>>

SiteNext == \/ ContentNext /\ UNCHANGED <<peopleVars, officeVars>>
            \/ PeopleNext /\ UNCHANGED <<treeVars, contentVars, officeVars>>
            \/ OfficeNext /\ UNCHANGED <<treeVars, contentVars, peopleVars>>

siteVars == <<callVars, treeVars, contentVars, peopleVars, officeVars>>

SiteSpec == SiteInit /\ [][SiteNext]_siteVars

\* Every row of every table has the columns and the values its table allows,
\* whichever calls meet in whatever order.
SiteTypeOK == /\ MenuTypeOK /\ ArticleTypeOK /\ DataTypeOK
              /\ AcctTypeOK /\ AccessTypeOK /\ ProfileTypeOK
              /\ SubTypeOK /\ NoteTypeOK /\ InquiryTypeOK /\ ConfigTypeOK
              /\ MigrationTypeOK
=============================================================================
