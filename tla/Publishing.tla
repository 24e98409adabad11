----------------------------- MODULE Publishing -----------------------------
(***************************************************************************)
(* Blog posts, pages, automations, courses and consultancies, modules of   *)
(* that name under app/modules.  Each has a table of its own; a behaviour  *)
(* works on one, which load.part names.  A row has an address (slug), most *)
(* have a publication, some a code of their own, and all but pages are     *)
(* filed under a category.  The categories are those of CategoryTree, in   *)
(* any state the calls on categories bring them to; no call here changes   *)
(* one.  Texts, search metadata, images and people are left out.           *)
(***************************************************************************)
EXTENDS CategoryTree

CONSTANTS
    Articles,   \* rows of the table, existing or to be created
    Slugs, ArticleCodes,
    BlogType, TagType   \* the seeded taxonomies of posts and of their tags

ASSUME TaxonomyAssumption == {BlogType, TagType} \subseteq Types

VARIABLE articles

articleVars == <<treeVars, articles>>

ArticleStatuses == {"draft", "published", "archived"}

Kinds == {"pages", "blogs", "automations", "courses", "consultancies"}

\* Moments a caller may name, and those at which calls are made.
Moments == {0, load.calls + 1}
Now == made + 1
Dates(l) == {None} \cup 0..(l.calls + 1)

PageRow(l) == [slug : Slugs, status : ArticleStatuses, date : Dates(l), gone : BOOLEAN]
BlogRow(l) == [slug : Slugs, status : ArticleStatuses, date : Dates(l), gone : BOOLEAN,
               cat : Cats, tags : SUBSET Cats]
AutomationRow(l) == [slug : Slugs, status : ArticleStatuses, date : Dates(l), gone : BOOLEAN,
                     cat : Cats \cup {None}]
CourseRow(l) == [slug : Slugs, status : ArticleStatuses, date : Dates(l), gone : BOOLEAN,
                 cat : Cats \cup {None}, code : ArticleCodes]
ConsultancyRow == [slug : Slugs, gone : BOOLEAN, cat : Cats \cup {None}, code : ArticleCodes]

\* The rows of the table that a load is put on.
ArticleRow(l) == CASE l.part = "pages" -> PageRow(l)
                   [] l.part = "blogs" -> BlogRow(l)
                   [] l.part = "automations" -> AutomationRow(l)
                   [] l.part = "courses" -> CourseRow(l)
                   [] l.part = "consultancies" -> ConsultancyRow

\* NULL is no row.
ASSUME ArticleNoneAssumption == \A l \in Loads : l.part \in Kinds => None \notin ArticleRow(l)

ArticleTypeOK == load.part \in Kinds => articles \in [Articles -> ArticleRow(load) \cup {None}]

\* slug_exists, course_code_exists, code_exists and the unique indexes:
\* deleted rows count.
Free(col, v, self) == \A b \in Articles \ {self} : articles[b] # None => articles[b][col] # v

\* What every row of a publication starts with; born a draft.
Draft(slug) == [slug |-> slug, status |-> "draft", date |-> None, gone |-> FALSE]

Insert(r, a, row) == /\ articles[a] = None
                     /\ Unclaimed(a)
                     /\ Free("slug", row.slug, a)
                     /\ Begin(r, [op |-> "article", id |-> a, set |-> row])

Edit(r, a, new) == Begin(r, [op |-> "article", id |-> a, was |-> articles[a],
                             set |-> Changed(articles[a], new)])

\* _reslug: only a draft changes its address.
MayReslug(a, new) == "slug" \in DOMAIN new => /\ articles[a].status = "draft"
                                              /\ Free("slug", new.slug, a)

(***************************************************************************)
(* Publication: publish, unpublish, archive; delete and restore.           *)
(***************************************************************************)
\* Mutant: an article that comes back is dated afresh.
MomentAfresh(row, when) == IF when # None THEN when ELSE Now

\* One that was live before keeps its date unless a new one is given.
Moment(row, when) == IF when # None THEN when ELSE IF row.date # None THEN row.date ELSE Now

Publish(r, a, when) ==
    /\ Live(articles[a])
    /\ articles[a].status = "published" => when # None
    /\ Edit(r, a, [status |-> "published", date |-> Moment(articles[a], when)])

Unpublish(r, a) == /\ Live(articles[a])
                   /\ articles[a].status # "draft"
                   /\ Edit(r, a, [status |-> "draft"])

Archive(r, a) == /\ Live(articles[a])
                 /\ articles[a].status # "archived"
                 /\ Edit(r, a, [status |-> "archived"])

DeleteArticle(r, a) == Live(articles[a]) /\ Edit(r, a, [gone |-> TRUE])

RestoreArticle(r, a) == articles[a] # None /\ Edit(r, a, [gone |-> FALSE])

Lifecycle(r, a) ==
    \/ \E when \in Moments \cup {None} : Publish(r, a, when)
    \/ Unpublish(r, a) \/ Archive(r, a) \/ DeleteArticle(r, a) \/ RestoreArticle(r, a)

(***************************************************************************)
(* Pages.                                                                  *)
(***************************************************************************)
CreatePage(r, a, slug) == Insert(r, a, Draft(slug))

UpdatePage(r, a, new) == Live(articles[a]) /\ MayReslug(a, new) /\ Edit(r, a, new)

PageCalls(r, a) == \/ \E slug \in Slugs : CreatePage(r, a, slug)
                   \/ \E new \in [slug : Slugs] : UpdatePage(r, a, new)
                   \/ Lifecycle(r, a)

(***************************************************************************)
(* Blog posts.                                                             *)
(***************************************************************************)
\* _category_in
InTaxonomy(c, t) == Live(types[t]) /\ Live(cats[c]) /\ cats[c].type = t

\* _resolve_category, _resolve_tags: a tag may be inactive.
BlogCategoryFits(c) == InTaxonomy(c, BlogType) /\ cats[c].active
TagsFit(tags) == \A t \in tags : InTaxonomy(t, TagType)

CreateBlog(r, a, slug, c, tags) ==
    /\ BlogCategoryFits(c)
    /\ TagsFit(tags)
    /\ Insert(r, a, Also(Draft(slug), [cat |-> c, tags |-> tags]))

\* The category is looked at only when it is another one.
UpdateBlog(r, a, new) ==
    /\ Live(articles[a])
    /\ MayReslug(a, new)
    /\ "cat" \in DOMAIN new => new.cat = articles[a].cat \/ BlogCategoryFits(new.cat)
    /\ "tags" \in DOMAIN new => TagsFit(new.tags)
    /\ Edit(r, a, new)

BlogCalls(r, a) ==
    \/ \E slug \in Slugs, c \in Cats, tags \in SUBSET Cats : CreateBlog(r, a, slug, c, tags)
    \/ \E new \in [slug : Slugs] \cup [cat : Cats] \cup [tags : SUBSET Cats] : UpdateBlog(r, a, new)
    \/ Lifecycle(r, a)

(***************************************************************************)
(* Automations, courses and consultancies: any category that is active.    *)
(***************************************************************************)
CategoryFits(c) == c # None => Live(cats[c]) /\ cats[c].active

CreateAutomation(r, a, slug, c) ==
    CategoryFits(c) /\ Insert(r, a, Also(Draft(slug), [cat |-> c]))

UpdateAutomation(r, a, new) ==
    /\ Live(articles[a])
    /\ MayReslug(a, new)
    /\ "cat" \in DOMAIN new => CategoryFits(new.cat)
    /\ Edit(r, a, new)

AutomationCalls(r, a) ==
    \/ \E slug \in Slugs, c \in Cats \cup {None} : CreateAutomation(r, a, slug, c)
    \/ \E new \in [slug : Slugs] \cup [cat : Cats \cup {None}] : UpdateAutomation(r, a, new)
    \/ Lifecycle(r, a)

CreateCourse(r, a, slug, c, code) ==
    /\ Free("code", code, a)
    /\ CategoryFits(c)
    /\ Insert(r, a, Also(Draft(slug), [cat |-> c, code |-> code]))

\* Every edit looks at the category, the one it has included.
UpdateCourse(r, a, new) ==
    /\ Live(articles[a])
    /\ "code" \in DOMAIN new => Free("code", new.code, a)
    /\ MayReslug(a, new)
    /\ CategoryFits(Written(articles[a], new).cat)
    /\ Edit(r, a, new)

CourseCalls(r, a) ==
    \/ \E slug \in Slugs, c \in Cats \cup {None}, code \in ArticleCodes :
            CreateCourse(r, a, slug, c, code)
    \/ \E new \in [slug : Slugs] \cup [cat : Cats \cup {None}] \cup [code : ArticleCodes] :
            UpdateCourse(r, a, new)
    \/ Lifecycle(r, a)

CreateConsultancy(r, a, slug, c, code) ==
    /\ Free("code", code, a)
    /\ CategoryFits(c)
    /\ Insert(r, a, [slug |-> slug, gone |-> FALSE, cat |-> c, code |-> code])

\* A consultancy has no publication, and its address changes at any time.
UpdateConsultancy(r, a, new) ==
    /\ Live(articles[a])
    /\ "code" \in DOMAIN new => Free("code", new.code, a)
    /\ "slug" \in DOMAIN new => Free("slug", new.slug, a)
    /\ "cat" \in DOMAIN new => CategoryFits(new.cat)
    /\ Edit(r, a, new)

ConsultancyCalls(r, a) ==
    \/ \E slug \in Slugs, c \in Cats \cup {None}, code \in ArticleCodes :
            CreateConsultancy(r, a, slug, c, code)
    \/ \E new \in [slug : Slugs] \cup [cat : Cats \cup {None}] \cup [code : ArticleCodes] :
            UpdateConsultancy(r, a, new)
    \/ DeleteArticle(r, a) \/ RestoreArticle(r, a)

(***************************************************************************)
(* Writing the row.                                                        *)
(***************************************************************************)
\* set_tags: links that are new are inserted, those that are not named any
\* more are deleted, each once, of those that were loaded.
Retagged(now, was, new) == (now \ (was \ new)) \cup (new \ was)
Retaggable(now, was, new) == (new \ was) \cap now = {} /\ was \ new \subseteq now

\* The unique indexes.
AcceptedArticle(a, row) == /\ Free("slug", row.slug, a)
                           /\ "code" \in DOMAIN row => Free("code", row.code, a)

WriteArticle(r) ==
    /\ Doing(r, "article")
    /\ LET c == call[r]
           now == articles[c.id]
           tagging == now # None /\ "tags" \in DOMAIN c.set
           row == IF tagging
                  THEN [Written(now, c.set) EXCEPT
                          !.tags = Retagged(now.tags, c.was.tags, c.set.tags)]
                  ELSE Written(now, c.set)
       IN  /\ tagging => Retaggable(now.tags, c.was.tags, c.set.tags)
           /\ AcceptedArticle(c.id, row)
           /\ articles' = [articles EXCEPT ![c.id] = row]
    /\ UNCHANGED treeVars
    /\ End(r)

(***************************************************************************)
(* The specification.                                                      *)
(***************************************************************************)
\* A category in each taxonomy or elsewhere, in any state.
ArticleInit ==
    /\ types \in [Types -> {[gone |-> FALSE]}]
    /\ cats \in [Cats -> {None} \cup [type : Types, parent : {None}, active : BOOLEAN,
                                      gone : BOOLEAN]]
    /\ articles = [a \in Articles |-> None]

ArticleLoad(r) == \E a \in Articles :
    \/ load.part = "pages" /\ PageCalls(r, a)
    \/ load.part = "blogs" /\ BlogCalls(r, a)
    \/ load.part = "automations" /\ AutomationCalls(r, a)
    \/ load.part = "courses" /\ CourseCalls(r, a)
    \/ load.part = "consultancies" /\ ConsultancyCalls(r, a)

ArticleNext == \E r \in Requests : \/ ArticleLoad(r) /\ UNCHANGED articleVars
                                   \/ WriteArticle(r)
                                   \/ Die(r) /\ UNCHANGED articleVars

ArticleSpec == /\ CallsInit
               /\ load.part \in Kinds
               /\ ArticleInit
               /\ [][ArticleNext]_<<callVars, articleVars>>

(***************************************************************************)
(* Properties.                                                             *)
(***************************************************************************)
\* While calls do not overlap, an article keeps its address while it is
\* published or archived, and its date, once it has one, until a call names
\* another: no sequence of unpublishing, archiving, deleting and restoring
\* makes an old article new.
PublicationHolds ==
    [][Alone => \A a \in Articles :
          articles[a] # None /\ "status" \in DOMAIN articles[a] =>
             /\ articles[a].status # "draft" => articles'[a].slug = articles[a].slug
             /\ articles[a].date # None =>
                   articles'[a].date \in Moments \cup {articles[a].date}
      ]_<<callVars, articleVars>>
=============================================================================
