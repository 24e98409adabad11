CONSTANTS
    r1 = r1  r2 = r2  x1 = x1  x2 = x2  x3 = x3  t1 = t1  t2 = t2
    n1 = n1  n2 = n2  v1 = v1  v2 = v2  o1 = o1  o2 = o2  None = None
    Requests = {r1, r2}
    Loads <- MCLoads
    MaxDepth = 3
    Types = {t1, t2}
    MenuType = t1
    BlogType = t1
    TagType = t2
    Cats = {x1, x2}
    Items = {x1, x2}
    Articles = {x1, x2}
    Slugs = {n1, n2}
    ArticleCodes = {n1, n2}
    Fields = {x1, x2}
    FieldNames = {n1, n2}
    Records = {o1}
    Users = {x1, x2}
    Emails = {n1, n2}
    Phones = {v1}
    Socials <- MCSocials
    SystemRoles = {o1}
    CustomRoles = {o2}
    SystemCodes = {v1}
    CustomCodes = {v2}
    DefaultGrants <- MCDefaultGrants
    Members = {t1}
    Subs = {x1, x2}
    Addresses = {n1, n2}
    MaxLinks = 4
    Notes = {v1}
    Readers = {o1, o2}
    Teams = {t1}
    TeamOf <- MCTeamOf
    Inquiries = {x1, x2}
    Senders = {n1, n2}
    Forms = {v1, v2}
    Origins = {o1}
    Desk = {o1}
    MaxSubmissions = 1
    RateWindow = 1
    RepeatWindow = 1
    MaxClock = 2
    Owners = {o1, o2}
    Uploads = {x1, x2, x3}
    Keys = {v1, v2}
    SystemKeys = {v1, v2}
    Values = {v1, v2}
    StringKeys = {v1, v2}
    Languages = {t1, t2}
    DefaultLanguage = t1
    Locale <- MCLocale
    Stops <- MCStops
    OwnResources = {"blog", "notification"}
SPECIFICATION SiteSpec
SYMMETRY Interchangeable
INVARIANTS
    SiteTypeOK
    AccountsDistinct
    
    
    AnswersFitTheirFields
    SubmissionsPaced
    
PROPERTIES
    
    AccountStaysWithOwner
    LeavingIsHonoured
    ReadingIsKept
    PublicationHolds
    PictureOutlivesPointer
    SeedingCompletes
CHECK_DEADLOCK FALSE
