CONSTANTS
    None = None
    Keep = Keep
    ann = ann
    ben = ben
    eve = eve
    hall = hall
    desk = desk
    kin = kin
    nola = nola
    books = books
    school = school
    shop = shop
    firefox = firefox
    Handlers <- MCHandlers
    Modes <- MCModes
    Emails <- MCEmails
    Levels <- MCLevels
    Ttl = 1
    CodeTtl = 1
    LastTick = 2
    MaxCookies = 3
    HandoffCodes = {1}
    Callers <- MCCallers
    Brands <- MCBrands
    Products <- MCProducts
    TenantIds = {1, 2}
    Apps = {school, shop}
    Plans <- MCPlans
    MaxDone = 3
    RecoveryLimit = 2
    Keys = {1}
    Bodies = {1, 2}
    Recipients = {ann, ben}
    Tasks = {1, 2}
    Devices = {firefox}
    LastDay = 1
    MaxSent = 2
    Months = {1, 2}
    Invoices = {kin, nola}
    ExpenseIds = {1, 2, 3}
SPECIFICATION Spec
CHECK_DEADLOCK FALSE
INVARIANT TeamIsGoverned
INVARIANT BillingIsShown
INVARIANT HappensOnce
INVARIANT ChargedOnce
PROPERTY ActsOnRecentRoles
PROPERTY ResolvesTruly
