\* Two tabs of one browser, and two users who sign in and out.
SPECIFICATION Spec
CONSTANTS
    t1 = t1
    t2 = t2
    alice = alice
    bob = bob
    browser = browser
    request = request
    code = code
    api1 = api1
    offline = offline
    Null = Null
    Tab = {t1, t2}
    Browser = {browser}
    BrowserOf <- OneBrowser
    User = {alice, bob}
    AuthRequest = {request}
    UserCode = {code}
    Scope = {api1}
    EnableOfflineAccess = TRUE
SYMMETRY Symmetry
INVARIANTS
    TypeOK
    GrantedAsConfirmed
PROPERTIES
    SignOutConfirmed
