\* One member, three requests beside the first session, one expiry.
SPECIFICATION FairSpec
CONSTANTS
    Members = {m1}
    Requests = {r1, r2, r3}
    MaxExpiries = 1
INVARIANTS
    TokensKept
    PasswordsKept
PROPERTIES
    NoTokenForRevokedSession
    RequestsEnd
CHECK_DEADLOCK FALSE
