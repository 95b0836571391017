\* Two workers and two mails; two copies of a signed request; four attempts in a
\* window; two creations, logins and confirmations of one customer;
\* two channels, two updates, two tests and two deliveries of one alert.
SPECIFICATION Spec
CONSTANTS
    Events = {e1, e2}
    Workers = {w1, w2}
    BatchSize = 2
    MaxAttempts = 2
    MaxFaults = 1
    MaxRetries = 1
    Copies = {a, b}
    Tolerance = 1
    NonceTtl = 1
    Attempts = {g, h, i, j}
    MaxAttemptsPerWindow = 2
    WindowSeconds = 1
    MaxClock = 6
    MaxRedisFaults = 1
    Creations = {c, d}
    CustomerLogins = {l, m}
    ResetTokens = {r}
    VerifyTokens = {v}
    Confirmations = {p, q}
    Disables = {x}
    Channels = {hook, duty}
    Webhooks = {hook}
    Updates = {u1, u2}
    Tests = {t1, t2}
    Deliveries = {s1, s2}
INVARIANTS
    MessagesKept
    GuardsKept
    CustomersKept
PROPERTY
    EventSettles
CHECK_DEADLOCK FALSE
