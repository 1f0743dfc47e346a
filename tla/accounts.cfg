SPECIFICATION AccountsSpec
CONSTANTS
  Guesses = {g1, g2}
  MaxCodes = 2
  MaxAttempts = 3
  Accesses = {a1, a2}
  MaxPasswords = 2
  Persons = {h1, h2}
  Mailboxes = {m1, m2}
  AdminCreates = TRUE
  Owners = {o1, o2}
  Nobody = nobody
  Phones = {t1, t2}
  Pushes = {q1}
  MaxReads = 2
  Askers = {r1}
  Screeners = {w1, w2}
  MaxCvs = 2
  MaxScreenings = 2
  MaxDeliveries = 2
  MaxAccounts = 2
  MaxObjects = 2
  Photos = {ph1}
  Scopes = {"register_request", "personal_information_change_request"}
  Inboxes = {i1}
  Hosts = {n1}
  Signed = {p1}
  Calls = {c1, c2}
  Rate = 1
  Window = 2
  MaxClock = 2
  MaxCalls = 2
  Places = {l1, l2}
  Posts = {b1, b2}
  MaxLetters = 2
  MaxIssued = 2
  MaxMoves = 1
  Fans = {f1, f2}
  Taps = {v1, v2}
  MaxFavorites = 3
  Suggesters = {s1, s2}
  Desks = {d1, d2}
  MaxRemarks = 2
VIEW PartAtWork
\* Codes, passwords and rows of the instance run out.
CHECK_DEADLOCK FALSE
INVARIANTS
  CodesSound SignInSound AccessSound OwnRowsSound CvSound SeededTutorsSound
