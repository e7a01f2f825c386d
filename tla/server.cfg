SPECIFICATION FairSpec
CONSTANTS
  a1 = a1
  a2 = a2
  b = b
  alice = alice
  bob = bob
  Clients = {a1, a2, b}
  Users = {alice, bob}
  UserOf <- MCUserOf
  Passwords = {p, q}
  Edits = {e}
  thread_count = 2
  Faults = {"db_error", "accept_error", "crash"}
  None = None
INVARIANTS TypeOK ServedHasAccount CompletedIsKept
PROPERTIES ImplementsAccounts Served
