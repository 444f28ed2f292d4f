------------------------------ MODULE Accounts ------------------------------
(***************************************************************************)
(* AuthManager (core/security/auth.py): the accounts and their file, login *)
(* and lockout, the session and its idle timeout, and the permission every *)
(* operation asks for.  One user works at the desktop at a time.           *)
(*                                                                         *)
(* Passwords are abstracted to whether the one given is right.  Times are  *)
(* counted in ticks: `idle` since the last activity, `lock` until an       *)
(* account may be tried again.                                             *)
(***************************************************************************)
EXTENDS Integers, Sequences

CONSTANTS
  Names,           \* user names, "admin" among them
  Roles,           \* Role.PERMISSIONS: a function from roles to sets of permissions
  MaxFailed,       \* MAX_FAILED_ATTEMPTS
  Lockout,         \* LOCKOUT_SECONDS, in ticks
  SessionTimeout   \* SESSION_TIMEOUT_SECONDS, in ticks

ASSUME AccountsAssumption ==
  /\ "admin" \in Names /\ "nobody" \notin Names /\ "admin" \in DOMAIN Roles
  /\ MaxFailed \in Nat \ {0} /\ Lockout \in Nat \ {0} /\ SessionTimeout \in Nat \ {0}

VARIABLES
  phase,      \* "down", "login", "up"
  left,       \* login dialogs left in authenticate_user()
  users,      \* _users: name -> [role, failed, lock], for the names that have an account
  userFile,   \* users.json: [state |-> "absent", "torn" or "whole", users |-> ...]
  user,       \* _current_user, "nobody" if no one is logged in
  role,       \* its role: the User object outlives its removal from _users
  idle,       \* ticks since _last_activity
  tries       \* history: wrong passwords answered, since a success or the end of a lock

session == <<user, role, idle>>
accounts == <<phase, left, users, userFile, session, tries>>

Account == [role : DOMAIN Roles, failed : 0 .. MaxFailed - 1, lock : 0 .. Lockout]
Tables == UNION {[N -> Account] : N \in SUBSET Names}
NewAccount(r) == [role |-> r, failed |-> 0, lock |-> 0]
NoUsers == [n \in {} |-> NewAccount("admin")]

AccountsTypeOK ==
  /\ phase \in {"down", "login", "up"} /\ left \in 0 .. 3 /\ (phase = "login" => left > 0)
  /\ users \in Tables
  /\ userFile \in [state : {"absent", "torn", "whole"}, users : Tables]
  /\ user \in Names \cup {"nobody"} /\ role \in DOMAIN Roles
  /\ idle \in 0 .. SessionTimeout + 1
  /\ tries \in [Names -> Nat]

AccountsInit ==
  /\ phase = "down" /\ left = 0 /\ users = NoUsers
  /\ userFile = [state |-> "absent", users |-> NoUsers]
  /\ user = "nobody" /\ role = "admin" /\ idle = 0
  /\ tries = [n \in Names |-> 0]

\* _default_users(), of which one stands for those that are not administrators.
DefaultUsers == [n \in {"admin"} |-> NewAccount("admin")]

-----------------------------------------------------------------------------
(* The file is replaced as a whole.                                        *)

\* Mutant: the file is written in place, and the process may end meanwhile.
SavesInPlace(new) ==
  userFile' \in {[state |-> "whole", users |-> new], [state |-> "torn", users |-> NoUsers]}

Saves(new) == userFile' = [state |-> "whole", users |-> new]

\* _load_users(): the default accounts when there is no file, none when it cannot be read.
LoadUsers ==
  CASE userFile.state = "absent" -> users' = DefaultUsers /\ Saves(DefaultUsers)
    [] userFile.state = "torn"   -> users' = NoUsers /\ UNCHANGED userFile
    [] userFile.state = "whole"  -> users' = userFile.users /\ UNCHANGED userFile

Stores(new) == users' = new /\ Saves(new)

-----------------------------------------------------------------------------
(* login(): main() asks three times, then ends.                            *)

MayTry(n) == n \in DOMAIN users /\ users[n].lock = 0

Logged(n) == user' = n /\ role' = users[n].role /\ idle' = 0

LoginSucceeds(n) ==
  /\ phase = "login" /\ MayTry(n)
  /\ Logged(n) /\ phase' = "up"
  /\ Stores([users EXCEPT ![n].failed = 0])
  /\ tries' = [tries EXCEPT ![n] = 0]
  /\ UNCHANGED left

\* Every dialog that fails counts, and the last ends the process.
DialogFails == left' = left - 1 /\ phase' = IF left = 1 THEN "down" ELSE "login"

WithFailure(n) ==
  IF users[n].failed + 1 >= MaxFailed
  THEN [users EXCEPT ![n].failed = 0, ![n].lock = Lockout]
  ELSE [users EXCEPT ![n].failed = @ + 1]

\* Mutant: a failed attempt is saved only when it locks the account.
LoginFailsUnsaved(n) ==
  /\ phase = "login" /\ MayTry(n) /\ DialogFails
  /\ users' = WithFailure(n)
  /\ IF users'[n].lock > 0 THEN Saves(users') ELSE UNCHANGED userFile
  /\ tries' = [tries EXCEPT ![n] = @ + 1]
  /\ UNCHANGED session

LoginFails(n) ==
  /\ phase = "login" /\ MayTry(n) /\ DialogFails
  /\ Stores(WithFailure(n))
  /\ tries' = [tries EXCEPT ![n] = @ + 1]
  /\ UNCHANGED session

\* An unknown name or a locked account is refused whatever the password.  So is one that
\* is not `enabled`, which nothing in the program makes an account.
LoginRefused(n) ==
  /\ phase = "login" /\ ~MayTry(n) /\ DialogFails
  /\ UNCHANGED <<users, userFile, session, tries>>

-----------------------------------------------------------------------------
(* The session: every question for a permission ends it or renews it.      *)

IsLoggedIn == user # "nobody" /\ idle <= SessionTimeout

\* is_logged_in() as it leaves the session.
Asked ==
  IF IsLoggedIn THEN UNCHANGED <<user, role>> /\ idle' = 0
  ELSE user' = "nobody" /\ idle' = 0 /\ UNCHANGED role

Permitted(permission) == IsLoggedIn /\ permission \in Roles[role]

\* has_permission() before an operation that is done, and one that is not.
Allowed(permission) == phase = "up" /\ Permitted(permission) /\ Asked

Refused ==
  /\ phase = "up" /\ Asked
  /\ UNCHANGED <<phase, left, users, userFile, tries>>

Logout ==
  /\ phase = "up" /\ user' = "nobody" /\ idle' = 0
  /\ UNCHANGED <<phase, left, users, userFile, role, tries>>

AddUser(n, r) ==
  /\ Allowed("manage_users")
  /\ n \notin DOMAIN users
  /\ Stores([m \in DOMAIN users \cup {n} |-> IF m = n THEN NewAccount(r) ELSE users[m]])
  /\ tries' = [tries EXCEPT ![n] = 0]
  /\ UNCHANGED <<phase, left>>

RemoveUser(n) ==
  /\ Allowed("manage_users")
  /\ n \in DOMAIN users \ {"admin"}
  /\ Stores([m \in DOMAIN users \ {n} |-> users[m]])
  /\ UNCHANGED <<phase, left, tries>>

\* change_password() of one's own account does not look at the idle time.
ChangePassword(n) ==
  /\ phase = "up" /\ n \in DOMAIN users
  /\ IF user = n THEN UNCHANGED session
     ELSE user # "nobody" /\ Allowed("manage_users")
  /\ Stores(users)
  /\ UNCHANGED <<phase, left, tries>>

-----------------------------------------------------------------------------
(* Time, and the life of the process.                                      *)

Aged(table) == [n \in DOMAIN table |-> [table[n] EXCEPT !.lock = IF @ > 0 THEN @ - 1 ELSE 0]]

\* locked_until is a time of day: it comes nearer while the process is down, too.
Passes ==
  /\ idle' = IF user = "nobody" \/ idle > SessionTimeout THEN idle ELSE idle + 1
  /\ users' = Aged(users) /\ userFile' = [userFile EXCEPT !.users = Aged(@)]
  /\ tries' = [n \in Names |->
       IF n \in DOMAIN userFile.users /\ userFile.users[n].lock = 1 THEN 0 ELSE tries[n]]
  /\ UNCHANGED <<phase, left, user, role>>

Boots ==
  /\ phase = "down" /\ phase' = "login" /\ left' = 3
  /\ LoadUsers /\ user' = "nobody" /\ idle' = 0
  /\ UNCHANGED <<role, tries>>

\* The process ends, in order or not.
Ends ==
  /\ phase # "down" /\ phase' = "down" /\ left' = 0
  /\ users' = NoUsers /\ user' = "nobody" /\ idle' = 0
  /\ UNCHANGED <<userFile, role, tries>>

-----------------------------------------------------------------------------
(* Properties.                                                             *)

\* Between a success and the end of a lock no account has more than MaxFailed wrong
\* passwords answered, however often the process is restarted in between.
LockoutHolds == \A n \in Names : tries[n] <= MaxFailed

\* The account that manages the others is never lost, in memory or in the file, and
\* what a login sees is what the file holds.
AdminRemains ==
  /\ userFile.state # "torn"
  /\ userFile.state = "whole" => "admin" \in DOMAIN userFile.users
  /\ phase # "down" => users = userFile.users

=============================================================================
