------------------------ MODULE AdministrationProofs ------------------------
(***************************************************************************)
(* Theorems about the accounts and the configuration, for every set of     *)
(* names, roles and devices, every limit of failed logins, lock and        *)
(* timeout, and every number of changes.                                   *)
(***************************************************************************)
EXTENDS Administration, SequenceTheorems, TLAPS

-----------------------------------------------------------------------------
(* The accounts: whatever the rest of the program does is, for them, one   *)
(* of their own steps.                                                     *)

\* An operation that asked for a permission, and left the accounts as they were.
Works ==
  /\ \E permission : Allowed(permission)
  /\ UNCHANGED <<phase, left, users, userFile, tries>>

AccountsNext ==
  \/ Boots \/ Ends \/ Passes \/ Refused \/ Logout \/ Works
  \/ \E n \in Names : LoginSucceeds(n) \/ LoginFails(n) \/ LoginRefused(n) \/ RemoveUser(n) \/ ChangePassword(n)
  \/ \E n \in Names, r \in DOMAIN Roles : AddUser(n, r)

LEMMA AccountsStep == [Next]_vars => [AccountsNext]_accounts
<1> SUFFICES ASSUME [Next]_vars PROVE [AccountsNext]_accounts  OBVIOUS
<1>1. CASE Operations
  <2>1. CASE SetLevel \/ \E d \in Devices : SwitchMode(d)  BY <2>1 DEF SetLevel, SwitchMode
  <2>2. ASSUME NEW d \in Devices, AddDevice(d) \/ RemoveDevice(d) \/ UpdateDevice(d)
        PROVE  Works
    BY <2>2 DEF AddDevice, RemoveDevice, UpdateDevice, ChangesDevices, Works
  <2>3. ASSUME NEW d \in Devices, UpdateBreaks(d) \/ StartDevice(d) \/ StopDevice(d)
        PROVE  Works
    BY <2>3 DEF UpdateBreaks, StartDevice, StopDevice, Works
  <2>4. CASE SaveSettings \/ SaveSettingsRefused \/ RestoreDefaults \/ Import
    BY <2>4 DEF SaveSettings, SaveSettingsRefused, RestoreDefaults, Import, Works, AccountsNext
  <2> QED  BY <1>1, <2>1, <2>2, <2>3, <2>4 DEF Operations, AccountsNext
<1>2. CASE Boot \/ Login \/ End \/ Sessions \/ Tick
  BY <1>2 DEF Boot, Login, End, Sessions, Tick, AccountsNext
<1>3. CASE OpenFile \/ WriteFile \/ UNCHANGED vars
  BY <1>3 DEF OpenFile, WriteFile, vars
<1> QED  BY <1>1, <1>2, <1>3 DEF Next

LEMMA TablesDef ==
  ASSUME NEW f
  PROVE  f \in Tables <=> DOMAIN f \subseteq Names /\ f \in [DOMAIN f -> Account]
BY DEF Tables

\* What the operations make of a table of accounts is one.
LEMMA TableOps ==
  ASSUME NEW t \in Tables
  PROVE  /\ NoUsers \in Tables /\ DefaultUsers \in Tables /\ Aged(t) \in Tables
         /\ \A n \in DOMAIN t : [m \in DOMAIN t \ {n} |-> t[m]] \in Tables
         /\ \A n \in Names, r \in DOMAIN Roles :
              [m \in DOMAIN t \cup {n} |-> IF m = n THEN NewAccount(r) ELSE t[m]] \in Tables
         /\ \A n \in DOMAIN t : [t EXCEPT ![n].failed = 0] \in Tables
<1> USE AccountsAssumption
<1>1. NoUsers \in Tables  BY TablesDef DEF NoUsers
<1>2. \A r \in DOMAIN Roles : NewAccount(r) \in Account  BY DEF NewAccount, Account
<1>3. DefaultUsers \in Tables  BY <1>2, TablesDef DEF DefaultUsers
<1>4. DOMAIN t \subseteq Names /\ t \in [DOMAIN t -> Account]  BY TablesDef
<1>5. Aged(t) \in Tables
  <2>1. \A n \in DOMAIN t : Aged(t)[n] \in Account  BY <1>4 DEF Aged, Account
  <2>2. Aged(t) \in [DOMAIN t -> Account] /\ DOMAIN Aged(t) = DOMAIN t  BY <2>1 DEF Aged
  <2> QED  BY <1>4, <2>2, TablesDef
<1>6. \A n \in DOMAIN t : [m \in DOMAIN t \ {n} |-> t[m]] \in Tables
  BY <1>4, TablesDef
<1>7. ASSUME NEW n \in Names, NEW r \in DOMAIN Roles
      PROVE  [m \in DOMAIN t \cup {n} |-> IF m = n THEN NewAccount(r) ELSE t[m]] \in Tables
  BY <1>2, <1>4, TablesDef
<1>8. ASSUME NEW n \in DOMAIN t PROVE [t EXCEPT ![n].failed = 0] \in Tables
  BY <1>4, TablesDef DEF Account
<1> QED  BY <1>1, <1>3, <1>5, <1>6, <1>7, <1>8

LEMMA AccountUpdate ==
  ASSUME NEW a \in Account, NEW f \in 0 .. MaxFailed - 1, NEW l \in 0 .. Lockout
  PROVE  [a EXCEPT !.failed = f, !.lock = l] \in Account
BY DEF Account

\* A wrong password counts, and the last one locks.
LEMMA WithFailureOK ==
  ASSUME users \in Tables, NEW n \in DOMAIN users, users[n].lock = 0
  PROVE  /\ WithFailure(n) \in Tables /\ DOMAIN WithFailure(n) = DOMAIN users
         /\ \A m \in DOMAIN users \ {n} : WithFailure(n)[m] = users[m]
         /\ \/ users[n].failed + 1 >= MaxFailed /\ WithFailure(n)[n].lock > 0
            \/ WithFailure(n)[n].lock = 0 /\ WithFailure(n)[n].failed = users[n].failed + 1
<1>0. MaxFailed \in Nat /\ MaxFailed > 0 /\ Lockout \in Nat /\ Lockout > 0
  BY AccountsAssumption
<1>1. DOMAIN users \subseteq Names /\ users \in [DOMAIN users -> Account]  BY TablesDef
<1>2. users[n] \in Account  BY <1>1
<1>3. CASE users[n].failed + 1 >= MaxFailed
  <2>1. WithFailure(n) = [users EXCEPT ![n] = [users[n] EXCEPT !.failed = 0, !.lock = Lockout]]
    BY <1>1, <1>2, <1>3 DEF WithFailure, Account
  <2>2. [users[n] EXCEPT !.failed = 0, !.lock = Lockout] \in Account
    <3>1. 0 \in 0 .. MaxFailed - 1 /\ Lockout \in 0 .. Lockout  BY <1>0
    <3> QED  BY <1>2, <3>1, AccountUpdate
  <2>3. WithFailure(n) \in [DOMAIN users -> Account]  BY <1>1, <2>1, <2>2
  <2>4. WithFailure(n)[n].lock > 0  BY <1>0, <1>1, <1>2, <2>1 DEF Account
  <2> QED  BY <1>1, <1>3, <2>1, <2>3, <2>4, TablesDef
<1>4. CASE ~(users[n].failed + 1 >= MaxFailed)
  <2>1. WithFailure(n) = [users EXCEPT ![n] = [users[n] EXCEPT !.failed = @ + 1]]
    BY <1>1, <1>2, <1>4 DEF WithFailure, Account
  <2>2. [users[n] EXCEPT !.failed = @ + 1] \in Account  BY <1>0, <1>2, <1>4 DEF Account
  <2>3. WithFailure(n) \in [DOMAIN users -> Account]  BY <1>1, <2>1, <2>2
  <2>4. WithFailure(n)[n].lock = 0 /\ WithFailure(n)[n].failed = users[n].failed + 1
    BY <1>0, <1>1, <1>2, <2>1 DEF Account
  <2> QED  BY <1>1, <2>1, <2>3, <2>4, TablesDef
<1> QED  BY <1>3, <1>4

\* The dialogs of a login, and the time: the parts of a step without users.
LEMMA DialogOK ==
  ASSUME AccountsTypeOK, phase = "login", DialogFails
  PROVE  phase' \in {"down", "login", "up"} /\ left' \in 0 .. 3 /\ (phase' = "login" => left' > 0)
BY DEF AccountsTypeOK, DialogFails

LEMMA LoadsWhat ==
  ASSUME LoadUsers
  PROVE  /\ userFile.state = "absent" =>
              users' = DefaultUsers /\ userFile' = [state |-> "whole", users |-> DefaultUsers]
         /\ userFile.state = "torn" => users' = NoUsers /\ userFile' = userFile
         /\ userFile.state = "whole" => users' = userFile.users /\ userFile' = userFile
<1>1. CASE userFile.state = "absent"  BY <1>1 DEF LoadUsers, Saves
<1>2. CASE userFile.state = "torn"  BY <1>2 DEF LoadUsers
<1>3. CASE userFile.state = "whole"  BY <1>3 DEF LoadUsers
<1> QED  BY <1>1, <1>2, <1>3

LEMMA AccountsTypeStep == AccountsTypeOK /\ [AccountsNext]_accounts => AccountsTypeOK'
<1> SUFFICES ASSUME AccountsTypeOK, [AccountsNext]_accounts PROVE AccountsTypeOK'  OBVIOUS
<1>0. SessionTimeout \in Nat /\ "admin" \in DOMAIN Roles  BY AccountsAssumption
<1>a. /\ users \in Tables /\ userFile \in [state : {"absent", "torn", "whole"}, users : Tables]
      /\ DOMAIN users \subseteq Names /\ \A n \in DOMAIN users : users[n].role \in DOMAIN Roles
  BY TablesDef DEF AccountsTypeOK, Account
<1> DEFINE SessionOK == user \in Names \cup {"nobody"} /\ role \in DOMAIN Roles /\ idle \in 0 .. SessionTimeout + 1
\* A step that stores a table.
<1>1. ASSUME NEW new \in Tables, Stores(new),
             phase' \in {"down", "login", "up"}, left' \in 0 .. 3, phase' = "login" => left' > 0,
             SessionOK', tries' \in [Names -> Nat]
      PROVE  AccountsTypeOK'
  BY <1>1 DEF AccountsTypeOK, Stores, Saves
<1>2. CASE Boots
  <2>1. DefaultUsers \in Tables /\ NoUsers \in Tables  BY <1>a, TableOps
  <2>2. users' \in Tables /\ userFile' \in [state : {"absent", "torn", "whole"}, users : Tables]
    <3>1. CASE userFile.state = "absent"
      <4>1. users' = DefaultUsers /\ userFile' = [state |-> "whole", users |-> DefaultUsers]
        BY <1>2, <3>1, LoadsWhat DEF Boots
      <4> QED  BY <2>1, <4>1
    <3>2. CASE userFile.state # "absent"
      <4>1. users' \in {NoUsers, userFile.users} /\ userFile' = userFile
        BY <1>a, <1>2, <3>2, LoadsWhat DEF Boots
      <4> QED  BY <1>a, <2>1, <4>1
    <3> QED  BY <3>1, <3>2
  <2> QED  BY <1>0, <1>2, <2>2 DEF AccountsTypeOK, Boots
<1>3. CASE Ends
  <2>1. NoUsers \in Tables  BY <1>a, TableOps
  <2> QED  BY <1>0, <1>3, <2>1 DEF AccountsTypeOK, Ends
<1>4. CASE Passes
  <2>1. users' \in Tables  BY <1>a, <1>4, TableOps DEF Passes
  <2>2. Aged(userFile.users) \in Tables  BY <1>a, TableOps
  <2>3. userFile' \in [state : {"absent", "torn", "whole"}, users : Tables]
    BY <1>a, <1>4, <2>2 DEF Passes
  <2>4. tries' \in [Names -> Nat]  BY <1>4 DEF Passes, AccountsTypeOK
  <2>5. SessionOK'  BY <1>0, <1>4 DEF Passes, AccountsTypeOK
  <2> QED  BY <1>4, <2>1, <2>3, <2>4, <2>5 DEF AccountsTypeOK, Passes
\* What is_logged_in() leaves.
<1>5. ASSUME Asked PROVE SessionOK'
  BY <1>0, <1>5 DEF Asked, AccountsTypeOK
<1>6. CASE Refused \/ Logout \/ Works
  <2>1. SessionOK'  BY <1>0, <1>5, <1>6 DEF Refused, Logout, Works, Allowed, AccountsTypeOK
  <2>2. UNCHANGED <<phase, left, users, userFile, tries>>  BY <1>6 DEF Refused, Logout, Works
  <2> QED  BY <2>1, <2>2 DEF AccountsTypeOK
<1>7. ASSUME NEW n \in Names, LoginSucceeds(n) PROVE AccountsTypeOK'
  <2>1. n \in DOMAIN users  BY <1>7 DEF LoginSucceeds, MayTry
  <2>2. [users EXCEPT ![n].failed = 0] \in Tables  BY <1>a, <2>1, TableOps
  <2>3. SessionOK'  BY <1>0, <1>a, <1>7, <2>1 DEF LoginSucceeds, Logged
  <2> QED  BY <1>1, <1>7, <2>2, <2>3 DEF LoginSucceeds, AccountsTypeOK
<1>8. ASSUME NEW n \in Names, LoginFails(n) PROVE AccountsTypeOK'
  <2>1. n \in DOMAIN users /\ users[n].lock = 0  BY <1>8 DEF LoginFails, MayTry
  <2>2. WithFailure(n) \in Tables  BY <1>a, <2>1, WithFailureOK
  <2>3. SessionOK'  BY <1>8 DEF LoginFails, session, AccountsTypeOK
  <2>4. phase' \in {"down", "login", "up"} /\ left' \in 0 .. 3 /\ (phase' = "login" => left' > 0)
    BY <1>8, DialogOK DEF LoginFails
  <2>5. tries' \in [Names -> Nat]  BY <1>8 DEF LoginFails, AccountsTypeOK
  <2> QED  BY <1>1, <1>8, <2>2, <2>3, <2>4, <2>5 DEF LoginFails
<1>9. ASSUME NEW n \in Names, LoginRefused(n) PROVE AccountsTypeOK'
  <2>1. phase' \in {"down", "login", "up"} /\ left' \in 0 .. 3 /\ (phase' = "login" => left' > 0)
    BY <1>9, DialogOK DEF LoginRefused
  <2> QED  BY <1>9, <2>1 DEF LoginRefused, session, AccountsTypeOK
<1>10. ASSUME NEW n \in Names, RemoveUser(n) PROVE AccountsTypeOK'
  <2>1. [m \in DOMAIN users \ {n} |-> users[m]] \in Tables
    BY <1>a, <1>10, TableOps DEF RemoveUser
  <2> QED  BY <1>1, <1>5, <1>10, <2>1 DEF RemoveUser, Allowed, AccountsTypeOK
<1>11. ASSUME NEW n \in Names, ChangePassword(n) PROVE AccountsTypeOK'
  <2>1. SessionOK'  BY <1>5, <1>11 DEF ChangePassword, Allowed, session, AccountsTypeOK
  <2> QED  BY <1>1, <1>a, <1>11, <2>1 DEF ChangePassword, AccountsTypeOK
<1>12. ASSUME NEW n \in Names, NEW r \in DOMAIN Roles, AddUser(n, r) PROVE AccountsTypeOK'
  <2>1. [m \in DOMAIN users \cup {n} |-> IF m = n THEN NewAccount(r) ELSE users[m]] \in Tables
    BY <1>a, TableOps
  <2>2. tries' \in [Names -> Nat]  BY <1>12 DEF AddUser, AccountsTypeOK
  <2> QED  BY <1>1, <1>5, <1>12, <2>1, <2>2 DEF AddUser, Allowed, AccountsTypeOK
<1>13. CASE UNCHANGED accounts
  BY <1>13 DEF accounts, session, AccountsTypeOK
<1> QED
  BY <1>2, <1>3, <1>4, <1>6, <1>7, <1>8, <1>9, <1>10, <1>11, <1>12, <1>13 DEF AccountsNext

\* The accounts keep their types.
LEMMA AccountsTypeCorrect == Spec => []AccountsTypeOK
<1>1. Init => AccountsTypeOK
  <2> SUFFICES ASSUME AccountsInit PROVE AccountsTypeOK  BY DEF Init
  <2>1. NoUsers \in Tables  BY TablesDef DEF NoUsers
  <2> QED  BY <2>1, AccountsAssumption DEF AccountsInit, AccountsTypeOK
<1> QED  BY <1>1, AccountsStep, AccountsTypeStep, PTL DEF Spec

\* Beyond AdminRemains: whoever has started has a file to read.
AdminInv ==
  /\ AdminRemains
  /\ phase # "down" => userFile.state = "whole"

LEMMA AdminStep == AccountsTypeOK /\ AdminInv /\ [AccountsNext]_accounts => AdminInv'
<1> SUFFICES ASSUME AccountsTypeOK, AdminInv, [AccountsNext]_accounts PROVE AdminInv'  OBVIOUS
<1> USE DEF AdminInv, AdminRemains
<1>0. userFile \in [state : {"absent", "torn", "whole"}, users : Tables] /\ users \in Tables
  BY DEF AccountsTypeOK
<1>1. ASSUME NEW new, Stores(new), "admin" \in DOMAIN new PROVE AdminInv'
  BY <1>1 DEF Stores, Saves
<1>2. CASE Boots
  <2>1. "admin" \in DOMAIN DefaultUsers  BY DEF DefaultUsers
  <2>2. CASE userFile.state = "absent"
    <3>1. users' = DefaultUsers /\ userFile' = [state |-> "whole", users |-> DefaultUsers]
      BY <1>2, <2>2, LoadsWhat DEF Boots
    <3> QED  BY <2>1, <3>1
  <2>3. CASE userFile.state = "whole"
    <3>1. users' = userFile.users /\ userFile' = userFile
      BY <1>2, <2>3, LoadsWhat DEF Boots
    <3> QED  BY <2>3, <3>1
  <2> QED  BY <1>0, <2>2, <2>3
<1>3. CASE Ends \/ Refused \/ Logout \/ Works
  BY <1>3 DEF Ends, Refused, Logout, Works
<1>4. CASE Passes
  <2>1. userFile'.state = userFile.state /\ userFile'.users = Aged(userFile.users)
    BY <1>0, <1>4 DEF Passes
  <2>2. \A t : DOMAIN Aged(t) = DOMAIN t  BY DEF Aged
  <2> QED  BY <1>4, <2>1, <2>2 DEF Passes
<1>5. ASSUME NEW n \in Names, LoginSucceeds(n) PROVE AdminInv'
  <2>1. "admin" \in DOMAIN [users EXCEPT ![n].failed = 0]  BY <1>5 DEF LoginSucceeds
  <2> QED  BY <1>1, <1>5, <2>1 DEF LoginSucceeds
<1>6. ASSUME NEW n \in Names, LoginFails(n) PROVE AdminInv'
  <2>1. n \in DOMAIN users /\ users[n].lock = 0 /\ "admin" \in DOMAIN users
    BY <1>6 DEF LoginFails, MayTry
  <2>2. "admin" \in DOMAIN WithFailure(n)  BY <1>0, <2>1, WithFailureOK
  <2> QED  BY <1>1, <1>6, <2>2 DEF LoginFails
<1>7. ASSUME NEW n \in Names, LoginRefused(n) PROVE AdminInv'
  BY <1>7 DEF LoginRefused, DialogFails
<1>8. ASSUME NEW n \in Names, RemoveUser(n) \/ ChangePassword(n) PROVE AdminInv'
  <2>1. "admin" \in DOMAIN users  BY <1>8 DEF RemoveUser, ChangePassword, Allowed
  <2>2. CASE RemoveUser(n)
    <3>1. "admin" \in DOMAIN [m \in DOMAIN users \ {n} |-> users[m]]
      BY <2>1, <2>2 DEF RemoveUser
    <3> QED  BY <1>1, <2>2, <3>1 DEF RemoveUser
  <2>3. CASE ChangePassword(n)
    BY <1>1, <2>1, <2>3 DEF ChangePassword
  <2> QED  BY <1>8, <2>2, <2>3
<1>9. ASSUME NEW n \in Names, NEW r \in DOMAIN Roles, AddUser(n, r) PROVE AdminInv'
  <2>1. "admin" \in DOMAIN users  BY <1>9 DEF AddUser, Allowed
  <2>2. "admin" \in DOMAIN [m \in DOMAIN users \cup {n} |-> IF m = n THEN NewAccount(r) ELSE users[m]]
    BY <2>1
  <2> QED  BY <1>1, <1>9, <2>2 DEF AddUser
<1>10. CASE UNCHANGED accounts  BY <1>10 DEF accounts
<1> QED
  BY <1>2, <1>3, <1>4, <1>5, <1>6, <1>7, <1>8, <1>9, <1>10 DEF AccountsNext

\* The administrator's account is never lost, and the file is what is in memory (auth.py:88).
THEOREM AdminIsNeverLost == Spec => []AdminRemains
<1>1. Init => AdminInv  BY DEF Init, AccountsInit, AdminInv, AdminRemains
<1>2. AdminInv => AdminRemains  BY DEF AdminInv
<1> QED  BY <1>1, <1>2, AdminStep, AccountsTypeCorrect, AccountsStep, PTL DEF Spec

\* An account that is not locked has counted every wrong password since the last success;
\* a locked one has answered no more than MaxFailed.
LockInv ==
  /\ userFile.state = "absent" => \A n \in Names : tries[n] = 0
  /\ \A n \in Names : tries[n] <= MaxFailed
  /\ \A n \in DOMAIN userFile.users :
       userFile.users[n].lock = 0 => tries[n] <= userFile.users[n].failed

LEMMA LockStep == AccountsTypeOK /\ AdminInv /\ LockInv /\ [AccountsNext]_accounts => LockInv'
<1> SUFFICES ASSUME AccountsTypeOK, AdminInv, LockInv, [AccountsNext]_accounts PROVE LockInv'  OBVIOUS
<1>0. MaxFailed \in Nat /\ MaxFailed > 0 /\ "admin" \in Names /\ tries \in [Names -> Nat]
  BY AccountsAssumption DEF AccountsTypeOK
<1>a. /\ userFile \in [state : {"absent", "torn", "whole"}, users : Tables]
      /\ userFile.users \in Tables /\ users \in Tables
      /\ DOMAIN users \subseteq Names /\ users \in [DOMAIN users -> Account]
      /\ DOMAIN userFile.users \subseteq Names /\ userFile.users \in [DOMAIN userFile.users -> Account]
  BY TablesDef DEF AccountsTypeOK
<1>b. phase # "down" => users = userFile.users /\ userFile.state = "whole"
  BY DEF AdminInv, AdminRemains
<1>1. CASE UNCHANGED <<userFile, tries>>
  BY <1>1 DEF LockInv
\* A step that stores a table.
<1>2. ASSUME NEW new, Stores(new), \A n \in Names : tries'[n] <= MaxFailed,
             \A n \in DOMAIN new : new[n].lock = 0 => tries'[n] <= new[n].failed
      PROVE  LockInv'
  BY <1>2 DEF Stores, Saves, LockInv
<1>3. CASE Boots
  <2>1. tries' = tries  BY <1>3 DEF Boots
  <2>2. CASE userFile.state = "absent"
    <3>1. userFile' = [state |-> "whole", users |-> DefaultUsers]  BY <1>3, <2>2, LoadsWhat DEF Boots
    <3>2. DOMAIN DefaultUsers = {"admin"} /\ DefaultUsers["admin"].failed = 0
      BY DEF DefaultUsers, NewAccount
    <3>3. tries["admin"] = 0  BY <1>0, <2>2 DEF LockInv
    <3> QED  BY <2>1, <3>1, <3>2, <3>3 DEF LockInv
  <2>3. CASE userFile.state # "absent"
    <3>1. userFile' = userFile  BY <1>a, <1>3, <2>3, LoadsWhat DEF Boots
    <3> QED  BY <1>1, <2>1, <3>1
  <2> QED  BY <2>2, <2>3
<1>4. CASE Passes
  <2>1. userFile'.state = userFile.state /\ userFile'.users = Aged(userFile.users)
    BY <1>a, <1>4 DEF Passes
  <2>2. \A n \in Names : tries'[n] = IF n \in DOMAIN userFile.users /\ userFile.users[n].lock = 1
                                     THEN 0 ELSE tries[n]
    BY <1>4 DEF Passes
  <2>3. \A n \in DOMAIN userFile.users :
          /\ Aged(userFile.users)[n].failed = userFile.users[n].failed
          /\ userFile.users[n].failed \in Nat /\ userFile.users[n].lock \in Nat
          /\ Aged(userFile.users)[n].lock = IF userFile.users[n].lock > 0 THEN userFile.users[n].lock - 1 ELSE 0
    BY <1>0, <1>a DEF Aged, Account
  <2>4. DOMAIN Aged(userFile.users) = DOMAIN userFile.users  BY DEF Aged
  <2>5. \A n \in DOMAIN userFile.users :
          Aged(userFile.users)[n].lock = 0 => tries'[n] <= Aged(userFile.users)[n].failed
    <3> SUFFICES ASSUME NEW n \in DOMAIN userFile.users, Aged(userFile.users)[n].lock = 0
                 PROVE  tries'[n] <= Aged(userFile.users)[n].failed
      OBVIOUS
    <3>1. n \in Names /\ userFile.users[n].lock \in {0, 1}  BY <1>a, <2>3
    <3> QED  BY <2>2, <2>3, <3>1 DEF LockInv
  <2>6. \A n \in Names : tries'[n] <= MaxFailed  BY <1>0, <2>2 DEF LockInv
  <2>7. userFile.state = "absent" => \A n \in Names : tries'[n] = 0  BY <2>2 DEF LockInv
  <2> QED  BY <2>1, <2>4, <2>5, <2>6, <2>7 DEF LockInv
<1>5. ASSUME NEW n \in Names, LoginSucceeds(n) PROVE LockInv'
  <2>1. users = userFile.users /\ n \in DOMAIN users  BY <1>b, <1>5 DEF LoginSucceeds, MayTry
  <2> DEFINE new == [users EXCEPT ![n].failed = 0]
  <2>2. \A m \in DOMAIN new : /\ m # n => new[m] = users[m]
                              /\ m = n => new[m].failed = 0
    BY <1>a, <2>1 DEF Account
  <2>3. Stores(new) /\ tries' = [tries EXCEPT ![n] = 0]  BY <1>5 DEF LoginSucceeds
  <2>4. DOMAIN new = DOMAIN users  OBVIOUS
  <2> HIDE DEF new
  <2>5. \A m \in Names : tries'[m] = IF m = n THEN 0 ELSE tries[m]  BY <1>0, <2>3
  <2>6. \A m \in DOMAIN new : new[m].lock = 0 => tries'[m] <= new[m].failed
    BY <1>a, <2>1, <2>2, <2>4, <2>5 DEF LockInv
  <2>7. \A m \in Names : tries'[m] <= MaxFailed  BY <1>0, <2>5 DEF LockInv
  <2> QED  BY <1>2, <2>3, <2>6, <2>7
<1>6. ASSUME NEW n \in Names, LoginFails(n) PROVE LockInv'
  <2>1. n \in DOMAIN users /\ users[n].lock = 0 /\ users = userFile.users
    BY <1>b, <1>6 DEF LoginFails, MayTry
  <2> DEFINE new == WithFailure(n)
  <2>2. /\ DOMAIN new = DOMAIN users /\ \A m \in DOMAIN users \ {n} : new[m] = users[m]
        /\ \/ users[n].failed + 1 >= MaxFailed /\ new[n].lock > 0
           \/ new[n].lock = 0 /\ new[n].failed = users[n].failed + 1
    BY <1>a, <2>1, WithFailureOK
  <2>3. Stores(new) /\ tries' = [tries EXCEPT ![n] = @ + 1]  BY <1>6 DEF LoginFails
  <2> HIDE DEF new
  <2>4. \A m \in Names : tries'[m] = IF m = n THEN tries[n] + 1 ELSE tries[m]  BY <1>0, <2>3
  <2>5. tries[n] <= users[n].failed /\ users[n].failed < MaxFailed /\ users[n].failed \in Nat /\ tries[n] \in Nat
    BY <1>0, <1>a, <2>1 DEF LockInv, Account
  <2>6. \A m \in Names : tries'[m] <= MaxFailed  BY <1>0, <2>4, <2>5 DEF LockInv
  <2>7. ~(new[n].lock > 0 /\ new[n].lock = 0)  OBVIOUS
  <2>8. ASSUME NEW m \in DOMAIN new, new[m].lock = 0 PROVE tries'[m] <= new[m].failed
    <3>1. CASE m = n  BY <1>0, <2>2, <2>4, <2>5, <2>7, <2>8, <3>1
    <3>2. CASE m # n  BY <1>a, <2>1, <2>2, <2>4, <2>8, <3>2 DEF LockInv
    <3> QED  BY <3>1, <3>2
  <2> QED  BY <1>2, <2>3, <2>6, <2>8
<1>7. ASSUME NEW n \in Names, RemoveUser(n) PROVE LockInv'
  <2>1. users = userFile.users /\ tries' = tries  BY <1>b, <1>7 DEF RemoveUser, Allowed
  <2>2. Stores([m \in DOMAIN users \ {n} |-> users[m]])  BY <1>7 DEF RemoveUser
  <2> QED  BY <1>2, <2>1, <2>2 DEF LockInv
<1>8. ASSUME NEW n \in Names, ChangePassword(n) PROVE LockInv'
  <2>1. users = userFile.users /\ tries' = tries /\ Stores(users)  BY <1>b, <1>8 DEF ChangePassword, Allowed
  <2> QED  BY <1>2, <2>1 DEF LockInv
<1>9. ASSUME NEW n \in Names, NEW r \in DOMAIN Roles, AddUser(n, r) PROVE LockInv'
  <2>1. users = userFile.users /\ tries' = [tries EXCEPT ![n] = 0]  BY <1>b, <1>9 DEF AddUser, Allowed
  <2> DEFINE new == [m \in DOMAIN users \cup {n} |-> IF m = n THEN NewAccount(r) ELSE users[m]]
  <2>2. Stores(new)  BY <1>9 DEF AddUser
  <2>3. \A m \in Names : tries'[m] = IF m = n THEN 0 ELSE tries[m]  BY <1>0, <2>1
  <2>4. NewAccount(r).failed = 0  BY DEF NewAccount
  <2>5. \A m \in DOMAIN new : new[m].lock = 0 => tries'[m] <= new[m].failed
    BY <1>a, <2>1, <2>3, <2>4 DEF LockInv
  <2>6. \A m \in Names : tries'[m] <= MaxFailed  BY <1>0, <2>3 DEF LockInv
  <2> HIDE DEF new
  <2> QED  BY <1>2, <2>2, <2>5, <2>6
<1> QED
  BY <1>1, <1>3, <1>4, <1>5, <1>6, <1>7, <1>8, <1>9
  DEF AccountsNext, Ends, Refused, Logout, Works, LoginRefused, accounts

\* Between a success and the end of a lock no account answers more than MaxFailed wrong
\* passwords, however often the process is restarted (auth.py:152).
THEOREM LockoutAlwaysHolds == Spec => []LockoutHolds
<1>1. Init => AdminInv /\ LockInv
  BY AccountsAssumption DEF Init, AccountsInit, AdminInv, AdminRemains, LockInv, NoUsers
<1>2. LockInv => LockoutHolds  BY DEF LockInv, LockoutHolds
<1> QED  BY <1>1, <1>2, AdminStep, LockStep, AccountsTypeCorrect, AccountsStep, PTL DEF Spec

-----------------------------------------------------------------------------
(* The devices.                                                            *)

Causes == [torn : BOOLEAN, half : BOOLEAN, rekeyed : BOOLEAN, redacted : BOOLEAN, replaced : BOOLEAN]

CausesOK == cause \in Causes

LEMMA CauseStep ==
  ASSUME cause \in Causes, [Next]_vars
  PROVE  /\ cause' \in Causes
         /\ cause.torn => cause'.torn
         /\ cause.half => cause'.half
         /\ cause.rekeyed => cause'.rekeyed
         /\ cause.replaced /\ ~Boot => cause'.replaced
<1>1. CASE cause' = cause  BY <1>1
<1>2. CASE Boot
  <2> DEFINE b == cause.rekeyed \/ key' # key
  <2>1. cause' = [cause EXCEPT !.rekeyed = b, !.replaced = FALSE] /\ b \in BOOLEAN  BY <1>2 DEF Boot
  <2>2. cause.rekeyed => b  OBVIOUS
  <2> HIDE DEF b
  <2> QED  BY <1>2, <2>1, <2>2 DEF Causes
<1>3. CASE End
  <2> DEFINE b == cause.torn \/ opened \/ saving # <<>>
  <2>1. cause' = [cause EXCEPT !.torn = b] /\ b \in BOOLEAN  BY <1>3 DEF End
  <2>2. cause.torn => b  OBVIOUS
  <2> HIDE DEF b
  <2> QED  BY <2>1, <2>2 DEF Causes
<1>4. CASE Import
  <2>1. PICK text \in {"s", "<redacted>"}, breaks \in BOOLEAN :
          cause' = [cause EXCEPT !.replaced = TRUE, !.half = @ \/ breaks, !.redacted = @ \/ text = "<redacted>"]
    BY <1>4 DEF Import
  <2> DEFINE b == cause.half \/ breaks
             c == cause.redacted \/ text = "<redacted>"
  <2>2. cause' = [cause EXCEPT !.replaced = TRUE, !.half = b, !.redacted = c]
        /\ b \in BOOLEAN /\ c \in BOOLEAN
    BY <2>1
  <2>3. cause.half => b  OBVIOUS
  <2> HIDE DEF b, c
  <2> QED  BY <2>2, <2>3 DEF Causes
<1>5. CASE RestoreDefaults \/ \E d \in Devices : UpdateBreaks(d)
  <2>1. cause' = [cause EXCEPT !.replaced = TRUE] \/ cause' = [cause EXCEPT !.half = TRUE]
    BY <1>5 DEF RestoreDefaults, UpdateBreaks
  <2> QED  BY <2>1 DEF Causes
<1> QED
  BY <1>1, <1>2, <1>3, <1>4, <1>5 DEF Next, Login, Sessions, Tick, Operations, AddDevice, RemoveDevice,
     UpdateDevice, StartDevice, StopDevice, SwitchMode, SaveSettings, SaveSettingsRefused, SetLevel,
     OpenFile, WriteFile, history, vars

\* What is collected is configured, unless other devices were put in place or it was
\* started while it ran (device_manager.py:138, collector.py:380).
THEOREM RunningAreConfigured == Spec => []RunningIsConfigured
<1> DEFINE Inv == running \subseteq DOMAIN devices \cap live \/ cause.replaced
<1>1. Init => CausesOK /\ Inv
  BY DEF CausesOK, Init, NoCause, Causes
<1>2. CausesOK /\ Inv /\ [Next]_vars => Inv'
  <2> SUFFICES ASSUME cause \in Causes, Inv, [Next]_vars PROVE Inv'
    BY DEF CausesOK
  <2>1. cause.replaced /\ ~Boot => cause'.replaced  BY CauseStep
  <2>2. CASE ~Boot /\ running' \subseteq running /\ live' = live /\ DOMAIN devices' = DOMAIN devices
    BY <2>1, <2>2
  <2>3. CASE Boot \/ End
    <3>1. running' = {}  BY <2>3 DEF Boot, End, NoneCollects
    <3> QED  BY <3>1
  <2>4. CASE RestoreDefaults \/ Import
    <3>1. cause'.replaced
      BY <2>4 DEF RestoreDefaults, Import, Causes
    <3> QED  BY <3>1
  <2> SUFFICES ASSUME ~Boot PROVE Inv'  BY <2>3
  <2>5. ASSUME NEW d \in Devices, AddDevice(d) PROVE Inv'
    <3>1. DOMAIN devices' = DOMAIN devices \cup {d} /\ running' = running /\ live' = live
      BY <2>5 DEF AddDevice, ChangesDevices, With, collecting
    <3> QED  BY <2>1, <3>1
  <2>6. ASSUME NEW d \in Devices, RemoveDevice(d) PROVE Inv'
    <3>1. DOMAIN devices' = DOMAIN devices \ {d} /\ running' = running \ {d} /\ live' = live \ {d}
      BY <2>6 DEF RemoveDevice, ChangesDevices, Without
    <3> QED  BY <2>1, <3>1
  <2>7. ASSUME NEW d \in Devices, UpdateDevice(d) PROVE Inv'
    <3>1. DOMAIN devices' = DOMAIN devices /\ running' \subseteq running /\ live \subseteq live'
      BY <2>7 DEF UpdateDevice, ChangesDevices
    <3> QED  BY <2>1, <3>1
  <2>8. ASSUME NEW d \in Devices, StartDevice(d) PROVE Inv'
    <3>1. /\ devices' = devices /\ d \in DOMAIN devices /\ running' \subseteq running \cup {d}
          /\ live' = live \cup {d}
      BY <2>8 DEF StartDevice, memory
    <3> QED  BY <2>1, <3>1
  <2>9. ASSUME NEW d \in Devices, UpdateBreaks(d) \/ StopDevice(d) \/ SwitchMode(d) PROVE Inv'
    <3>1. DOMAIN devices' = DOMAIN devices /\ running' \subseteq running /\ live' = live
      BY <2>9 DEF UpdateBreaks, StopDevice, SwitchMode, memory, collecting
    <3> QED  BY <2>2, <3>1
  <2> QED
    BY <2>2, <2>3, <2>4, <2>5, <2>6, <2>7, <2>8, <2>9
    DEF Next, Login, Sessions, Tick, Operations, SaveSettings, SaveSettingsRefused, SetLevel, OpenFile,
        WriteFile, memory, collecting, vars
<1>3. CausesOK /\ [Next]_vars => CausesOK'  BY CauseStep DEF CausesOK
<1>4. Inv => RunningIsConfigured  BY DEF RunningIsConfigured
<1> QED  BY <1>1, <1>2, <1>3, <1>4, PTL DEF Spec

-----------------------------------------------------------------------------
(* The configuration and its secrets.                                      *)

\* A password in memory is plain; in a file it is under one key, if it is one at all.
PlainPw == [text : {"", "s", "<redacted>"}, under : {<<>>}]
FilePw == [text : {"", "<redacted>"}, under : {<<>>}] \cup [text : {"s"}, under : {<<"k1">>, <<"k2">>}]
InMemory(f) == f \in [DOMAIN f -> [ver : Nat, pw : PlainPw]]
InFile(f) == f \in [DOMAIN f -> [ver : Nat, pw : FilePw]]
SameBut(f, g, D) == DOMAIN f = DOMAIN g /\ \A d \in DOMAIN g \ D : f[d].ver = g[d].ver
SameSecrets(f, g) == DOMAIN f = DOMAIN g /\ \A d \in DOMAIN g : f[d].pw = g[d].pw
SameDevices(f, g) == DOMAIN f = DOMAIN g /\ \A d \in DOMAIN g : f[d].ver = g[d].ver

\* One layer goes on, and comes off again.
LEMMA EncryptOK ==
  ASSUME NEW p \in PlainPw, key \in Keys
  PROVE  Encrypted(p) \in FilePw /\ Decrypted(Encrypted(p), key) = p
<1>1. CASE p.text # "s"
  BY <1>1 DEF Encrypted, Decrypted, PlainPw, FilePw
<1>2. CASE p.text = "s"
  <2>1. p = [text |-> "s", under |-> <<>>]  BY <1>2 DEF PlainPw
  <2>2. Encrypted(p) = [text |-> "s", under |-> <<key>>]  BY <2>1 DEF Encrypted
  <2>3. <<key>> \in {<<"k1">>, <<"k2">>}  BY DEF Keys
  <2>4. Encrypted(p) \in FilePw  BY <2>2, <2>3 DEF FilePw
  <2>5. Last(<<key>>) = key /\ Front(<<key>>) = <<>> /\ <<key>> # <<>>
    BY DEF Last, Front
  <2>6. Decrypted(Encrypted(p), key) = [[text |-> "s", under |-> <<key>>] EXCEPT !.under = <<>>]
    BY <2>2, <2>5 DEF Decrypted
  <2> QED  BY <2>1, <2>4, <2>6
<1> QED  BY <1>1, <1>2

LEMMA DecryptOK ==
  ASSUME NEW p \in FilePw, NEW k \in Keys
  PROVE  Decrypted(p, k) \in PlainPw
<1>1. CASE p.under = <<>>
  BY <1>1 DEF Decrypted, PlainPw, FilePw
<1>2. CASE p.under # <<>>
  <2>1. PICK j \in Keys : p = [text |-> "s", under |-> <<j>>]
    BY <1>2 DEF FilePw, Keys
  <2>2. Front(<<j>>) = <<>>  BY DEF Front
  <2>3. Decrypted(p, k) \in {[text |-> "s", under |-> <<>>], [text |-> "", under |-> <<>>]}
    BY <1>2, <2>1, <2>2 DEF Decrypted, Plain
  <2>4. [text |-> "s", under |-> <<>>] \in PlainPw  BY DEF PlainPw
  <2>5. [text |-> "", under |-> <<>>] \in PlainPw  BY DEF PlainPw
  <2> QED  BY <2>3, <2>4, <2>5
<1> QED  BY <1>1, <1>2

LEMMA RecordOK ==
  ASSUME NEW v \in Nat, NEW S, NEW p \in S
  PROVE  [ver |-> v, pw |-> p] \in [ver : Nat, pw : S]
OBVIOUS

\* A function whose values are in a set is a function into it.
LEMMA IntoSet ==
  ASSUME NEW D, NEW S, NEW g, g = [d \in D |-> g[d]], \A d \in D : g[d] \in S
  PROVE  g \in [D -> S]
OBVIOUS

LEMMA ProtectOK ==
  ASSUME NEW f, InMemory(f), key \in Keys
  PROVE  /\ InFile(Protected(f)) /\ SameDevices(Protected(f), f)
         /\ DecryptedAll(Protected(f), key) = f
<1>1. \A d \in DOMAIN f : /\ f[d] \in [ver : Nat, pw : PlainPw]
                          /\ f[d] = [ver |-> f[d].ver, pw |-> f[d].pw]
  BY DEF InMemory
<1>2. \A d \in DOMAIN f : Protected(f)[d] = [ver |-> f[d].ver, pw |-> Encrypted(f[d].pw)]
  BY <1>1 DEF Protected
<1>3. \A d \in DOMAIN f : Encrypted(f[d].pw) \in FilePw /\ Decrypted(Encrypted(f[d].pw), key) = f[d].pw
  BY <1>1, EncryptOK
<1>4. DOMAIN Protected(f) = DOMAIN f  BY DEF Protected
<1>5. Protected(f) \in [DOMAIN f -> [ver : Nat, pw : FilePw]]
  <2>1. ASSUME NEW d \in DOMAIN f PROVE Protected(f)[d] \in [ver : Nat, pw : FilePw]
    <3> DEFINE v == f[d].ver
               e == Encrypted(f[d].pw)
    <3>1. v \in Nat /\ e \in FilePw /\ Protected(f)[d] = [ver |-> v, pw |-> e]  BY <1>1, <1>2, <1>3
    <3> HIDE DEF v, e
    <3> QED  BY <3>1, RecordOK
  <2> DEFINE g == Protected(f)
  <2>2. g = [d \in DOMAIN f |-> g[d]]  BY DEF Protected
  <2>3. \A d \in DOMAIN f : g[d] \in [ver : Nat, pw : FilePw]  BY <2>1
  <2> HIDE DEF g
  <2>4. g \in [DOMAIN f -> [ver : Nat, pw : FilePw]]  BY <2>2, <2>3, IntoSet
  <2> QED  BY <2>4 DEF g
<1>6. \A d \in DOMAIN f : DecryptedAll(Protected(f), key)[d] = f[d]
  <2> SUFFICES ASSUME NEW d \in DOMAIN f PROVE DecryptedAll(Protected(f), key)[d] = f[d]  OBVIOUS
  <2>1. DecryptedAll(Protected(f), key)[d]
          = [[ver |-> f[d].ver, pw |-> Encrypted(f[d].pw)] EXCEPT !.pw = Decrypted(@, key)]
    BY <1>2, <1>4 DEF DecryptedAll
  <2>2. @ = [ver |-> f[d].ver, pw |-> f[d].pw]  BY <1>3, <2>1
  <2> QED  BY <1>1, <2>1, <2>2
<1>7. DecryptedAll(Protected(f), key) = [d \in DOMAIN f |-> DecryptedAll(Protected(f), key)[d]]
  BY <1>4 DEF DecryptedAll
<1>8. f = [d \in DOMAIN f |-> f[d]]  BY DEF InMemory
<1> QED  BY <1>2, <1>4, <1>5, <1>6, <1>7, <1>8 DEF InFile, SameDevices

LEMMA LoadOK ==
  ASSUME NEW f, InFile(f), NEW k \in Keys
  PROVE  InMemory(DecryptedAll(f, k)) /\ SameDevices(DecryptedAll(f, k), f)
<1>1. \A d \in DOMAIN f : /\ f[d] \in [ver : Nat, pw : FilePw]
                          /\ Decrypted(f[d].pw, k) \in PlainPw
  BY DecryptOK DEF InFile
<1>2. \A d \in DOMAIN f : DecryptedAll(f, k)[d] = [ver |-> f[d].ver, pw |-> Decrypted(f[d].pw, k)]
  BY <1>1 DEF DecryptedAll
<1>3. DOMAIN DecryptedAll(f, k) = DOMAIN f  BY DEF DecryptedAll
<1>4. DecryptedAll(f, k) \in [DOMAIN f -> [ver : Nat, pw : PlainPw]]
  <2>1. ASSUME NEW d \in DOMAIN f PROVE DecryptedAll(f, k)[d] \in [ver : Nat, pw : PlainPw]
    <3> DEFINE v == f[d].ver
               e == Decrypted(f[d].pw, k)
    <3>1. v \in Nat /\ e \in PlainPw /\ DecryptedAll(f, k)[d] = [ver |-> v, pw |-> e]  BY <1>1, <1>2
    <3> HIDE DEF v, e
    <3> QED  BY <3>1, RecordOK
  <2> DEFINE g == DecryptedAll(f, k)
  <2>2. g = [d \in DOMAIN f |-> g[d]]  BY DEF DecryptedAll
  <2>3. \A d \in DOMAIN f : g[d] \in [ver : Nat, pw : PlainPw]  BY <2>1
  <2> HIDE DEF g
  <2>4. g \in [DOMAIN f -> [ver : Nat, pw : PlainPw]]  BY <2>2, <2>3, IntoSet
  <2> QED  BY <2>4 DEF g
<1> QED  BY <1>2, <1>3, <1>4 DEF InMemory, SameDevices

\* What is plain already stays as it is.
LEMMA PlainStays ==
  ASSUME NEW f, InMemory(f), NEW k
  PROVE  DecryptedAll(f, k) = f
<1>1. \A d \in DOMAIN f : DecryptedAll(f, k)[d] = f[d]
  BY DEF InMemory, DecryptedAll, Decrypted, PlainPw
<1>2. DecryptedAll(f, k) = [d \in DOMAIN f |-> DecryptedAll(f, k)[d]]  BY DEF DecryptedAll
<1>3. f = [d \in DOMAIN f |-> f[d]]  BY DEF InMemory
<1> QED  BY <1>1, <1>2, <1>3

LEMMA EmptyOK == InMemory(Empty) /\ InFile(Empty) /\ DOMAIN Empty = {}
BY DEF Empty, InMemory, InFile

\* Two configurations without devices are the same.
LEMMA NoDevices ==
  ASSUME NEW f, InMemory(f), DOMAIN f = {}
  PROVE  f = Empty
BY DEF InMemory, Empty

LEMMA SameTransitive ==
  ASSUME NEW f, NEW g, NEW h, SameDevices(f, g), SameDevices(g, h)
  PROVE  SameDevices(f, h)
BY DEF SameDevices

Pending == {<<>>, <<"app">>, <<"devices">>, <<"app", "devices">>}
PendDevices == saving \in {<<"devices">>, <<"app", "devices">>}
PendApp == saving \in {<<"app">>, <<"app", "devices">>}

\* The types of the configuration, and when there is something to save.
ConfigInv ==
  /\ key \in Keys /\ changes \in Nat /\ CausesOK
  /\ InMemory(devices) /\ InMemory(wanted) /\ InFile(devFile.devices)
  /\ saving \in Pending
  /\ opened => saving # <<>>
  /\ phase # "up" => saving = <<>>

\* The files are written one after the other.
LEMMA SavesInOrder ==
  ASSUME saving \in Pending, saving # <<>>
  PROVE  /\ Tail(saving) \in Pending
         /\ Head(saving) = "app" => PendApp /\ Tail(saving) \notin {<<"app">>, <<"app", "devices">>}
                                    /\ (PendDevices <=> Tail(saving) = <<"devices">>)
         /\ Head(saving) # "app" => PendDevices /\ ~PendApp /\ Tail(saving) = <<>>
<1>1. CASE saving = <<"app">>
  <2>1. Head(saving) = "app" /\ Tail(saving) = <<>>  BY <1>1
  <2> QED  BY <1>1, <2>1 DEF Pending, PendApp, PendDevices
<1>2. CASE saving = <<"devices">>
  <2>1. Head(saving) = "devices" /\ Tail(saving) = <<>>  BY <1>2
  <2> QED  BY <1>2, <2>1 DEF Pending, PendApp, PendDevices
<1>3. CASE saving = <<"app", "devices">>
  <2>1. Head(saving) = "app" /\ Tail(saving) = <<"devices">>  BY <1>3
  <2> QED  BY <1>3, <2>1 DEF Pending, PendApp, PendDevices
<1> QED  BY <1>1, <1>2, <1>3 DEF Pending

\* What the operations put in place of the devices is a configuration in memory.
LEMMA ChangesOK ==
  ASSUME NEW f, InMemory(f), NEW n \in Nat
  PROVE  /\ \A d \in Devices : InMemory(With(f, d, [ver |-> 0, pw |-> Plain("s")]))
         /\ \A d : InMemory(Without(f, d))
         /\ \A d \in DOMAIN f : InMemory([f EXCEPT ![d].ver = n])
<1>1. \A d \in DOMAIN f : f[d] \in [ver : Nat, pw : PlainPw]  BY DEF InMemory
<1>2. [ver |-> 0, pw |-> Plain("s")] \in [ver : Nat, pw : PlainPw]
  <2>1. Plain("s") \in PlainPw  BY DEF Plain, PlainPw
  <2> QED  BY <2>1, RecordOK
<1>3. ASSUME NEW d \in Devices
      PROVE  InMemory(With(f, d, [ver |-> 0, pw |-> Plain("s")]))
  <2> DEFINE c == [ver |-> 0, pw |-> Plain("s")]
             g == With(f, d, c)
  <2>1. g = [e \in DOMAIN f \cup {d} |-> IF e = d THEN c ELSE f[e]]  BY DEF With
  <2>2. c \in [ver : Nat, pw : PlainPw]  BY <1>2
  <2> HIDE DEF c, g
  <2>3. DOMAIN g = DOMAIN f \cup {d} /\ g = [e \in DOMAIN g |-> g[e]]  BY <2>1
  <2>4. \A e \in DOMAIN g : g[e] \in [ver : Nat, pw : PlainPw]  BY <1>1, <2>1, <2>2
  <2>5. InMemory(g)  BY <2>3, <2>4, IntoSet DEF InMemory
  <2> QED  BY <2>5 DEF g, c
<1>4. ASSUME NEW d PROVE InMemory(Without(f, d))
  <2> DEFINE g == Without(f, d)
  <2>1. g = [e \in DOMAIN f \ {d} |-> f[e]]  BY DEF Without
  <2> HIDE DEF g
  <2>2. g = [e \in DOMAIN g |-> g[e]] /\ \A e \in DOMAIN g : g[e] \in [ver : Nat, pw : PlainPw]
    BY <1>1, <2>1
  <2>3. InMemory(g)  BY <2>2, IntoSet DEF InMemory
  <2> QED  BY <2>3 DEF g
<1>5. ASSUME NEW d \in DOMAIN f PROVE InMemory([f EXCEPT ![d].ver = n])
  <2>1. [f[d] EXCEPT !.ver = n] \in [ver : Nat, pw : PlainPw]  BY <1>1
  <2>2. [f EXCEPT ![d].ver = n] = [f EXCEPT ![d] = [f[d] EXCEPT !.ver = n]]  BY DEF InMemory
  <2>3. [f EXCEPT ![d] = [f[d] EXCEPT !.ver = n]] \in [DOMAIN f -> [ver : Nat, pw : PlainPw]]
    BY <2>1 DEF InMemory
  <2> QED  BY <2>2, <2>3 DEF InMemory
<1> QED  BY <1>3, <1>4, <1>5

\* So is what an import reads, and decrypting it changes nothing.
LEMMA ImportOK ==
  ASSUME InMemory(devices), NEW n \in Nat, NEW D \in SUBSET Devices, NEW text \in {"s", "<redacted>"},
         NEW new,
         new = [d \in D |-> [ver |-> n, pw |-> IF text = "<redacted>" /\ d \in DOMAIN devices
                                               THEN devices[d].pw ELSE Plain(text)]]
  PROVE  InMemory(new) /\ DecryptedAll(new, key) = new
<1>1. Plain(text) \in PlainPw  BY DEF Plain, PlainPw
<1>2. \A d \in DOMAIN devices : devices[d].pw \in PlainPw  BY DEF InMemory
<1>3. \A d \in D : new[d] \in [ver : Nat, pw : PlainPw]
  <2> SUFFICES ASSUME NEW d \in D PROVE new[d] \in [ver : Nat, pw : PlainPw]  OBVIOUS
  <2> DEFINE p == IF text = "<redacted>" /\ d \in DOMAIN devices THEN devices[d].pw ELSE Plain(text)
  <2>1. p \in PlainPw  BY <1>1, <1>2
  <2>2. new[d] = [ver |-> n, pw |-> p]  OBVIOUS
  <2> HIDE DEF p
  <2> QED  BY <2>1, <2>2, RecordOK
<1>4. DOMAIN new = D /\ new = [d \in D |-> new[d]]  OBVIOUS
<1>5. InMemory(new)  BY <1>3, <1>4, IntoSet DEF InMemory
<1> QED  BY <1>5, PlainStays

LEMMA ConfigStep == ConfigInv /\ [Next]_vars => ConfigInv'
<1> SUFFICES ASSUME ConfigInv, [Next]_vars PROVE ConfigInv'  OBVIOUS
<1> USE DEF ConfigInv
<1>1. cause' \in Causes  BY CauseStep DEF CausesOK
<1>2. CASE OpenFile
  <2>1. UNCHANGED <<key, changes, devices, wanted, saving, phase>>
    BY <1>2 DEF OpenFile, memory, history, accounts
  <2>2. devFile' = devFile \/ devFile'.devices = Empty  BY <1>2 DEF OpenFile, Torn
  <2>3. saving # <<>>  BY <1>2 DEF OpenFile
  <2> QED  BY <1>1, <2>1, <2>2, <2>3, EmptyOK DEF CausesOK
<1>3. CASE WriteFile
  <2>1. UNCHANGED <<key, changes, devices, wanted, phase>> /\ opened' = FALSE /\ saving' = Tail(saving)
    BY <1>3 DEF WriteFile, memory, history, accounts
  <2>2. saving # <<>>  BY <1>3 DEF WriteFile
  <2>3. devFile' = devFile \/ devFile'.devices = Protected(devices)  BY <1>3 DEF WriteFile
  <2>4. InFile(devFile'.devices)  BY <2>3, ProtectOK
  <2> QED  BY <1>1, <2>1, <2>2, <2>4, SavesInOrder DEF CausesOK
<1>4. CASE Boot
  <2>1. key' \in Keys /\ UNCHANGED <<devFile, wanted, changes>> /\ saving' = <<>> /\ opened' = FALSE
    BY <1>4 DEF Boot
  <2>2. devices' = Empty \/ devices' = DecryptedAll(devFile.devices, key')  BY <1>4 DEF Boot
  <2>3. InMemory(devices')  BY <2>1, <2>2, EmptyOK, LoadOK
  <2> QED  BY <1>1, <2>1, <2>3 DEF CausesOK, Pending
<1>5. CASE Login
  <2>1. phase = "login"  BY <1>5 DEF Login, LoginSucceeds, LoginRefused, LoginFails
  <2>2. UNCHANGED <<devices, devFile, opened, key, wanted>> /\ changes' \in {changes, changes + 1}
    BY <1>5 DEF Login, memory, Counted
  <2>3. saving' \in {<<>>, <<"app">>} /\ (phase' # "up" => saving' = <<>>)  BY <1>5 DEF Login
  <2>4. saving = <<>>  BY <2>1
  <2> QED  BY <1>1, <2>2, <2>3, <2>4 DEF CausesOK, Pending
<1>6. CASE End
  <2>1. UNCHANGED <<devices, devFile, key, wanted, changes>> /\ saving' = <<>> /\ opened' = FALSE
    BY <1>6 DEF End, memory
  <2> QED  BY <1>1, <2>1 DEF CausesOK, Pending
<1>7. CASE Sessions \/ Tick
  <2>1. UNCHANGED <<devices, devFile, saving, opened, key, wanted>> /\ changes' \in {changes, changes + 1}
    BY <1>7 DEF Sessions, Tick, memory, files, history, Counted
  <2>2. saving = <<>>  BY <1>7 DEF Sessions, Tick
  <2> QED  BY <1>1, <2>1, <2>2 DEF CausesOK
<1>8. ASSUME NEW d \in Devices, AddDevice(d) \/ RemoveDevice(d) \/ UpdateDevice(d)
      PROVE  ConfigInv'
  <2>1. /\ saving = <<>> /\ phase = "up" /\ phase' = phase /\ saving' = <<"devices">>
        /\ changes' = changes + 1 /\ UNCHANGED <<devFile, opened, key>> /\ wanted' = devices'
    BY <1>8 DEF AddDevice, RemoveDevice, UpdateDevice, ChangesDevices, Counts, Counted, Idle
  <2>2. changes + 1 \in Nat  OBVIOUS
  <2>3. InMemory(devices')
    BY <1>8, <2>1, <2>2, ChangesOK DEF AddDevice, RemoveDevice, UpdateDevice, ChangesDevices
  <2> QED  BY <1>1, <2>1, <2>2, <2>3 DEF CausesOK, Pending
<1>9. ASSUME NEW d \in Devices, UpdateBreaks(d) \/ StartDevice(d) \/ StopDevice(d) \/ SwitchMode(d)
      PROVE  ConfigInv'
  <2>1. /\ saving = <<>> /\ UNCHANGED <<phase, saving, opened, key, devFile, wanted>>
        /\ changes' \in {changes, changes + 1}
    BY <1>9 DEF UpdateBreaks, StartDevice, StopDevice, SwitchMode, Counts, Counted, Idle, files, history,
       accounts
  <2>2. changes + 1 \in Nat  OBVIOUS
  <2>3. InMemory(devices')
    BY <1>9, <2>1, <2>2, ChangesOK DEF UpdateBreaks, StartDevice, StopDevice, SwitchMode, memory, Counts, Counted
  <2> QED  BY <1>1, <2>1, <2>2, <2>3 DEF CausesOK
<1>10. CASE SaveSettings \/ SetLevel
  <2>1. /\ saving = <<>> /\ phase = "up" /\ phase' = phase /\ saving' = <<"app">>
        /\ changes' = changes + 1 /\ UNCHANGED <<devices, devFile, opened, key, wanted>>
    BY <1>10 DEF SaveSettings, SetLevel, Counts, Counted, Idle, memory, accounts
  <2> QED  BY <1>1, <2>1 DEF CausesOK, Pending
<1>14. CASE SaveSettingsRefused
  <2>1. /\ saving = <<>> /\ phase' = phase /\ changes' = changes + 1
        /\ UNCHANGED <<devices, devFile, opened, key, wanted, saving>>
    BY <1>14 DEF SaveSettingsRefused, Counts, Counted, Idle, files
  <2> QED  BY <1>1, <2>1 DEF CausesOK
<1>11. CASE RestoreDefaults
  <2>1. /\ saving = <<>> /\ phase = "up" /\ phase' = phase /\ saving' = <<"app", "devices">>
        /\ changes' = changes + 1 /\ UNCHANGED <<devFile, opened, key>>
        /\ devices' = Empty /\ wanted' = Empty
    BY <1>11 DEF RestoreDefaults, Counts, Counted, Idle
  <2> QED  BY <1>1, <2>1, EmptyOK DEF CausesOK, Pending
<1>12. CASE Import
  <2>1. /\ saving = <<>> /\ phase = "up" /\ phase' = phase
        /\ changes' = changes + 1 /\ UNCHANGED <<devFile, opened, key>>
    BY <1>12 DEF Import, Counts, Counted, Idle
  <2>2. PICK D \in SUBSET Devices, text \in {"s", "<redacted>"}, breaks \in BOOLEAN :
          LET new == [d \in D |-> Imported(d, text)]
          IN  /\ devices' = IF breaks THEN new ELSE DecryptedAll(new, key)
              /\ IF breaks THEN UNCHANGED <<wanted, saving>>
                 ELSE wanted' = new /\ saving' = <<"app", "devices">>
    BY <1>12 DEF Import
  <2> DEFINE new == [d \in D |-> Imported(d, text)]
             n == changes'
  <2>a. n \in Nat  BY <2>1
  <2>b. new = [d \in D |-> [ver |-> n, pw |-> IF text = "<redacted>" /\ d \in DOMAIN devices
                                             THEN devices[d].pw ELSE Plain(text)]]
    BY DEF Imported
  <2>3. InMemory(new) /\ DecryptedAll(new, key) = new
    <3> HIDE DEF new, n
    <3> QED  BY <2>a, <2>b, ImportOK
  <2>4. InMemory(devices') /\ InMemory(wanted') /\ saving' \in {<<>>, <<"app", "devices">>}
    BY <2>1, <2>2, <2>3
  <2> QED  BY <1>1, <2>1, <2>4 DEF CausesOK, Pending
<1>13. CASE UNCHANGED vars
  BY <1>1, <1>13 DEF vars, accounts, memory, files, history, CausesOK
<1> QED
  BY <1>2, <1>3, <1>4, <1>5, <1>6, <1>7, <1>8, <1>9, <1>10, <1>11, <1>12, <1>13, <1>14
  DEF Next, Operations

\* While the process runs, memory is what the user saved, except a mode that was switched.
MemoryKept ==
  phase # "down" => /\ SameBut(devices, wanted, switched)
                    /\ wantedApp = "set" => app = "set"

\* So is a file that is not about to be written.
DevicesKept ==
  \/ PendDevices
  \/ SameDevices(devFile.devices, wanted) /\ (devFile.state = "whole" \/ DOMAIN wanted = {})
AppKept == PendApp \/ wantedApp # "set" \/ (appFile.state = "whole" /\ appFile.app = "set")

\* With the key unchanged the secrets are in memory and in the file, too.
SecretsKept ==
  ~cause.rekeyed => /\ SameSecrets(devices, wanted)
                    /\ PendDevices \/ devFile.devices = Protected(wanted)

\* What is about to be written is what the user saved.
PendingKept == PendDevices => devices = wanted /\ switched = {}

\* All that, unless a save or an edit broke off.
LossInv ==
  ~cause.torn /\ ~cause.half => MemoryKept /\ DevicesKept /\ AppKept /\ SecretsKept /\ PendingKept

\* What makes a step leave all of it as it is.
LEMMA LossFrame ==
  ASSUME LossInv, cause \in Causes, [Next]_vars,
         UNCHANGED <<app, devices, appFile, devFile, key, wanted, switched, wantedApp>>,
         phase = "down" => phase' = "down", PendDevices' <=> PendDevices, PendApp => PendApp'
  PROVE  LossInv'
<1>1. /\ cause.torn => cause'.torn
      /\ cause.half => cause'.half
      /\ cause.rekeyed => cause'.rekeyed
  BY CauseStep
<1>2. Protected(wanted)' = Protected(wanted)  BY DEF Protected, Encrypted
<1> QED  BY <1>1, <1>2 DEF LossInv, MemoryKept, DevicesKept, AppKept, SecretsKept, PendingKept

\* A step that puts other devices in place, in memory and for the user, and saves them.
LEMMA LossChange ==
  ASSUME wanted' = devices', switched' = {}, PendDevices',
         wantedApp' = "set" => app' = "set",
         AppKept'
  PROVE  LossInv'
<1> QED  BY DEF SameBut, SameSecrets, LossInv, MemoryKept, DevicesKept, SecretsKept, PendingKept

LEMMA LossStep == ConfigInv /\ LossInv /\ [Next]_vars => LossInv'
<1> SUFFICES ASSUME ConfigInv, LossInv, [Next]_vars PROVE LossInv'  OBVIOUS
<1>1. /\ cause \in Causes /\ cause' \in Causes
      /\ cause.torn => cause'.torn
      /\ cause.half => cause'.half
      /\ cause.rekeyed => cause'.rekeyed
      /\ key \in Keys /\ InMemory(devices) /\ InMemory(wanted) /\ InFile(devFile.devices)
      /\ saving \in Pending /\ (phase # "up" => saving = <<>>)
  BY CauseStep DEF ConfigInv, CausesOK
<1>2. CASE OpenFile
  <2>1. saving # <<>> /\ UNCHANGED <<app, devices, saving, phase, key, wanted, switched, wantedApp>>
    BY <1>2 DEF OpenFile, memory, history, accounts
  <2>2. Protected(wanted)' = Protected(wanted)  BY <2>1 DEF Protected, Encrypted
  <2>3. CASE Head(saving) = "app"
    <3>1. devFile' = devFile /\ PendApp' /\ (PendDevices' <=> PendDevices)
      BY <1>1, <1>2, <2>1, <2>3, SavesInOrder DEF OpenFile, PendApp, PendDevices
    <3> QED
      BY <1>1, <2>1, <2>2, <3>1 DEF LossInv, MemoryKept, DevicesKept, AppKept, SecretsKept, PendingKept
  <2>4. CASE Head(saving) # "app"
    <3>1. appFile' = appFile /\ PendDevices' /\ PendDevices /\ (PendApp' <=> PendApp)
      BY <1>1, <1>2, <2>1, <2>4, SavesInOrder DEF OpenFile, PendApp, PendDevices
    <3> QED
      BY <1>1, <2>1, <2>2, <3>1 DEF LossInv, MemoryKept, DevicesKept, AppKept, SecretsKept, PendingKept
  <2> QED  BY <2>3, <2>4
<1>3. CASE WriteFile
  <2>0. opened /\ saving' = Tail(saving) /\ UNCHANGED <<app, devices, phase, key, wanted, switched, wantedApp>>
    BY <1>3 DEF WriteFile, memory, history, accounts
  <2>1. saving # <<>> /\ phase = "up"  BY <1>1, <2>0 DEF ConfigInv
  <2>2. Protected(wanted)' = Protected(wanted)  BY <2>0 DEF Protected, Encrypted
  <2>3. CASE Head(saving) = "app"
    <3>1. devFile' = devFile /\ (PendDevices <=> PendDevices')
      BY <1>1, <1>3, <2>0, <2>1, <2>3, SavesInOrder DEF WriteFile, PendDevices
    <3>2. appFile'.state = "whole" /\ appFile'.app = app  BY <1>3, <2>3 DEF WriteFile
    <3> QED
      BY <1>1, <2>0, <2>1, <2>2, <3>1, <3>2 DEF LossInv, MemoryKept, DevicesKept, AppKept, SecretsKept, PendingKept
  <2>4. CASE Head(saving) # "app"
    <3>1. appFile' = appFile /\ ~PendApp
      BY <1>1, <1>3, <2>1, <2>4, SavesInOrder DEF WriteFile
    <3>2. devFile'.state = "whole" /\ devFile'.devices = Protected(devices)  BY <1>3, <2>4 DEF WriteFile
    <3>3. SameDevices(Protected(devices), devices) /\ PendDevices
      BY <1>1, <2>1, <2>4, ProtectOK, SavesInOrder
    <3>4. ~PendDevices'
      BY <1>1, <2>0, <2>1, <2>4, SavesInOrder DEF PendDevices
    <3>5. cause' = cause  BY <1>3 DEF WriteFile, history
    <3> SUFFICES ASSUME ~cause.torn, ~cause.half PROVE LossInv'  BY <3>5 DEF LossInv
    <3>6. MemoryKept /\ AppKept /\ devices = wanted  BY <3>3 DEF LossInv, PendingKept
    <3>7. MemoryKept'  BY <2>0, <3>6 DEF MemoryKept
    <3>8. DevicesKept'  BY <2>0, <3>2, <3>3, <3>6 DEF DevicesKept
    <3>9. AppKept'  BY <2>0, <3>1, <3>6 DEF AppKept
    <3>10. SecretsKept'  BY <2>0, <2>2, <3>2, <3>6 DEF SecretsKept, SameSecrets
    <3>11. PendingKept'  BY <3>4 DEF PendingKept
    <3> QED  BY <3>7, <3>8, <3>9, <3>10, <3>11 DEF LossInv
  <2> QED  BY <2>3, <2>4
<1>4. CASE Boot
  <2>1. /\ phase = "down" /\ saving' = <<>> /\ key' \in Keys
        /\ UNCHANGED <<appFile, devFile, wanted, wantedApp>> /\ switched' = {}
        /\ app' = (IF appFile.state = "whole" THEN appFile.app ELSE "default")
        /\ devices' = (IF devFile.state = "whole" THEN DecryptedAll(devFile.devices, key') ELSE Empty)
        /\ cause' = [cause EXCEPT !.rekeyed = @ \/ key' # key, !.replaced = FALSE]
    BY <1>4 DEF Boot, Boots
  <2>2. ~PendDevices /\ ~PendApp  BY <1>1, <2>1 DEF PendDevices, PendApp
  <2> SUFFICES ASSUME ~cause'.torn, ~cause'.half
               PROVE  MemoryKept' /\ DevicesKept' /\ AppKept' /\ SecretsKept' /\ PendingKept'
    BY DEF LossInv
  <2>3. DevicesKept /\ AppKept /\ SecretsKept  BY <1>1 DEF LossInv
  <2>4. SameDevices(devFile.devices, wanted) /\ (devFile.state = "whole" \/ DOMAIN wanted = {})
    BY <2>2, <2>3 DEF DevicesKept
  <2>5. DevicesKept'  BY <2>1, <2>4 DEF DevicesKept
  <2>6. AppKept' /\ (wantedApp' = "set" => app' = "set")  BY <2>1, <2>2, <2>3 DEF AppKept
  <2>7. SameDevices(devices', wanted)
    <3>1. CASE devFile.state = "whole"
      <4>1. SameDevices(DecryptedAll(devFile.devices, key'), devFile.devices)
        BY <1>1, <2>1, LoadOK
      <4> QED  BY <2>1, <2>4, <3>1, <4>1, SameTransitive
    <3>2. CASE devFile.state # "whole"
      BY <2>1, <2>4, <3>2, EmptyOK DEF SameDevices
    <3> QED  BY <3>1, <3>2
  <2>8. SecretsKept'
    <3> SUFFICES ASSUME ~cause'.rekeyed
                 PROVE  devices' = wanted' /\ devFile'.devices = Protected(wanted)'
      BY DEF SecretsKept, SameSecrets
    <3>1. key' = key /\ ~cause.rekeyed
      <4> DEFINE b == cause.rekeyed \/ key' # key
      <4>1. cause' = [cause EXCEPT !.rekeyed = b, !.replaced = FALSE]  BY <2>1
      <4> HIDE DEF b
      <4>2. ~b  BY <1>1, <4>1 DEF Causes
      <4> QED  BY <4>2 DEF b
    <3>2. Protected(wanted)' = Protected(wanted)  BY <2>1, <3>1 DEF Protected, Encrypted
    <3>3. devFile.devices = Protected(wanted)  BY <2>2, <2>3, <3>1 DEF SecretsKept
    <3>4. CASE devFile.state = "whole"
      BY <1>1, <2>1, <3>1, <3>2, <3>3, <3>4, ProtectOK
    <3>5. CASE devFile.state # "whole"
      <4>1. wanted = Empty  BY <1>1, <2>4, <3>5, NoDevices
      <4> QED  BY <2>1, <3>2, <3>3, <3>5, <4>1
    <3> QED  BY <3>4, <3>5
  <2>9. MemoryKept'  BY <2>1, <2>6, <2>7 DEF MemoryKept, SameBut, SameDevices
  <2>10. PendingKept'  BY <2>1 DEF PendingKept, PendDevices
  <2> QED  BY <2>5, <2>6, <2>8, <2>9, <2>10
<1>5. CASE Login
  <2>1. phase = "login" /\ saving' \in {<<>>, <<"app">>}
        /\ UNCHANGED <<app, devices, appFile, devFile, key, wanted, switched, wantedApp>>
    BY <1>5 DEF Login, LoginSucceeds, LoginRefused, LoginFails, memory
  <2>2. saving = <<>>  BY <1>1, <2>1
  <2> QED  BY <1>1, <2>1, <2>2, LossFrame DEF PendDevices, PendApp
<1>6. CASE End
  <2>1. UNCHANGED <<app, devices, appFile, devFile, key, wanted, switched, wantedApp>> /\ saving' = <<>>
        /\ phase' = "down" /\ cause' = [cause EXCEPT !.torn = @ \/ opened \/ saving # <<>>]
    BY <1>6 DEF End, Ends, memory
  <2>2. CASE saving = <<>>  BY <1>1, <2>1, <2>2, LossFrame DEF PendDevices, PendApp
  <2>3. CASE saving # <<>>
    <3>1. cause'.torn  BY <1>1, <2>1, <2>3 DEF Causes
    <3> QED  BY <3>1 DEF LossInv
  <2> QED  BY <2>2, <2>3
<1>7. CASE Sessions \/ Tick
  <2>1. UNCHANGED <<app, devices, appFile, devFile, key, wanted, switched, wantedApp, saving>>
    BY <1>7 DEF Sessions, Tick, memory, files, history
  <2>2. phase' = phase
    BY <1>7 DEF Sessions, Tick, RemoveUser, AddUser, Refused, Logout, ChangePassword, Passes
  <2> QED  BY <1>1, <2>1, <2>2, LossFrame DEF PendDevices, PendApp
<1>8. ASSUME NEW d \in Devices, AddDevice(d) \/ RemoveDevice(d) \/ UpdateDevice(d)
      PROVE  LossInv'
  <2>1. /\ saving = <<>> /\ phase = "up" /\ phase' = phase /\ saving' = <<"devices">>
        /\ UNCHANGED <<app, appFile, wantedApp, cause>> /\ wanted' = devices' /\ switched' = {}
    BY <1>8 DEF AddDevice, RemoveDevice, UpdateDevice, ChangesDevices, Counts, Counted, Idle
  <2>2. CASE cause.torn \/ cause.half  BY <2>1, <2>2 DEF LossInv
  <2>3. CASE ~cause.torn /\ ~cause.half
    <3>1. PendDevices' /\ ~PendApp  BY <2>1 DEF PendDevices, PendApp
    <3>2. AppKept' /\ (wantedApp' = "set" => app' = "set")
      BY <2>1, <2>3, <3>1 DEF LossInv, MemoryKept, AppKept
    <3> QED  BY <2>1, <3>1, <3>2, LossChange
  <2> QED  BY <2>2, <2>3
<1>9. ASSUME NEW d \in Devices, UpdateBreaks(d)
      PROVE  LossInv'
  <2>1. cause' = [cause EXCEPT !.half = TRUE]  BY <1>9 DEF UpdateBreaks
  <2>2. cause'.half  BY <1>1, <2>1 DEF Causes
  <2> QED  BY <2>2 DEF LossInv
<1>10. ASSUME NEW d \in Devices, StartDevice(d) \/ StopDevice(d)
       PROVE  LossInv'
  <2>1. UNCHANGED <<app, devices, appFile, devFile, key, wanted, switched, wantedApp, saving, phase>>
    BY <1>10 DEF StartDevice, StopDevice, memory, files, history
  <2> QED  BY <1>1, <2>1, LossFrame DEF PendDevices, PendApp
<1>16. ASSUME NEW d \in Devices, SwitchMode(d)
       PROVE  LossInv'
  <2>1. /\ UNCHANGED <<app, appFile, devFile, key, wanted, wantedApp, saving, phase, cause>>
        /\ saving = <<>> /\ d \in DOMAIN devices
        /\ devices' = [devices EXCEPT ![d].ver = changes'] /\ switched' = switched \cup {d}
    BY <1>16 DEF SwitchMode, files, accounts, Counts, Idle
  <2>2. ~PendDevices /\ ~PendDevices' /\ (PendApp' <=> PendApp)
    BY <2>1 DEF PendDevices, PendApp
  <2>3. DOMAIN devices' = DOMAIN devices /\ \A e \in DOMAIN devices \ {d} : devices'[e] = devices[e]
    BY <2>1
  <2>4. devices'[d].pw = devices[d].pw  BY <1>1, <2>1 DEF InMemory
  <2>5. SameBut(devices, wanted, switched) => SameBut(devices', wanted', switched')
    BY <2>1, <2>3 DEF SameBut
  <2>6. SameSecrets(devices, wanted) => SameSecrets(devices', wanted')
    BY <2>1, <2>3, <2>4 DEF SameSecrets
  <2>7. Protected(wanted)' = Protected(wanted)  BY <2>1 DEF Protected, Encrypted
  <2> QED
    BY <2>1, <2>2, <2>5, <2>6, <2>7 DEF LossInv, MemoryKept, DevicesKept, AppKept, SecretsKept, PendingKept
<1>17. CASE SaveSettingsRefused
  <2>1. /\ UNCHANGED <<devices, appFile, devFile, key, wanted, switched, wantedApp, saving, phase, cause>>
        /\ saving = <<>> /\ app' = "set"
    BY <1>17 DEF SaveSettingsRefused, files, Counts, Idle
  <2>2. ~PendDevices /\ ~PendDevices' /\ (PendApp' <=> PendApp)
    BY <2>1 DEF PendDevices, PendApp
  <2>3. Protected(wanted)' = Protected(wanted)  BY <2>1 DEF Protected, Encrypted
  <2> QED
    BY <2>1, <2>2, <2>3 DEF LossInv, MemoryKept, DevicesKept, AppKept, SecretsKept, PendingKept
<1>11. CASE SetLevel
  <2>1. UNCHANGED <<app, devices, appFile, devFile, key, wanted, switched, wantedApp, phase>>
        /\ saving = <<>> /\ saving' = <<"app">>
    BY <1>11 DEF SetLevel, memory, accounts, Counts, Idle
  <2> QED  BY <1>1, <2>1, LossFrame DEF PendDevices, PendApp
<1>12. CASE SaveSettings
  <2>1. /\ saving = <<>> /\ saving' = <<"app">> /\ app' = "set" /\ wantedApp' = "set"
        /\ UNCHANGED <<devices, devFile, key, wanted, switched, phase, cause>>
    BY <1>12 DEF SaveSettings, Counts, Idle
  <2>2. Protected(wanted)' = Protected(wanted)  BY <2>1 DEF Protected, Encrypted
  <2>3. PendApp' /\ ~PendDevices /\ ~PendDevices'  BY <2>1 DEF PendDevices, PendApp
  <2> QED
    BY <2>1, <2>2, <2>3 DEF LossInv, MemoryKept, DevicesKept, AppKept, SecretsKept, PendingKept
<1>13. CASE RestoreDefaults
  <2>1. /\ saving' = <<"app", "devices">> /\ app' = "default" /\ wantedApp' = "default"
        /\ devices' = Empty /\ wanted' = Empty /\ switched' = {}
    BY <1>13 DEF RestoreDefaults
  <2> QED  BY <2>1, LossChange DEF PendDevices, PendApp, AppKept
<1>14. CASE Import
  <2>1. PICK D \in SUBSET Devices, text \in {"s", "<redacted>"}, breaks \in BOOLEAN :
          LET new == [d \in D |-> Imported(d, text)]
          IN  /\ app' = "set" /\ devices' = IF breaks THEN new ELSE DecryptedAll(new, key)
              /\ cause' = [cause EXCEPT !.replaced = TRUE, !.half = @ \/ breaks,
                                        !.redacted = @ \/ text = "<redacted>"]
              /\ IF breaks THEN UNCHANGED <<wanted, wantedApp, saving>>
                 ELSE wanted' = new /\ wantedApp' = "set" /\ saving' = <<"app", "devices">>
    BY <1>14 DEF Import
  <2>2. CASE breaks
    <3> DEFINE c == cause.redacted \/ text = "<redacted>"
    <3>1. cause' = [cause EXCEPT !.replaced = TRUE, !.half = TRUE, !.redacted = c]
      BY <2>1, <2>2
    <3> HIDE DEF c
    <3>2. cause'.half  BY <1>1, <3>1 DEF Causes
    <3> QED  BY <3>2 DEF LossInv
  <2>3. CASE ~breaks
    <3> DEFINE new == [d \in D |-> Imported(d, text)]
               n == changes'
    <3>1. n \in Nat  BY <1>14 DEF Import, Counts, Counted, ConfigInv
    <3>2. new = [d \in D |-> [ver |-> n, pw |-> IF text = "<redacted>" /\ d \in DOMAIN devices
                                               THEN devices[d].pw ELSE Plain(text)]]
      BY DEF Imported
    <3>3. DecryptedAll(new, key) = new
      <4> HIDE DEF new, n
      <4> QED  BY <1>1, <3>1, <3>2, ImportOK
    <3>4. wanted' = devices' /\ switched' = {} /\ app' = "set" /\ saving' = <<"app", "devices">>
      BY <1>14, <2>1, <2>3, <3>3 DEF Import
    <3> QED  BY <3>4, LossChange DEF PendDevices, PendApp, AppKept
  <2> QED  BY <2>2, <2>3
<1>15. CASE UNCHANGED vars
  <2>1. UNCHANGED <<app, devices, appFile, devFile, key, wanted, switched, wantedApp, saving, phase>>
    BY <1>15 DEF vars, accounts, memory, files, history
  <2> QED  BY <1>1, <2>1, LossFrame DEF PendDevices, PendApp
<1> QED
  BY <1>2, <1>3, <1>4, <1>5, <1>6, <1>7, <1>8, <1>9, <1>10, <1>11, <1>12, <1>13, <1>14, <1>15,
     <1>16, <1>17
  DEF Next, Operations

LEMMA ConfigInit == Init => ConfigInv /\ LossInv
<1> SUFFICES ASSUME Init PROVE ConfigInv /\ LossInv  OBVIOUS
<1>1. /\ phase = "down" /\ app = "default" /\ devices = Empty /\ appFile = Absent /\ devFile = Absent
      /\ saving = <<>> /\ opened = FALSE /\ key = "k1"
      /\ wanted = Empty /\ switched = {} /\ wantedApp = "default" /\ changes = 0 /\ cause = NoCause
  BY DEF Init, AccountsInit
<1>2. devFile.devices = Empty  BY <1>1 DEF Absent
<1>3. ConfigInv  BY <1>1, <1>2, EmptyOK DEF ConfigInv, CausesOK, Causes, NoCause, Keys, Pending
<1>4. Protected(Empty) = Empty  BY DEF Protected, Empty
<1>5. LossInv
  BY <1>1, <1>2, <1>4, EmptyOK DEF LossInv, MemoryKept, DevicesKept, AppKept, SecretsKept, PendingKept, PendDevices,
     SameDevices, SameBut, SameSecrets
<1> QED  BY <1>3, <1>5

LEMMA ConfigAlways == Spec => [](ConfigInv /\ LossInv)
BY ConfigInit, ConfigStep, LossStep, PTL DEF Spec

\* The accounts and the configuration have their types (auth.py:20, config_manager.py:392).
THEOREM AdministrationTypeCorrect == Spec => [](AccountsTypeOK /\ ConfigInv)
BY AccountsTypeCorrect, ConfigAlways, PTL

\* What the user saved is what a restart finds and, apart from a mode that was switched,
\* what the process works with, unless a save or an edit broke off (config_manager.py:447).
THEOREM ConfigurationSurvives == Spec => []NothingIsLost
<1>1. ConfigInv /\ LossInv => NothingIsLost
  BY DEF ConfigInv, LossInv, MemoryKept, DevicesKept, AppKept, PendDevices, PendApp, SameDevices, SameBut,
        NothingIsLost
<1> QED  BY <1>1, ConfigAlways, PTL

\* A secret is encrypted once in the file and plain in memory, and stays the one the user
\* gave while the key does (config_manager.py:386).
THEOREM SecretsAreKept == Spec => []SecretsSurvive
<1>1. ConfigInv /\ LossInv => SecretsSurvive
  <2> SUFFICES ASSUME ConfigInv, LossInv PROVE SecretsSurvive  OBVIOUS
  <2>1. ASSUME NEW d \in DOMAIN devFile.devices, devFile.devices[d].pw.text = "s"
        PROVE  Len(devFile.devices[d].pw.under) = 1
    <3>1. devFile.devices[d].pw \in FilePw  BY <2>1 DEF ConfigInv, InFile
    <3>2. devFile.devices[d].pw.under \in {<<"k1">>, <<"k2">>}  BY <2>1, <3>1 DEF FilePw
    <3> QED  BY <3>2
  <2>2. cause.torn \/ cause.half \/ cause.rekeyed \/ SameSecrets(devices, wanted)
    BY DEF LossInv, SecretsKept
  <2> QED  BY <2>1, <2>2 DEF SameSecrets, SecretsSurvive
<1> QED  BY <1>1, ConfigAlways, PTL

=============================================================================
