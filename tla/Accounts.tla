------------------------------- MODULE Accounts -------------------------------
(***************************************************************************)
(* routes/auth.rs and rate_limit.rs: accounts, the refresh tokens they are *)
(* given, and the counter that limits the attempts to log in.  A refresh   *)
(* token carries the version its account had when it was made; logout and  *)
(* a new password raise the version.  An access token is only signed and   *)
(* has no version: the owner of an account may have one whatever happened. *)
(***************************************************************************)
EXTENDS Requests

CONSTANTS
    Passwords,
    Idents,        \* what a user logs in with: the name or the e-mail
    MaxAttempts,   \* of one identifier, in one window
    AccountSeeds   \* the accounts a behaviour can start from

VARIABLES
    accounts,      \* the rows of users
    tokens,        \* history: the refresh tokens that were given out, with
                   \* the password that was verified for each
    counters,      \* the rows of rate_limit_counters: the count
    guesses,       \* history: passwords verified since the counter began
    straddled      \* history: counters that were reset, or whose window
                   \* ended, while an attempt they had let through ran

accountVars == <<accounts, tokens, counters, guesses, straddled>>

AccountRow == [status : {"none", "active"}, password : Passwords, version : Nat,
               role : BOOLEAN]
CounterKeys == Users \X Idents

ASSUME AccountsAssumption ==
    /\ MaxAttempts \in Nat \ {0}
    /\ \A m \in Menus : AccountSeeds[m.about] \subseteq [Users -> AccountRow]

AccountInit == \E seed \in AccountSeeds[menu.about] :
    /\ accounts = seed
    /\ tokens = {}
    /\ counters = [k \in CounterKeys |-> 0]
    /\ guesses = [k \in CounterKeys |-> 0]
    /\ straddled = {}

Token(u, version, password) ==
    [user |-> u, version |-> version, password |-> password]

SendAccount(p, op, u, arg, place) ==
    /\ Send(p, op, u, NoCase, NoCase, arg, "none", place)
    /\ UNCHANGED accountVars

-----------------------------------------------------------------------------
(* POST /auth/register.  The name and the e-mail are unique in the table;  *)
(* the first token has version 0.                                          *)
SendRegister(p) ==
    \E u \in Senders(p, "register"), w \in Passwords :
      SendAccount(p, "register", u, [password |-> w], "count_users")

CountUsers(p) ==
    /\ At(p, "count_users")
    /\ IF accounts[req[p].user].status # "none"
       THEN Refuse(p) ELSE Goto(p, "user_row")
    /\ UNCHANGED accountVars

InsertUser(p) ==
    /\ At(p, "user_row")
    /\ LET u == req[p].user IN
         IF accounts[u].status # "none"
         THEN UNCHANGED accounts /\ Refuse(p)
         ELSE /\ accounts' = [accounts EXCEPT ![u] =
                                [status |-> "active", password |-> req[p].arg.password,
                                 version |-> 0, role |-> FALSE]]
              /\ Carry(p, "role_row", Nothing)
    /\ UNCHANGED <<tokens, counters, guesses, straddled>>

InsertRole(p) ==
    /\ At(p, "role_row")
    /\ accounts' = [accounts EXCEPT ![req[p].user].role = TRUE]
    /\ tokens' = tokens \cup {Token(req[p].user, 0, req[p].arg.password)}
    /\ Succeed(p)
    /\ UNCHANGED <<counters, guesses, straddled>>

-----------------------------------------------------------------------------
(* POST /auth/login.  check_and_record is one statement; when it fails the *)
(* attempt is let through.  A window that has ended counts as no counter.  *)
SendLogin(p) ==
    \E u \in Senders(p, "login"), i \in Idents, w \in Passwords :
      SendAccount(p, "login", u, [ident |-> i, password |-> w], "count_attempt")

Key(p) == <<req[p].user, req[p].arg.ident>>
Begun == {"fetch_user", "fetch_version", "reset"}
Guessing(k) == {q \in Slots : req[q].at \in Begun /\ Key(q) = k}

FaultyCountAttempt(p) ==
    /\ At(p, "count_attempt")
    /\ counters' = [counters EXCEPT ![Key(p)] = @ + 1]
    /\ IF counters[Key(p)] > MaxAttempts THEN Refuse(p) ELSE Goto(p, "fetch_user")
    /\ UNCHANGED <<accounts, tokens, guesses, straddled>>

CountAttempt(p) ==
    /\ At(p, "count_attempt")
    /\ counters' = [counters EXCEPT ![Key(p)] = @ + 1]
    /\ IF counters'[Key(p)] > MaxAttempts THEN Refuse(p) ELSE Goto(p, "fetch_user")
    /\ UNCHANGED <<accounts, tokens, guesses, straddled>>

CountFails(p) ==
    /\ At(p, "count_attempt")
    /\ faults < menu.faults
    /\ req' = [req EXCEPT ![p].at = "fetch_user"]
    /\ faults' = faults + 1
    /\ straddled' = straddled \cup {Key(p)}
    /\ UNCHANGED <<keys, menu, left, crossed, broken, accounts, tokens, counters, guesses>>

(* The counter starts again, and what runs under the old one is noted.     *)
Restart(k) ==
    /\ counters' = [counters EXCEPT ![k] = 0]
    /\ guesses' = [guesses EXCEPT ![k] = 0]

WindowEnds(k) ==
    /\ counters[k] > 0
    /\ faults < menu.faults
    /\ Restart(k)
    /\ straddled' = IF Guessing(k) = {} THEN straddled ELSE straddled \cup {k}
    /\ faults' = faults + 1
    /\ UNCHANGED <<req, keys, menu, left, crossed, broken, accounts, tokens>>

FetchUser(p) ==
    /\ At(p, "fetch_user")
    /\ guesses' = [guesses EXCEPT ![Key(p)] = @ + 1]
    /\ LET row == accounts[req[p].user] IN
         IF row.status = "active" /\ row.password = req[p].arg.password
         THEN Goto(p, "fetch_version") ELSE Refuse(p)
    /\ UNCHANGED <<accounts, tokens, counters, straddled>>

(* The version is read in a statement after the one that read the hash.    *)
FetchVersion(p) ==
    /\ At(p, "fetch_version")
    /\ Learn(p, "reset", accounts[req[p].user].version)
    /\ UNCHANGED accountVars

Reset(p) ==
    /\ At(p, "reset")
    /\ Restart(Key(p))
    /\ straddled' = IF Guessing(Key(p)) = {p} THEN straddled
                    ELSE straddled \cup {Key(p)}
    /\ tokens' = tokens \cup {Token(req[p].user, req[p].saw, req[p].arg.password)}
    /\ CarryAndSucceed(p)
    /\ UNCHANGED accounts

(* The reset is best effort.                                               *)
ResetFails(p) ==
    /\ At(p, "reset")
    /\ faults < menu.faults
    /\ tokens' = tokens \cup {Token(req[p].user, req[p].saw, req[p].arg.password)}
    /\ req' = Answered(p)
    /\ keys' = Applied(req[p])
    /\ faults' = faults + 1
    /\ UNCHANGED <<menu, left, crossed, broken, accounts, counters, guesses, straddled>>

-----------------------------------------------------------------------------
(* POST /auth/refresh, logout, change-password.                            *)
Accepts(t) ==
    accounts[t.user].status = "active" /\ accounts[t.user].version = t.version

SendRefresh(p) ==
    \E u \in Senders(p, "refresh"), t \in tokens :
      t.user = u /\ SendAccount(p, "refresh", u, [token |-> t], "refresh")

Refresh(p) ==
    /\ At(p, "refresh")
    /\ IF Accepts(req[p].arg.token) THEN Succeed(p) ELSE Refuse(p)
    /\ UNCHANGED accountVars

SendLogout(p) ==
    \E u \in Senders(p, "logout") :
      accounts[u].status = "active" /\ SendAccount(p, "logout", u, Nothing, "bump")

BumpVersion(p) ==
    /\ At(p, "bump")
    /\ accounts' = [accounts EXCEPT ![req[p].user].version = @ + 1]
    /\ CarryAndSucceed(p)
    /\ UNCHANGED <<tokens, counters, guesses, straddled>>

SendChangePassword(p) ==
    \E u \in Senders(p, "change_password"), old, new \in Passwords :
      /\ accounts[u].status = "active"
      /\ SendAccount(p, "change_password", u, [old |-> old, new |-> new], "verify_old")

FaultyVerifyOld(p) ==
    /\ At(p, "verify_old")
    /\ Goto(p, "new_password")
    /\ UNCHANGED accountVars

VerifyOld(p) ==
    /\ At(p, "verify_old")
    /\ IF accounts[req[p].user].password = req[p].arg.old
       THEN Goto(p, "new_password") ELSE Refuse(p)
    /\ UNCHANGED accountVars

FaultyWritePassword(p) ==
    /\ At(p, "new_password")
    /\ accounts' = [accounts EXCEPT ![req[p].user].password = req[p].arg.new]
    /\ CarryAndSucceed(p)
    /\ UNCHANGED <<tokens, counters, guesses, straddled>>

WritePassword(p) ==
    /\ At(p, "new_password")
    /\ accounts' = [accounts EXCEPT ![req[p].user].password = req[p].arg.new,
                                    ![req[p].user].version = @ + 1]
    /\ CarryAndSucceed(p)
    /\ UNCHANGED <<tokens, counters, guesses, straddled>>

AccountStep(p) ==
    /\ \/ SendRegister(p) \/ CountUsers(p) \/ InsertUser(p) \/ InsertRole(p)
       \/ SendLogin(p) \/ CountAttempt(p) \/ CountFails(p) \/ FetchUser(p)
       \/ FetchVersion(p) \/ Reset(p) \/ ResetFails(p) \/ SendRefresh(p) \/ Refresh(p)
       \/ SendLogout(p) \/ BumpVersion(p)
       \/ SendChangePassword(p) \/ VerifyOld(p) \/ WritePassword(p)
    /\ UNCHANGED caseVars

WindowStep == /\ \E k \in CounterKeys : WindowEnds(k)
              /\ UNCHANGED caseVars

-----------------------------------------------------------------------------
AccountTypeOK ==
    /\ accounts \in [Users -> AccountRow]
    /\ \A t \in tokens : t \in [user : Users, version : Nat, password : Passwords]
    /\ counters \in [CounterKeys -> Nat]
    /\ guesses \in [CounterKeys -> Nat]

(* A refresh token that is accepted was given to somebody who had proved   *)
(* the password the account has now, so that changing the password shuts   *)
(* everybody else out: unless a login overlapped the change.  It verifies  *)
(* the old hash in one statement and reads the new version in the next.    *)
TokenProvesPassword ==
    \/ {"login", "change_password"} \in crossed
    \/ \A t \in tokens : Accepts(t) => t.password = accounts[t.user].password

(* A password changes only at the hand of a request that knew it: two      *)
(* requests that both verified the old one are not told of each other.     *)
ChangeKnowsPassword ==
    [][\A u \in Users :
         (/\ accounts[u].status = "active"
          /\ accounts'[u].password # accounts[u].password) =>
            \/ {"change_password"} \in crossed
            \/ \E p \in Slots : /\ At(p, "new_password") /\ req[p].user = u
                                /\ req[p].arg.old = accounts[u].password
      ]_<<accounts, req>>

(* Since its counter began an identifier has been tried at most            *)
(* MaxAttempts times, however the attempts overlap; attempts that were     *)
(* under way when the counter began again, and one let through because the *)
(* counter could not be reached, come on top.                              *)
GuessesBounded ==
    \A k \in CounterKeys : guesses[k] <= MaxAttempts \/ k \in straddled
=============================================================================
