------------------------------ MODULE Accounts ------------------------------
(***************************************************************************)
(* The accounts (store/users.go), the logins (auth/service.go) with their  *)
(* limit per account (auth/throttle.go), and the admins' writes of the     *)
(* accounts (web/admin/users.go).                                          *)
(*                                                                         *)
(* A login reads the account, checks the password against what it read,    *)
(* which takes its time, and opens a session.  An admin's request is let   *)
(* in by the account its session names, then writes.  Between the steps of *)
(* one, the others go on.                                                  *)
(***************************************************************************)
EXTENDS Naturals, FiniteSets

CONSTANTS Users,      \* accounts
          Logins,     \* logins at once
          Requests,   \* admins' requests at once
          Limit,      \* failed logins an account is allowed (10)
          MaxWrites   \* bound: passwords changed, requests of the admins

VARIABLES
    users,     \* users[u]: there, admin, disabled, the number of its password
    sessions,  \* the login sessions: their user, the password they were opened with
    login,     \* login[l]: where the login is, the account and password it was given
    fails,     \* fails[u]: failures counted on the account
    req,       \* req[q]: an admin's request let in
    stripped,  \* history: a request wrote after its author was an admin no more
    writes

vars == <<users, sessions, login, fails, req, stripped, writes>>

NoUser == [there |-> FALSE, admin |-> FALSE, disabled |-> FALSE, pwd |-> 0]
NoLogin == [st |-> "none", user |-> "nobody", pwd |-> 0, read |-> NoUser, admin |-> FALSE]
NoReq == [op |-> "none", by |-> "nobody", on |-> "nobody", admin |-> FALSE]

ActiveAdmin(u) == users[u].there /\ users[u].admin /\ ~users[u].disabled

\* The first admin is made by the command line; the others may not be there.
Init ==
    /\ users \in [Users -> {NoUser, [NoUser EXCEPT !.there = TRUE],
                            [NoUser EXCEPT !.there = TRUE, !.admin = TRUE]}]
    /\ \E u \in Users : ActiveAdmin(u)
    /\ sessions = {} /\ stripped = FALSE /\ writes = 0
    /\ login = [l \in Logins |-> NoLogin]
    /\ fails = [u \in Users |-> 0]
    /\ req = [q \in Requests |-> NoReq]

Writes == writes < MaxWrites /\ writes' = writes + 1

-----------------------------------------------------------------------------
(* Login, and the back office's, which opens a session for an admin only. *)

Blocked(u) == fails[u] >= Limit

\* The password given is the account's, or was, or never was (0 is the first);
\* the account may not be there.
Authenticate(l) ==
    /\ login[l].st = "none"
    /\ \E u \in Users, p \in 0 .. MaxWrites, admin \in BOOLEAN :
          /\ ~Blocked(u)
          /\ login' = [login EXCEPT ![l] = [st |-> "checks", user |-> u, pwd |-> p, read |-> users[u],
                                            admin |-> admin]]
    /\ UNCHANGED <<users, sessions, fails, req, stripped, writes>>

\* VerifyPassword, against the account as it was read.
Verified(l) == login[l].read.there /\ login[l].pwd = login[l].read.pwd /\ ~login[l].read.disabled

Fail(l) ==
    /\ login[l].st = "checks" /\ ~Verified(l)
    /\ fails' = [fails EXCEPT ![login[l].user] = IF @ < Limit THEN @ + 1 ELSE @]
    /\ login' = [login EXCEPT ![l] = NoLogin]
    /\ UNCHANGED <<users, sessions, req, stripped, writes>>

Succeed(l) ==
    /\ login[l].st = "checks" /\ Verified(l)
    /\ fails' = [fails EXCEPT ![login[l].user] = 0]
    /\ login' = [login EXCEPT ![l] = IF @.admin /\ ~@.read.admin THEN NoLogin ELSE [@ EXCEPT !.st = "opens"]]
    /\ UNCHANGED <<users, sessions, req, stripped, writes>>

\* CreateLoginSession; raced: the password was changed since it was read.
StartSession(l) ==
    /\ login[l].st = "opens"
    /\ sessions' = sessions \cup {[user |-> login[l].user, pwd |-> login[l].read.pwd,
                                   raced |-> login[l].read.pwd # users[login[l].user].pwd]}
    /\ login' = [login EXCEPT ![l] = NoLogin]
    /\ UNCHANGED <<users, fails, req, stripped, writes>>

Logout(s) ==
    /\ sessions' = sessions \ {s}
    /\ UNCHANGED <<users, login, fails, req, stripped, writes>>

\* Fifteen minutes after its first failure.
WindowEnds(u) ==
    /\ fails[u] > 0
    /\ fails' = [fails EXCEPT ![u] = 0]
    /\ UNCHANGED <<users, sessions, login, req, stripped, writes>>

-----------------------------------------------------------------------------
(* The admins' requests. *)

\* requireLogin: a session of an active admin.  The form may have been read
\* long before: its role is any.
RequireAdmin(q, s) ==
    /\ req[q].op = "none" /\ Writes
    /\ ActiveAdmin(s.user)
    /\ \E op \in {"create", "update", "reset", "disable", "enable"}, u \in Users, admin \in BOOLEAN :
          /\ op \notin {"create", "update"} => ~admin
          /\ req' = [req EXCEPT ![q] = [op |-> op, by |-> s.user, on |-> u, admin |-> admin]]
    /\ UNCHANGED <<users, sessions, login, fails, stripped>>

\* The write, once, whoever the author has become.
Wrote(q) ==
    /\ req' = [req EXCEPT ![q] = NoReq]
    /\ stripped' = (stripped \/ ~ActiveAdmin(req[q].by))
    /\ UNCHANGED <<login, fails, writes>>

CreateUser(q) ==
    /\ req[q].op = "create" /\ ~users[req[q].on].there
    /\ users' = [users EXCEPT ![req[q].on] = [NoUser EXCEPT !.there = TRUE, !.admin = req[q].admin]]
    /\ UNCHANGED sessions
    /\ Wrote(q)

\* An admin does not take the role from themselves.
\* Mutant: they may.
UpdateAnyone(q) ==
    /\ req[q].op = "update" /\ users[req[q].on].there
    /\ users' = [users EXCEPT ![req[q].on].admin = req[q].admin]
    /\ UNCHANGED sessions
    /\ Wrote(q)

UpdateUser(q) ==
    /\ req[q].op = "update" /\ users[req[q].on].there
    /\ req[q].on = req[q].by => req[q].admin
    /\ users' = [users EXCEPT ![req[q].on].admin = req[q].admin]
    /\ UNCHANGED sessions
    /\ Wrote(q)

SessionsOf(u) == {s \in sessions : s.user = u}

SetUserPassword(u) ==
    /\ users' = [users EXCEPT ![u].pwd = @ + 1]
    /\ sessions' = sessions \ SessionsOf(u)

ResetPassword(q) ==
    /\ req[q].op = "reset" /\ users[req[q].on].there
    /\ SetUserPassword(req[q].on)
    /\ Wrote(q)

\* Nor disables their own account.
SetDisabled(q) ==
    /\ req[q].op \in {"disable", "enable"} /\ users[req[q].on].there
    /\ \/ req[q].op = "disable" /\ req[q].on # req[q].by
          /\ sessions' = sessions \ SessionsOf(req[q].on)
       \/ req[q].op = "enable" /\ UNCHANGED sessions
    /\ users' = [users EXCEPT ![req[q].on].disabled = req[q].op = "disable"]
    /\ Wrote(q)

\* Refused by its form or its handler.
Refused(q) ==
    /\ req[q].op # "none"
    /\ req' = [req EXCEPT ![q] = NoReq]
    /\ UNCHANGED <<users, sessions, login, fails, stripped, writes>>

\* The command line's set-password.
UserPasswordCmd(u) ==
    /\ users[u].there /\ Writes
    /\ SetUserPassword(u)
    /\ UNCHANGED <<login, fails, req, stripped>>

Next ==
    \/ \E l \in Logins : Authenticate(l) \/ Fail(l) \/ Succeed(l) \/ StartSession(l)
    \/ \E s \in sessions : Logout(s)
    \/ \E q \in Requests, s \in sessions : RequireAdmin(q, s)
    \/ \E q \in Requests : CreateUser(q) \/ UpdateUser(q) \/ ResetPassword(q) \/ SetDisabled(q) \/ Refused(q)
    \/ \E u \in Users : WindowEnds(u) \/ UserPasswordCmd(u)

Spec == Init /\ [][Next]_vars

-----------------------------------------------------------------------------
\* An active admin is left, whatever the admins do to the accounts of each
\* other, as long as none writes who was let in as an admin and is one no more.
AdminLeft == stripped \/ \E u \in Users : ActiveAdmin(u)

\* No session outlives the password it was opened with, whoever changed it,
\* and however often the account was disabled and enabled since: but one
\* whose login had read the account before the change.
OldPasswordOut == \A s \in sessions : s.raced \/ s.pwd = users[s.user].pwd

AccountsKept == AdminLeft /\ OldPasswordOut

=============================================================================
