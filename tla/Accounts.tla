------------------------------ MODULE Accounts ------------------------------
(***************************************************************************)
(* The accounts of the panel: sign-in, registration, invitations, roles,   *)
(* bans, sessions, and the servers of a banned account.                    *)
(*                                                                         *)
(* Several requests are served at a time.  A request with a session loads  *)
(* its account when it begins, then notes that the session was seen: its   *)
(* next query writes that, so it holds SQLite's single write lock until it *)
(* commits, and all it reads and writes in between is one step.  What it   *)
(* knows of its own account is still what it loaded.  A sign-in, a         *)
(* registration or a start in the background reads first, and takes the    *)
(* write lock only when it writes.  A request that is refused, or that     *)
(* waits too long for the lock, changes nothing.                           *)
(***************************************************************************)
EXTENDS Integers, FiniteSets

CONSTANTS
    Users,        \* identifiers of accounts
    Names,        \* user names
    Fold(_),      \* the name as the database folds its case
    Invites,      \* identifiers of invitations
    Subs,         \* Google identities
    None,
    First,        \* the names of the first two accounts
    Slots,        \* bound: requests served at the same time
    Given,        \* bound: the roles that are given
    MaxAttempts,  \* max_login_attempts
    MaxActs       \* bound: requests

Roles == {"ADMIN", "MODERATOR", "USER"}
Modes == {"closed", "invite", "open"}
Activations == {"keep", "enable", "disable"}

Account == [name : Names, role : Roles, active : BOOLEAN, banned : BOOLEAN, pass : BOOLEAN,
            sub : Subs \cup {None}, fails : Nat, lock : {"none", "locked", "past"}]

\* None is nothing else.
ASSUME AccountsAssumption ==
    /\ None \notin Users \cup Names \cup Invites \cup Subs \cup {"used", "revoked"}
    /\ None \notin Account
    /\ First \in Names \X Names /\ Fold(First[1]) # Fold(First[2])
    /\ Given \subseteq Roles
    /\ MaxAttempts \in Nat \ {0} /\ MaxActs \in Nat

VARIABLES
    users,     \* the accounts, or None
    left,      \* username_history: the <<account, name>> it has left
    sessions,  \* the sessions neither revoked nor expired
    invites,   \* the invitations: None, "free", "used" or "revoked"
    mode,      \* the registration mode
    members,   \* the accounts the server is shared with, as administrators of it
    server,    \* the server: its owner, whether it runs, and whether a ban stops it
    reqs,      \* the requests being served, or None
    acts,      \* requests so far
    closings,  \* history: how many times the sessions of an account were closed
    opened,    \* history: how many accounts an invitation has opened
    met,       \* history: what two requests at the same time were about
    slipped    \* history: the server ran on past a ban: started past its check, or not stopped

vars == <<users, left, sessions, invites, mode, members, server, reqs, acts,
          closings, opened, met, slipped>>
history == <<closings, opened, met, slipped>>

(***************************************************************************)
(* Accounts and rights.                                                    *)
(***************************************************************************)
NewUser(name, role, pass, sub) ==
    [name |-> name, role |-> role, active |-> TRUE, banned |-> FALSE, pass |-> pass,
     sub |-> sub, fails |-> 0, lock |-> "none"]

Exists(u) == users[u] # None

\* Any identifier that is free: that of an account that was deleted may serve again,
\* and so may that of its session.
New(u) == ~Exists(u)

Usable(account) == account # None /\ account.active /\ ~account.banned

Admins == {u \in Users : Usable(users[u]) /\ users[u].role = "ADMIN"}

\* GLOBAL_PERMISSIONS: USER_MANAGE and SETTINGS_MANAGE, then USER_BAN.
Manages(account) == account.role = "ADMIN"
Bans(account) == account.role \in {"ADMIN", "MODERATOR"}

\* The look-up takes "_" and "%" for wildcards: it may refuse more names than these,
\* and a refusal is always open (Fails).
NameTaken(name, us) == \E u \in us : Exists(u) /\ Fold(users[u].name) = Fold(name)
NameLeft(name, us) == \E u \in us : \E n \in Names : <<u, n>> \in left /\ Fold(n) = Fold(name)
SubTaken(sub, us) == sub # None /\ \E u \in us : Exists(u) /\ users[u].sub = sub

\* The unique columns: the name as it is written, and the Google identity.
Unique(name, sub) == /\ \A u \in Users : Exists(u) => users[u].name # name
                     /\ ~SubTaken(sub, Users)

\* check_can_sanction: not oneself, and the team only by an administrator.
CanSanction(r) == /\ r.to # r.by
                  /\ users[r.to].role # "USER" => Manages(r.me)

(***************************************************************************)
(* Requests.                                                               *)
(***************************************************************************)
Request(kind, by, to, arg) ==
    [kind |-> kind, by |-> by, to |-> to, arg |-> arg, step |-> "read",
     me |-> IF by = None THEN None ELSE users[by], closings |-> 0]

Is(i, kind, step) == reqs[i] # None /\ reqs[i].kind = kind /\ reqs[i].step = step

\* What a request is about, when another at the same time may disturb it.
About(r) ==
    CASE r.kind = "register" -> {Fold(r.arg.name)} \cup ({r.arg.invite} \ {None})
      [] r.kind = "rename" -> {Fold(r.arg), Fold(r.me.name)}
      [] r.kind = "create" -> {Fold(r.arg.name)}
      [] r.kind \in {"update", "delete", "ban"} -> {"rights"}
      [] OTHER -> {}

\* Two bans at the same time do not disturb each other.
Meets(r, q) == IF r.kind = "ban" /\ q.kind = "ban" THEN {} ELSE About(r) \cap About(q)

Begin(r) ==
    \E i \in Slots :
        /\ reqs[i] = None /\ acts < MaxActs
        /\ acts' = acts + 1
        /\ reqs' = [reqs EXCEPT ![i] = r]
        /\ met' = met \cup UNION {Meets(r, reqs[j]) : j \in {k \in Slots : reqs[k] # None}}
        /\ UNCHANGED <<users, left, sessions, invites, mode, members, server,
                       closings, opened, slipped>>

\* resolve_session: the account is read with the session, and must be usable.
BeginAs(u, kind, to, arg) ==
    /\ \E s \in sessions : s.u = u
    /\ Usable(users[u])
    /\ Begin(Request(kind, u, to, arg))

BeginAlone(kind, to, arg) == Begin(Request(kind, None, to, arg))

Done(i) == reqs' = [reqs EXCEPT ![i] = None] /\ UNCHANGED acts

\* The session of the request is noted as seen, unless it was deleted with its account.
Acts(i, kind) == Is(i, kind, "read") /\ Exists(reqs[i].by)

Fails(i) ==
    /\ reqs[i] # None
    /\ Done(i)
    /\ UNCHANGED <<users, left, sessions, invites, mode, members, server, history>>

CloseSessions(u) ==
    /\ sessions' = {s \in sessions : s.u # u}
    /\ closings' = [closings EXCEPT ![u] = @ + 1]

\* late: the sessions of the account were closed since it was read to be checked.
OpenSession(u, since) ==
    sessions' = sessions \cup {[u |-> u, closings |-> since, late |-> since # closings[u]]}

(***************************************************************************)
(* AuthService.                                                            *)
(***************************************************************************)
LogsIn(i) ==
    /\ Is(i, "login", "read")
    /\ LET r == reqs[i]
       IN  /\ Exists(r.to)
           /\ reqs' = [reqs EXCEPT ![i].step = "write", ![i].me = users[r.to],
                                   ![i].closings = closings[r.to]]
    /\ UNCHANGED <<users, left, sessions, invites, mode, members, server, acts, history>>

\* A wrong password counts, and is written whatever follows.
Miscounts(i) ==
    /\ Is(i, "login", "write")
    /\ LET r == reqs[i]
       IN  /\ Exists(r.to) /\ r.arg = "wrong"
           /\ r.me.lock # "locked" /\ r.me.active
           /\ users' = [users EXCEPT ![r.to].fails = r.me.fails + 1,
                                     ![r.to].lock = IF r.me.fails + 1 >= MaxAttempts
                                                    THEN "locked" ELSE @]
    /\ Done(i)
    /\ UNCHANGED <<left, sessions, invites, mode, members, server, history>>

\* The columns that change are written: those that were already clear are not.
Cleared(r, account) ==
    [account EXCEPT !.fails = IF r.me.fails = 0 THEN @ ELSE 0,
                    !.lock = IF r.me.lock = "none" THEN @ ELSE "none"]

\* The password is that of the account when it was read.
SignsIn(i) ==
    /\ Is(i, "login", "write")
    /\ LET r == reqs[i]
       IN  /\ Exists(r.to) /\ r.arg = "right" /\ r.me.pass
           /\ r.me.lock # "locked" /\ Usable(r.me)
           /\ users' = [users EXCEPT ![r.to] = Cleared(r, @)]
           /\ OpenSession(r.to, r.closings)
    /\ Done(i)
    /\ UNCHANGED <<left, invites, mode, members, server, history>>

\* callback, for an account already linked: neither password nor lock.
SignsInWithGoogle(i) ==
    /\ Is(i, "login", "write")
    /\ LET r == reqs[i]
       IN  /\ Exists(r.to) /\ r.arg = "google" /\ r.me.sub # None /\ Usable(r.me)
           /\ users' = [users EXCEPT ![r.to] = Cleared(r, @)]
           /\ OpenSession(r.to, r.closings)
    /\ Done(i)
    /\ UNCHANGED <<left, invites, mode, members, server, history>>

\* One browser: the session of the request.
SignsOut(i) ==
    /\ Acts(i, "logout")
    /\ \E s \in sessions : s.u = reqs[i].by /\ sessions' = sessions \ {s}
    /\ Done(i)
    /\ UNCHANGED <<users, left, invites, mode, members, server, history>>

\* Mutant: the other sessions stay open.
ChangesPasswordOnly(i) ==
    /\ Acts(i, "password")
    /\ LET r == reqs[i]
       IN  /\ users' = [users EXCEPT ![r.by].pass = TRUE]
           /\ closings' = [closings EXCEPT ![r.by] = @ + 1]
    /\ Done(i)
    /\ UNCHANGED <<left, sessions, invites, mode, members, server, opened, met, slipped>>

\* The first password of an account made with Google needs no former one.
ChangesPassword(i) ==
    /\ Acts(i, "password")
    /\ LET r == reqs[i]
       IN  /\ users' = [users EXCEPT ![r.by].pass = TRUE]
           /\ CloseSessions(r.by)
    /\ Done(i)
    /\ UNCHANGED <<left, invites, mode, members, server, opened, met, slipped>>

\* An account made by an administrator: only the names in use are looked at.
Creates(i) ==
    /\ Acts(i, "create")
    /\ LET r == reqs[i]
       IN  /\ ~NameTaken(r.arg.name, Users)
           /\ \E u \in Users :
                 /\ New(u)
                 /\ users' = [users EXCEPT ![u] = NewUser(r.arg.name, r.arg.role, TRUE, None)]
           /\ met' = IF NameLeft(r.arg.name, Users) THEN met \cup {Fold(r.arg.name)} ELSE met
    /\ Done(i)
    /\ UNCHANGED <<left, sessions, invites, mode, members, server, closings, opened, slipped>>

(***************************************************************************)
(* AccountService.                                                         *)
(***************************************************************************)
ChangesMode(i) ==
    /\ Acts(i, "mode")
    /\ mode' = reqs[i].arg
    /\ Done(i)
    /\ UNCHANGED <<users, left, sessions, invites, members, server, history>>

CreatesInvitation(i) ==
    /\ Acts(i, "invite")
    /\ invites[reqs[i].arg] = None
    /\ invites' = [invites EXCEPT ![reqs[i].arg] = "free"]
    /\ Done(i)
    /\ UNCHANGED <<users, left, sessions, mode, members, server, history>>

RevokesInvitation(i) ==
    /\ Acts(i, "revoke")
    /\ invites[reqs[i].arg] \in {"free", "used"}
    /\ invites' = [invites EXCEPT ![reqs[i].arg] = "revoked"]
    /\ Done(i)
    /\ UNCHANGED <<users, left, sessions, mode, members, server, history>>

\* Mutant: the names in use are compared as they are written.
RegistersExactly(i) ==
    /\ Is(i, "register", "read")
    /\ LET r == reqs[i]
       IN  /\ mode # "closed"
           /\ mode = "invite" => r.arg.invite # None /\ invites[r.arg.invite] = "free"
           /\ ~SubTaken(r.arg.sub, Users)
           /\ \A u \in Users : Exists(u) => users[u].name # r.arg.name
           /\ reqs' = [reqs EXCEPT ![i].step = "history",
                                   ![i].arg.invite = IF mode = "invite" THEN @ ELSE None]
    /\ UNCHANGED <<users, left, sessions, invites, mode, members, server, acts, history>>

\* register: the mode, the invitation and the names in use ...
Registers(i) ==
    /\ Is(i, "register", "read")
    /\ LET r == reqs[i]
       IN  /\ mode # "closed"
           /\ mode = "invite" => r.arg.invite # None /\ invites[r.arg.invite] = "free"
           /\ ~SubTaken(r.arg.sub, Users)
           /\ ~NameTaken(r.arg.name, Users)
           /\ reqs' = [reqs EXCEPT ![i].step = "history",
                                   ![i].arg.invite = IF mode = "invite" THEN @ ELSE None]
    /\ UNCHANGED <<users, left, sessions, invites, mode, members, server, acts, history>>

\* ... then the names that were left, each in a query of its own ...
ChecksHistory(i) ==
    /\ Is(i, "register", "history")
    /\ ~NameLeft(reqs[i].arg.name, Users)
    /\ reqs' = [reqs EXCEPT ![i].step = "write"]
    /\ UNCHANGED <<users, left, sessions, invites, mode, members, server, acts, history>>

\* ... and the account, its session and the end of the invitation.
Inserts(i) ==
    /\ Is(i, "register", "write")
    /\ LET r == reqs[i]
           invite == r.arg.invite
       IN  /\ Unique(r.arg.name, r.arg.sub)
           /\ invite # None => invites[invite] # "revoked"
           /\ \E u \in Users :
                 /\ New(u)
                 /\ users' = [users EXCEPT ![u] =
                        NewUser(r.arg.name, "USER", r.arg.sub = None, r.arg.sub)]
                 /\ OpenSession(u, closings[u])
           /\ IF invite = None THEN UNCHANGED <<invites, opened>>
              ELSE /\ invites' = [invites EXCEPT ![invite] = "used"]
                   /\ opened' = [opened EXCEPT ![invite] = @ + 1]
    /\ Done(i)
    /\ UNCHANGED <<left, mode, members, server, closings, met, slipped>>

\* The former name stays with the account.
Renames(i) ==
    /\ Acts(i, "rename")
    /\ LET r == reqs[i]
       IN  /\ r.arg # r.me.name
           /\ ~NameTaken(r.arg, Users \ {r.by})
           /\ ~NameLeft(r.arg, Users \ {r.by})
           /\ users' = [users EXCEPT ![r.by].name = r.arg]
           /\ left' = left \cup {<<r.by, r.me.name>>}
    /\ Done(i)
    /\ UNCHANGED <<sessions, invites, mode, members, server, history>>

\* The last administrator is not banned; the server of the account is stopped by a
\* task, when a process runs.
BansUser(i) ==
    /\ Acts(i, "ban")
    /\ LET r == reqs[i]
       IN  /\ Exists(r.to) /\ CanSanction(r)
           /\ users[r.to].role = "ADMIN" => Admins \ {r.to} # {}
           /\ users' = [users EXCEPT ![r.to].banned = TRUE]
           /\ CloseSessions(r.to)
           /\ server' = IF server.owner = r.to /\ server.state = "on"
                        THEN [server EXCEPT !.stopping = TRUE] ELSE server
    /\ Done(i)
    /\ UNCHANGED <<left, invites, mode, members, opened, met, slipped>>

UnbansUser(i) ==
    /\ Acts(i, "unban")
    /\ LET r == reqs[i]
       IN  /\ Exists(r.to) /\ CanSanction(r)
           /\ users' = [users EXCEPT ![r.to].banned = FALSE]
    /\ Done(i)
    /\ UNCHANGED <<left, sessions, invites, mode, members, server, history>>

(***************************************************************************)
(* The routes of an administrator, of Google and of the members.           *)
(***************************************************************************)
\* What an update leaves of an account: either field may be kept, or both.
Changed(account, change) ==
    [account EXCEPT !.role = IF change.role = "keep" THEN @ ELSE change.role,
                    !.active = IF change.active = "keep" THEN @ ELSE change.active = "enable"]

\* Mutant: an administrator may give up the role, or disable the account, in use.
UpdatesAnyone(i) ==
    /\ Acts(i, "update")
    /\ LET r == reqs[i]
       IN  /\ Exists(r.to)
           /\ users' = [users EXCEPT ![r.to] = Changed(@, r.arg)]
           /\ IF r.arg.role = "keep" /\ r.arg.active # "disable"
              THEN UNCHANGED <<sessions, closings>> ELSE CloseSessions(r.to)
    /\ Done(i)
    /\ UNCHANGED <<left, invites, mode, members, server, opened, met, slipped>>

\* update_user: the role, the activation, both or neither.
Updates(i) ==
    /\ Acts(i, "update")
    /\ LET r == reqs[i]
       IN  /\ Exists(r.to)
           /\ r.to = r.by => r.arg.role \in {r.me.role, "keep"} /\ r.arg.active # "disable"
           /\ users' = [users EXCEPT ![r.to] = Changed(@, r.arg)]
           /\ IF r.arg.role = "keep" /\ r.arg.active # "disable"
              THEN UNCHANGED <<sessions, closings>> ELSE CloseSessions(r.to)
    /\ Done(i)
    /\ UNCHANGED <<left, invites, mode, members, server, opened, met, slipped>>

\* The names it had left go with it.
Deletes(i) ==
    /\ Acts(i, "delete")
    /\ LET r == reqs[i]
       IN  /\ Exists(r.to)
           /\ r.to # r.by /\ server.owner # r.to
           /\ users' = [users EXCEPT ![r.to] = None]
           /\ left' = {l \in left : l[1] # r.to}
           /\ members' = members \ {r.to}
           /\ CloseSessions(r.to)
    /\ Done(i)
    /\ UNCHANGED <<invites, mode, server, opened, met, slipped>>

\* The way back from Google: the account is the one that began.
LinksGoogle(i) ==
    /\ Is(i, "link", "read") /\ Exists(reqs[i].by)
    /\ ~SubTaken(reqs[i].arg, Users \ {reqs[i].by})
    /\ users' = [users EXCEPT ![reqs[i].by].sub = reqs[i].arg]
    /\ Done(i)
    /\ UNCHANGED <<left, sessions, invites, mode, members, server, history>>

UnlinksGoogle(i) ==
    /\ Acts(i, "unlink") /\ reqs[i].me.pass
    /\ users' = [users EXCEPT ![reqs[i].by].sub = None]
    /\ Done(i)
    /\ UNCHANGED <<left, sessions, invites, mode, members, server, history>>

\* The owner shares with an account that can sign in.
Shares(i) ==
    /\ Acts(i, "share")
    /\ LET r == reqs[i]
       IN  /\ r.by = server.owner /\ Usable(users[r.to]) /\ r.to # server.owner
           /\ members' = members \cup {r.to}
    /\ Done(i)
    /\ UNCHANGED <<users, left, sessions, invites, mode, server, history>>

Unshares(i) ==
    /\ Acts(i, "unshare")
    /\ reqs[i].by = server.owner /\ reqs[i].to \in members
    /\ members' = members \ {reqs[i].to}
    /\ Done(i)
    /\ UNCHANGED <<users, left, sessions, invites, mode, server, history>>

(***************************************************************************)
(* The server.                                                             *)
(***************************************************************************)
Starts == server' = [server EXCEPT !.state = "on"]

\* Mutant: the ban is checked against the account that asks.
StartsForAnyone(i) ==
    /\ Acts(i, "start")
    /\ LET r == reqs[i]
       IN  /\ r.by = server.owner \/ r.by \in members
           /\ server.state # "on" /\ ~r.me.banned
           /\ slipped' = (slipped \/ (r.by = server.owner /\ users[r.by].banned))
    /\ Starts /\ Done(i)
    /\ UNCHANGED <<users, left, sessions, invites, mode, members, closings, opened, met>>

\* Whoever asks, the owner must not be banned.  An owner who asks is as loaded.
StartsServer(i) ==
    /\ Acts(i, "start")
    /\ LET r == reqs[i]
           owner == IF r.by = server.owner THEN r.me ELSE users[server.owner]
       IN  /\ r.by = server.owner \/ r.by \in members
           /\ server.state # "on" /\ ~owner.banned
           /\ slipped' = (slipped \/ (r.by = server.owner /\ users[r.by].banned))
    /\ Starts /\ Done(i)
    /\ UNCHANGED <<users, left, sessions, invites, mode, members, closings, opened, met>>

\* A task planned, or the autostart: the owner is read, then the server started.
LooksAtOwner(i) ==
    /\ Is(i, "task", "read")
    /\ ~users[server.owner].banned
    /\ reqs' = [reqs EXCEPT ![i].step = "write"]
    /\ UNCHANGED <<users, left, sessions, invites, mode, members, server, acts, history>>

StartsTask(i) ==
    /\ Is(i, "task", "write") /\ server.state # "on"
    /\ slipped' = (slipped \/ users[server.owner].banned)
    /\ Starts /\ Done(i)
    /\ UNCHANGED <<users, left, sessions, invites, mode, members, closings, opened, met>>

\* The task of the ban: a stop also cancels the restart that follows a crash.
StopsForBan ==
    /\ server.stopping
    /\ server' = [server EXCEPT !.state = "off", !.stopping = FALSE]
    /\ UNCHANGED <<users, left, sessions, invites, mode, members, reqs, acts, history>>

\* A stop that raises is noted in the log, and not tried again.
BanStopFails ==
    /\ server.stopping
    /\ server' = [server EXCEPT !.stopping = FALSE]
    /\ slipped' = (slipped \/ server.state = "on")
    /\ UNCHANGED <<users, left, sessions, invites, mode, members, reqs, acts, closings,
                   opened, met>>

\* The process ends, for good or to be restarted.
Ends ==
    /\ server.state = "on"
    /\ \E s \in {"off", "crashed"} : server' = [server EXCEPT !.state = s]
    /\ UNCHANGED <<users, left, sessions, invites, mode, members, reqs, acts, history>>

\* The automatic restart does not look at the owner.
Restarts ==
    /\ server.state = "crashed"
    /\ Starts
    /\ slipped' = (slipped \/ users[server.owner].banned)
    /\ UNCHANGED <<users, left, sessions, invites, mode, members, reqs, acts, closings,
                   opened, met>>

\* Time passes.
LockEnds(u) ==
    /\ Exists(u) /\ users[u].lock = "locked"
    /\ users' = [users EXCEPT ![u].lock = "past"]
    /\ UNCHANGED <<left, sessions, invites, mode, members, server, reqs, acts, history>>

Init ==
    /\ \E admin, other \in Users, role \in Roles :
          /\ admin # other
          /\ users = [u \in Users |->
                IF u = admin THEN NewUser(First[1], "ADMIN", TRUE, None)
                ELSE IF u = other THEN NewUser(First[2], role, TRUE, None) ELSE None]
          /\ sessions = {[u |-> u, closings |-> 0, late |-> FALSE] : u \in {admin, other}}
          /\ server = [owner |-> other, state |-> "off", stopping |-> FALSE]
    /\ left = {} /\ members = {} /\ mode \in Modes
    /\ \E invite \in {"free", "used"} :
          /\ invites = [v \in Invites |-> IF mode = "invite" THEN invite ELSE None]
          /\ opened = [v \in Invites |-> IF invites[v] = "used" THEN 1 ELSE 0]
    /\ reqs = [i \in Slots |-> None] /\ acts = 0
    /\ closings = [u \in Users |-> 0]
    /\ met = {} /\ slipped = FALSE

\* The routes.  Who has not the right is refused at once, and so is what is about
\* an account that is not there.
Others(u) == {v \in Users : Exists(v)} \ {u}

AsksForAccounts(u) ==
    /\ Manages(users[u])
    /\ \/ \E to \in Others(u) : BeginAs(u, "delete", to, None)
       \/ \E to \in Others(u) \cup {u}, role \in Given \cup {"keep"}, active \in Activations :
             BeginAs(u, "update", to, [role |-> role, active |-> active])
       \/ \E name \in Names, role \in Given :
             BeginAs(u, "create", None, [name |-> name, role |-> role])

AsksForMode(u) == Manages(users[u]) /\ \E m \in Modes : BeginAs(u, "mode", None, m)

AsksForInvitations(u) ==
    Manages(users[u]) /\ \E v \in Invites, kind \in {"invite", "revoke"} : BeginAs(u, kind, None, v)

AsksForSanctions(u) ==
    Bans(users[u]) /\ \E to \in Others(u), kind \in {"ban", "unban"} : BeginAs(u, kind, to, None)

\* What everyone asks for oneself, and for a server.
AsksForOneself(u) ==
    \/ \E kind \in {"logout", "password"} : BeginAs(u, kind, None, None)
    \/ \E name \in Names : BeginAs(u, "rename", None, name)

AsksForGoogle(u) ==
    BeginAs(u, "unlink", None, None) \/ \E sub \in Subs : BeginAs(u, "link", None, sub)

AsksToStart(u) == (u = server.owner \/ u \in members) /\ BeginAs(u, "start", None, None)

AsksToShare(u) ==
    u = server.owner /\ \E to \in Others(u), kind \in {"share", "unshare"} : BeginAs(u, kind, to, None)

Asks(u) ==
    \/ AsksForAccounts(u) \/ AsksForMode(u) \/ AsksForInvitations(u) \/ AsksForSanctions(u)
    \/ AsksForOneself(u) \/ AsksForGoogle(u) \/ AsksToStart(u) \/ AsksToShare(u)

Arrives ==
    \/ \E u \in {v \in Users : Exists(v)}, with \in {"right", "wrong", "google"} : BeginAlone("login", u, with)
    \/ \E name \in Names, invite \in Invites \cup {None}, sub \in Subs \cup {None} :
          BeginAlone("register", None, [name |-> name, invite |-> invite, sub |-> sub])
    \/ BeginAlone("task", None, None)

Serves(i) ==
    \/ Fails(i) \/ LogsIn(i) \/ Miscounts(i) \/ SignsIn(i) \/ SignsInWithGoogle(i)
    \/ SignsOut(i) \/ ChangesPassword(i) \/ Creates(i) \/ ChangesMode(i)
    \/ CreatesInvitation(i) \/ RevokesInvitation(i)
    \/ Registers(i) \/ ChecksHistory(i) \/ Inserts(i) \/ Renames(i)
    \/ BansUser(i) \/ UnbansUser(i) \/ Updates(i) \/ Deletes(i)
    \/ LinksGoogle(i) \/ UnlinksGoogle(i) \/ Shares(i) \/ Unshares(i)
    \/ StartsServer(i) \/ LooksAtOwner(i) \/ StartsTask(i)

Next ==
    \/ \E u \in Users : Exists(u) /\ Asks(u)
    \/ Arrives
    \/ \E i \in Slots : Serves(i)
    \/ StopsForBan \/ BanStopFails \/ Ends \/ Restarts
    \/ \E u \in Users : LockEnds(u)

Spec == Init /\ [][Next]_vars

(***************************************************************************)
(* Properties.                                                             *)
(***************************************************************************)
Kinds == {"login", "register", "task", "logout", "password", "rename", "create", "mode",
          "invite", "revoke", "ban", "unban", "update", "delete", "link", "unlink",
          "share", "unshare", "start"}

Registration == [name : Names, invite : Invites \cup {None}, sub : Subs \cup {None}]
Creation == [name : Names, role : Roles]
Update == [role : Roles \cup {"keep"}, active : Activations]

\* What a request of each kind carries.
Args(kind) ==
    CASE kind = "register" -> Registration
      [] kind = "create" -> Creation
      [] kind = "rename" -> Names
      [] kind = "mode" -> Modes
      [] kind \in {"invite", "revoke"} -> Invites
      [] kind = "link" -> Subs
      [] kind = "update" -> Update
      [] kind = "login" -> {"right", "wrong", "google"}
      [] OTHER -> {None}

Alone == {"login", "register", "task"}
ToAnother == {"login", "ban", "unban", "update", "delete", "share", "unshare"}

IsRequest(r) ==
    /\ r.kind \in Kinds
    /\ r \in [kind : Kinds, by : Users \cup {None}, to : Users \cup {None}, arg : Args(r.kind),
              step : {"read", "history", "write"}, me : Account \cup {None}, closings : Nat]
    /\ r.kind \notin Alone => r.by \in Users /\ r.me \in Account
    /\ r.kind \in ToAnother => r.to \in Users
    /\ r.kind = "login" /\ r.step # "read" => r.me \in Account

TypeOK ==
    /\ users \in [Users -> Account \cup {None}]
    /\ left \subseteq Users \X Names
    /\ sessions \subseteq [u : Users, closings : Nat, late : BOOLEAN]
    /\ invites \in [Invites -> {None, "free", "used", "revoked"}]
    /\ mode \in Modes /\ members \subseteq Users
    /\ server \in [owner : Users, state : {"on", "off", "crashed"}, stopping : BOOLEAN]
    /\ reqs = [i \in Slots |-> reqs[i]] /\ \A i \in Slots : reqs[i] = None \/ IsRequest(reqs[i])
    /\ acts \in Nat
    /\ closings \in [Users -> Nat] /\ opened \in [Invites -> Nat] /\ slipped \in BOOLEAN

\* users.py, update_user: the panel is never left without an administrator who can
\* sign in, unless changes of two administrators are served at the same time.
\* (Two bans are: the second counts the administrators that are left.)
AdminRemains == Admins # {} \/ "rights" \in met

\* A name is that of one account, whatever its case, and a name that an account has
\* left stays its own, unless two requests about that name are served at the same
\* time or an administrator gives it to a new account.
NamesStayTheirs ==
    \A u \in Users : Exists(u) =>
        LET name == users[u].name
        IN  Fold(name) \in met \/ ~(NameTaken(name, Users \ {u}) \/ NameLeft(name, Users \ {u}))

\* An invitation opens one account, unless two registrations use it at the same time.
InvitationOnce == \A v \in Invites : opened[v] <= 1 \/ v \in met

\* Two sign-ups never share what is of one.
SignUpsAreExclusive == NamesStayTheirs /\ InvitationOnce

\* A change of password, of role, a ban, a disabling or a deletion leaves no session
\* opened before, except that of a sign-in which was being checked.
SessionsEnd == \A s \in sessions : s.closings = closings[s.u] \/ s.late

\* lifecycle_service.py:32: the server of a banned account does not run, or is being
\* stopped, unless it was started by a request or a task that had read the
\* account before, or by an automatic restart, or the stop of the ban failed.
BannedServersStop ==
    users[server.owner].banned /\ server.state = "on" => server.stopping \/ slipped
=============================================================================
