--------------------------- MODULE AccountsProofs ---------------------------
(***************************************************************************)
(* Proofs about Accounts, for any accounts, names, invitations and number  *)
(* of requests served at the same time.                                    *)
(***************************************************************************)
EXTENDS Accounts, TLAPS

-----------------------------------------------------------------------------
(***************************************************************************)
(* Types.                                                                  *)
(***************************************************************************)
\* A request that begins, and what a request becomes, keep the type of the table.
LEMMA RequestBegins ==
    ASSUME TypeOK, NEW r, IsRequest(r), Begin(r)
    PROVE  TypeOK'
  BY DEF TypeOK, Begin, IsRequest

\* What arrives is made by an account that can sign in, as it is at that moment, or by
\* nobody; only an administrator asks for rights.
IsArrival(r) ==
    /\ IsRequest(r) /\ r.step = "read"
    /\ r.kind \notin Alone => r.by \in Users /\ Usable(users[r.by]) /\ r.me = users[r.by]
    /\ r.kind \in {"update", "delete"} => users[r.by].role = "ADMIN"

\* A request with a session is an arrival.
LEMMA BeginAsArrives ==
    ASSUME TypeOK, NEW u \in Users, NEW kind \in Kinds \ Alone, NEW to \in Users \cup {None},
           NEW arg \in Args(kind), kind \in ToAnother => to \in Users,
           kind \in {"update", "delete"} => Manages(users[u]),
           BeginAs(u, kind, to, arg)
    PROVE  \E r : IsArrival(r) /\ Begin(r)
<1> DEFINE r == Request(kind, u, to, arg)
<1>1. users[u] \in Account /\ u # None
  BY AccountsAssumption DEF TypeOK, BeginAs, Usable
<1>2. IsRequest(r)
  BY <1>1 DEF IsRequest, Request, Alone
<1>3. IsArrival(r)
  BY <1>1, <1>2 DEF IsArrival, Request, BeginAs, Manages
<1>4. QED  BY <1>3 DEF BeginAs

\* A sign-in, a registration or a start in the background is an arrival.
LEMMA BeginAloneArrives ==
    ASSUME NEW kind \in Alone, NEW to \in Users \cup {None}, NEW arg \in Args(kind),
           kind \in ToAnother => to \in Users, BeginAlone(kind, to, arg)
    PROVE  \E r : IsArrival(r) /\ Begin(r)
<1> DEFINE r == Request(kind, None, to, arg)
<1>1. IsRequest(r)
  BY DEF IsRequest, Request, Alone, Kinds
<1>2. IsArrival(r)
  BY <1>1 DEF IsArrival, Request, Alone
<1>3. QED  BY <1>2 DEF BeginAlone

\* Whatever the routes accept is an arrival.
LEMMA Arrivals ==
    ASSUME TypeOK, (\E u \in Users : Exists(u) /\ Asks(u)) \/ Arrives
    PROVE  \E r : IsArrival(r) /\ Begin(r)
<1>1. ASSUME NEW u \in Users, Asks(u) PROVE \E r : IsArrival(r) /\ Begin(r)
  <2> USE BeginAsArrives DEF Kinds, Alone, ToAnother, Args, Others
  <2>1. CASE AsksForAccounts(u)
    BY <2>1, AccountsAssumption DEF AsksForAccounts, Creation, Update
  <2>2. CASE AsksForMode(u) \/ AsksForInvitations(u)
    BY <2>2 DEF AsksForMode, AsksForInvitations
  <2>3. CASE AsksForSanctions(u) \/ AsksToShare(u)
    BY <2>3 DEF AsksForSanctions, AsksToShare
  <2>4. CASE AsksForOneself(u) \/ AsksForGoogle(u) \/ AsksToStart(u)
    BY <2>4 DEF AsksForOneself, AsksForGoogle, AsksToStart
  <2>5. QED  BY <1>1, <2>1, <2>2, <2>3, <2>4 DEF Asks
<1>2. CASE Arrives
  BY <1>2, BeginAloneArrives DEF Arrives, Alone, ToAnother, Args, Registration
<1>3. QED  BY <1>1, <1>2

\* What the actions that serve a request read of it.
LEMMA ServedType ==
    ASSUME TypeOK, NEW i \in Slots, reqs[i] # None
    PROVE  LET r == reqs[i]
           IN  /\ IsRequest(r) /\ r.kind \in Kinds /\ r.step \in {"read", "history", "write"}
               /\ r.by \in Users \cup {None} /\ r.to \in Users \cup {None}
               /\ r.me \in Account \cup {None} /\ r.closings \in Nat
               /\ r.kind \notin Alone => r.by \in Users /\ r.me \in Account
               /\ r.kind \in ToAnother => r.to \in Users
               /\ r.kind = "login" /\ r.step # "read" => r.me \in Account
               /\ r.kind = "register" => r.arg \in Registration
               /\ r.kind = "create" => r.arg \in Creation
               /\ r.kind = "rename" => r.arg \in Names
               /\ r.kind = "mode" => r.arg \in Modes
               /\ r.kind \in {"invite", "revoke"} => r.arg \in Invites
               /\ r.kind = "link" => r.arg \in Subs
               /\ r.kind = "update" => r.arg \in Update
  BY DEF TypeOK, IsRequest, Args, Kinds

\* A request that ends leaves the table.
LEMMA DoneType ==
    ASSUME TypeOK, NEW i \in Slots, Done(i)
    PROVE  /\ reqs' = [j \in Slots |-> reqs'[j]] /\ acts' = acts
           /\ \A j \in Slots : reqs'[j] = IF j = i THEN None ELSE reqs[j]
           /\ \A j \in Slots : reqs'[j] = None \/ IsRequest(reqs'[j])
  BY DEF TypeOK, Done

\* The sessions of an account are closed, or one is opened.
LEMMA CloseSessionsType ==
    ASSUME TypeOK, NEW u \in Users, CloseSessions(u)
    PROVE  /\ sessions' \subseteq [u : Users, closings : Nat, late : BOOLEAN]
           /\ closings' \in [Users -> Nat]
<1>1. sessions' \subseteq [u : Users, closings : Nat, late : BOOLEAN]
  BY DEF TypeOK, CloseSessions
<1>2. closings \in [Users -> Nat]
  BY DEF TypeOK
<1>3. QED  BY <1>1, <1>2 DEF CloseSessions

\* A session that is opened has the type of a session.
LEMMA OpenSessionType ==
    ASSUME TypeOK, NEW u \in Users, NEW since \in Nat, OpenSession(u, since)
    PROVE  sessions' \subseteq [u : Users, closings : Nat, late : BOOLEAN]
<1> DEFINE late == since # closings[u]
           S == [u : Users, closings : Nat, late : BOOLEAN]
<1>1. late \in BOOLEAN /\ sessions \subseteq S
  BY DEF TypeOK
<1>2. sessions' = sessions \cup {[u |-> u, closings |-> since, late |-> late]}
  BY DEF OpenSession
<1> HIDE DEF late
<1>3. [u |-> u, closings |-> since, late |-> late] \in S
  BY <1>1
<1>4. QED  BY <1>1, <1>2, <1>3

\* A change of role or an activation writes these two columns of a row that is there.
LEMMA Updated ==
    ASSUME TypeOK, NEW i \in Slots, Updates(i)
    PROVE  LET r == reqs[i]
           IN  /\ r.to \in Users /\ users[r.to] \in Account /\ r.arg \in Update
               /\ \E role \in Roles, active \in BOOLEAN :
                     /\ role = IF r.arg.role = "keep" THEN users[r.to].role ELSE r.arg.role
                     /\ active = IF r.arg.active = "keep" THEN users[r.to].active
                                ELSE r.arg.active = "enable"
                     /\ users' = [users EXCEPT ![r.to] =
                                    [users[r.to] EXCEPT !.role = role, !.active = active]]
<1> DEFINE r == reqs[i]
           role == IF r.arg.role = "keep" THEN users[r.to].role ELSE r.arg.role
           active == IF r.arg.active = "keep" THEN users[r.to].active ELSE r.arg.active = "enable"
<1>1. users \in [Users -> Account \cup {None}]
  BY DEF TypeOK
<1>2. r.to \in Users /\ users[r.to] \in Account /\ r.arg \in Update
  BY <1>1, ServedType DEF Updates, ToAnother, Acts, Is, Exists
<1>3. role \in Roles /\ active \in BOOLEAN
  BY <1>2 DEF Account, Update
<1>4. users' = [users EXCEPT ![r.to] = [users[r.to] EXCEPT !.role = role, !.active = active]]
  BY <1>1, <1>2 DEF Updates, Changed
<1>5. /\ role = IF r.arg.role = "keep" THEN users[r.to].role ELSE r.arg.role
      /\ active = IF r.arg.active = "keep" THEN users[r.to].active ELSE r.arg.active = "enable"
  OBVIOUS
<1> HIDE DEF role, active
<1>6. QED  BY <1>2, <1>3, <1>4, <1>5

\* A request that is served, to its end or not, keeps the types.
LEMMA ServesType ==
    ASSUME TypeOK, NEW i \in Slots, Serves(i)
    PROVE  TypeOK'
<1> DEFINE r == reqs[i]
<1>a. reqs[i] # None
  BY DEF Serves, Fails, LogsIn, Miscounts, SignsIn, SignsInWithGoogle, SignsOut,
     ChangesPassword, Creates, ChangesMode, CreatesInvitation, RevokesInvitation, Registers,
     ChecksHistory, Inserts, Renames, BansUser, UnbansUser, Updates, Deletes, LinksGoogle,
     UnlinksGoogle, Shares, Unshares, StartsServer, LooksAtOwner, StartsTask, Acts, Is
<1>b. /\ IsRequest(r) /\ r.by \in Users \cup {None} /\ r.to \in Users \cup {None}
      /\ r.me \in Account \cup {None} /\ r.closings \in Nat
  BY <1>a, ServedType
<1> DEFINE Rest == /\ left' \subseteq Users \X Names
                   /\ sessions' \subseteq [u : Users, closings : Nat, late : BOOLEAN]
                   /\ invites' \in [Invites -> {None, "free", "used", "revoked"}]
                   /\ mode' \in Modes /\ members' \subseteq Users
                   /\ server' \in [owner : Users, state : {"on", "off", "crashed"},
                                   stopping : BOOLEAN]
                   /\ closings' \in [Users -> Nat] /\ opened' \in [Invites -> Nat]
                   /\ slipped' \in BOOLEAN
           Row == users' \in [Users -> Account \cup {None}]
<1>c. ASSUME Row, Rest, Done(i) PROVE TypeOK'
  BY <1>c, DoneType DEF TypeOK
<1>d. UNCHANGED <<left, sessions, invites, mode, members, server, history>> => Rest
  BY DEF TypeOK, history
<1>e. UNCHANGED users => Row
  BY DEF TypeOK
<1> HIDE DEF r, Rest, Row
<1>1. CASE Fails(i)
  BY <1>1, <1>c, <1>d, <1>e DEF Fails
<1> USE DEF Is, Acts, Exists
<1>f. users \in [Users -> Account \cup {None}] /\ sessions \subseteq [u : Users, closings : Nat, late : BOOLEAN]
  BY DEF TypeOK
<1>g. /\ r = reqs[i] /\ r.kind \in Kinds
      /\ r.kind \notin Alone => r.by \in Users /\ r.me \in Account
      /\ r.kind \in ToAnother => r.to \in Users
      /\ r.kind = "login" /\ r.step # "read" => r.me \in Account
      /\ r.me \in Account \cup {None} /\ r.closings \in Nat
  BY <1>a, ServedType DEF r
<1> USE <1>g
<1>2. CASE LogsIn(i)
  <2>1. /\ Is(i, "login", "read") /\ users[r.to] \in Account /\ closings[r.to] \in Nat
        /\ r.to \in Users
    BY <1>2, <1>f DEF LogsIn, Alone, ToAnother, TypeOK
  <2>2. IsRequest([r EXCEPT !.step = "write", !.me = users[r.to], !.closings = closings[r.to]])
    BY <2>1, <1>b DEF IsRequest, Args, Alone, ToAnother
  <2>3. reqs' = [reqs EXCEPT ![i] = [r EXCEPT !.step = "write", !.me = users[r.to], !.closings = closings[r.to]]]
    BY <1>2 DEF LogsIn, TypeOK
  <2>4. QED  BY <1>2, <2>2, <2>3 DEF LogsIn, TypeOK, history
<1>3. CASE Miscounts(i)
  <2>0. r.to \in Users /\ r.me \in Account /\ users[r.to] \in Account
    BY <1>3, <1>f DEF Miscounts, ToAnother
  <2>1. Row
    BY <1>3, <2>0, <1>f DEF Miscounts, Account, Row
  <2>2. QED  BY <1>3, <2>1, <1>c, <1>d DEF Miscounts
<1>4. CASE SignsIn(i)
  <2>0. /\ r.to \in Users /\ users[r.to] \in Account
        /\ users' = [users EXCEPT ![r.to] = Cleared(r, users[r.to])]
    BY <1>4, <1>f DEF SignsIn, ToAnother
  <2>1. Cleared(r, users[r.to]) \in Account
    BY <2>0 DEF Cleared, Account
  <2>a. Row
    BY <2>0, <2>1, <1>f DEF Row
  <2>2. Rest
    BY <1>4, OpenSessionType DEF SignsIn, Rest, TypeOK, history, ToAnother
  <2>3. QED  BY <1>4, <2>a, <2>2, <1>c DEF SignsIn
<1>5. CASE SignsInWithGoogle(i)
  <2>0. /\ r.to \in Users /\ users[r.to] \in Account
        /\ users' = [users EXCEPT ![r.to] = Cleared(r, users[r.to])]
    BY <1>5, <1>f DEF SignsInWithGoogle, ToAnother
  <2>1. Cleared(r, users[r.to]) \in Account
    BY <2>0 DEF Cleared, Account
  <2>a. Row
    BY <2>0, <2>1, <1>f DEF Row
  <2>2. Rest
    BY <1>5, OpenSessionType DEF SignsInWithGoogle, Rest, TypeOK, history, ToAnother
  <2>3. QED  BY <1>5, <2>a, <2>2, <1>c DEF SignsInWithGoogle
<1>6. CASE SignsOut(i) \/ ChangesMode(i) \/ CreatesInvitation(i) \/ RevokesInvitation(i)
  <2>1. Rest
    BY <1>6, <1>a, ServedType
       DEF SignsOut, ChangesMode, CreatesInvitation, RevokesInvitation, Rest, TypeOK, history
  <2>2. QED
    BY <1>6, <2>1, <1>c, <1>e DEF SignsOut, ChangesMode, CreatesInvitation, RevokesInvitation
<1>7. CASE ChangesPassword(i)
  <2>a. r.by \in Users /\ users[r.by] \in Account
        /\ users' = [users EXCEPT ![r.by] = [users[r.by] EXCEPT !.pass = TRUE]]
    BY <1>7, <1>f DEF ChangesPassword, Alone, ToAnother
  <2>b. [users[r.by] EXCEPT !.pass = TRUE] \in Account
    BY <2>a DEF Account
  <2>1. Row
    BY <2>a, <2>b, <1>f DEF Row
  <2>2. Rest
    BY <1>7, CloseSessionsType DEF ChangesPassword, Rest, TypeOK, Alone
  <2>3. QED  BY <1>7, <2>1, <2>2, <1>c DEF ChangesPassword
<1>8. CASE Creates(i)
  <2>1. r.arg \in Creation
    BY <1>8, <1>a, ServedType DEF Creates
  <2>2. NewUser(r.arg.name, r.arg.role, TRUE, None) \in Account
    BY <2>1 DEF NewUser, Account, Creation
  <2>3. Row
    BY <1>8, <2>2, <1>f DEF Creates, Row
  <2>4. Rest
    BY <1>8 DEF Creates, Rest, TypeOK
  <2>5. QED  BY <1>8, <2>3, <2>4, <1>c DEF Creates
<1>9. CASE Registers(i)
  <2> DEFINE arg == [r.arg EXCEPT !.invite = IF mode = "invite" THEN @ ELSE None]
  <2>1. /\ r.arg \in Registration /\ arg \in Registration /\ r.kind = "register"
    BY <1>9, <1>a, ServedType DEF Registers, Registration
  <2>2. reqs' = [reqs EXCEPT ![i] = [r EXCEPT !.step = "history", !.arg = arg]]
    BY <1>9, <1>b, <2>1 DEF Registers, TypeOK, IsRequest, Registration
  <2> HIDE DEF arg
  <2>3. IsRequest([r EXCEPT !.step = "history", !.arg = arg])
    BY <2>1, <1>b DEF IsRequest, Args, Alone, ToAnother
  <2>4. QED  BY <1>9, <2>2, <2>3 DEF Registers, TypeOK, history
<1>10. CASE ChecksHistory(i) \/ LooksAtOwner(i)
  <2>1. IsRequest([r EXCEPT !.step = "write"])
    BY <1>b, <1>10 DEF IsRequest, ChecksHistory, LooksAtOwner
  <2>2. reqs' = [reqs EXCEPT ![i] = [r EXCEPT !.step = "write"]]
    BY <1>10 DEF ChecksHistory, LooksAtOwner, TypeOK
  <2>3. QED  BY <1>10, <2>1, <2>2 DEF ChecksHistory, LooksAtOwner, TypeOK, history
<1>11. CASE Inserts(i)
  <2>1. r.arg \in Registration
    BY <1>11, <1>a, ServedType DEF Inserts
  <2>2. NewUser(r.arg.name, "USER", r.arg.sub = None, r.arg.sub) \in Account
    BY <2>1 DEF NewUser, Account, Registration, Roles
  <2>3. PICK u \in Users : /\ users' = [users EXCEPT ![u] = NewUser(r.arg.name, "USER", r.arg.sub = None, r.arg.sub)]
                           /\ OpenSession(u, closings[u])
    BY <1>11 DEF Inserts
  <2>4. Row
    BY <2>2, <2>3, <1>f DEF Row
  <2>5. sessions' \subseteq [u : Users, closings : Nat, late : BOOLEAN]
    BY <2>3, OpenSessionType DEF TypeOK
  <2>6. Rest
    BY <1>11, <2>5 DEF Inserts, Rest, TypeOK
  <2>7. QED  BY <1>11, <2>4, <2>6, <1>c DEF Inserts
<1>12. CASE Renames(i)
  <2>1. r.arg \in Names
    BY <1>12, <1>a, ServedType DEF Renames
  <2>a. r.by \in Users /\ users[r.by] \in Account
        /\ users' = [users EXCEPT ![r.by] = [users[r.by] EXCEPT !.name = r.arg]]
    BY <1>12, <1>f DEF Renames, Alone, ToAnother
  <2>b. [users[r.by] EXCEPT !.name = r.arg] \in Account
    BY <2>a, <2>1 DEF Account
  <2>2. Row
    BY <2>a, <2>b, <1>f DEF Row
  <2>3. Rest
    BY <1>12 DEF Renames, Rest, TypeOK, Alone, Account, history
  <2>4. QED  BY <1>12, <2>2, <2>3, <1>c DEF Renames
<1>13. CASE BansUser(i)
  <2>a. r.to \in Users /\ users[r.to] \in Account
        /\ users' = [users EXCEPT ![r.to] = [users[r.to] EXCEPT !.banned = TRUE]]
    BY <1>13, <1>f DEF BansUser, Alone, ToAnother
  <2>b. [users[r.to] EXCEPT !.banned = TRUE] \in Account
    BY <2>a DEF Account
  <2>1. Row
    BY <2>a, <2>b, <1>f DEF Row
  <2>2. Rest
    BY <1>13, CloseSessionsType DEF BansUser, Rest, TypeOK, ToAnother
  <2>3. QED  BY <1>13, <2>1, <2>2, <1>c DEF BansUser
<1>14. CASE UnbansUser(i)
  <2>a. r.to \in Users /\ users[r.to] \in Account
        /\ users' = [users EXCEPT ![r.to] = [users[r.to] EXCEPT !.banned = FALSE]]
    BY <1>14, <1>f DEF UnbansUser, Alone, ToAnother
  <2>b. [users[r.to] EXCEPT !.banned = FALSE] \in Account
    BY <2>a DEF Account
  <2>1. Row
    BY <2>a, <2>b, <1>f DEF Row
  <2>2. QED  BY <1>14, <2>1, <1>c, <1>d DEF UnbansUser
<1>15. CASE Updates(i)
  <2>1. PICK role \in Roles, active \in BOOLEAN :
           users' = [users EXCEPT ![r.to] = [users[r.to] EXCEPT !.role = role, !.active = active]]
    BY <1>15, Updated DEF r
  <2>2. [users[r.to] EXCEPT !.role = role, !.active = active] \in Account
    BY <1>15, Updated DEF Account, r
  <2>3. Row
    BY <2>1, <2>2, <1>f DEF Row
  <2>4. Rest
    BY <1>15, CloseSessionsType DEF Updates, Rest, TypeOK, ToAnother
  <2>5. QED  BY <1>15, <2>3, <2>4, <1>c DEF Updates
<1>16. CASE Deletes(i)
  <2>1. Row
    BY <1>16, <1>f DEF Deletes, Row
  <2>2. Rest
    BY <1>16, CloseSessionsType DEF Deletes, Rest, TypeOK, ToAnother
  <2>3. QED  BY <1>16, <2>1, <2>2, <1>c DEF Deletes
<1>17. CASE LinksGoogle(i) \/ UnlinksGoogle(i)
  <2>1. r.kind = "link" => r.arg \in Subs
    BY <1>a, ServedType
  <2>2. Row
    BY <1>17, <2>1, <1>f DEF LinksGoogle, UnlinksGoogle, Account, Row
  <2>3. QED  BY <1>17, <2>2, <1>c, <1>d DEF LinksGoogle, UnlinksGoogle
<1>18. CASE Shares(i) \/ Unshares(i)
  <2>1. Rest
    BY <1>18 DEF Shares, Unshares, Rest, TypeOK, ToAnother, history
  <2>2. QED  BY <1>18, <2>1, <1>c, <1>e DEF Shares, Unshares
<1>19. CASE StartsServer(i) \/ StartsTask(i)
  <2>1. Rest
    BY <1>19 DEF StartsServer, StartsTask, Starts, Rest, TypeOK
  <2>2. QED  BY <1>19, <2>1, <1>c, <1>e DEF StartsServer, StartsTask
<1>20. QED
  BY <1>1, <1>2, <1>3, <1>4, <1>5, <1>6, <1>7, <1>8, <1>9, <1>10, <1>11, <1>12, <1>13,
     <1>14, <1>15, <1>16, <1>17, <1>18, <1>19 DEF Serves

\* What is not a request.
LEMMA OthersType ==
    ASSUME TypeOK, StopsForBan \/ BanStopFails \/ Ends \/ Restarts \/ \E u \in Users : LockEnds(u)
    PROVE  TypeOK'
<1>1. CASE StopsForBan \/ BanStopFails \/ Ends \/ Restarts
  BY <1>1 DEF StopsForBan, BanStopFails, Ends, Restarts, Starts, TypeOK, history
<1>2. ASSUME NEW u \in Users, LockEnds(u) PROVE TypeOK'
  <2>1. users[u] \in Account
    BY <1>2 DEF LockEnds, Exists, TypeOK
  <2>2. users' \in [Users -> Account \cup {None}]
    BY <1>2, <2>1 DEF LockEnds, TypeOK, Account
  <2>3. QED  BY <1>2, <2>2 DEF LockEnds, TypeOK, history
<1>3. QED  BY <1>1, <1>2

\* The types hold at first ...
LEMMA TypeBegins ==
    ASSUME Init
    PROVE  TypeOK
<1>1. First[1] \in Names /\ First[2] \in Names
  BY AccountsAssumption
<1>2. \A name \in Names, role \in Roles : NewUser(name, role, TRUE, None) \in Account
  BY DEF NewUser, Account
<1>3. PICK admin \in Users, other \in Users, role \in Roles :
         /\ users = [u \in Users |->
               IF u = admin THEN NewUser(First[1], "ADMIN", TRUE, None)
               ELSE IF u = other THEN NewUser(First[2], role, TRUE, None) ELSE None]
         /\ sessions = {[u |-> u, closings |-> 0, late |-> FALSE] : u \in {admin, other}}
         /\ server = [owner |-> other, state |-> "off", stopping |-> FALSE]
  BY DEF Init
<1>4. users \in [Users -> Account \cup {None}]
  BY <1>1, <1>2, <1>3 DEF Roles
<1>5. sessions \subseteq [u : Users, closings : Nat, late : BOOLEAN]
  <2>1. \A u \in Users : [u |-> u, closings |-> 0, late |-> FALSE]
                             \in [u : Users, closings : Nat, late : BOOLEAN]
    OBVIOUS
  <2>2. \A s \in sessions : \E u \in Users : s = [u |-> u, closings |-> 0, late |-> FALSE]
    BY <1>3
  <2>3. QED  BY <2>1, <2>2
<1>6. invites \in [Invites -> {None, "free", "used", "revoked"}] /\ opened \in [Invites -> Nat]
  BY DEF Init
<1>7. QED  BY <1>3, <1>4, <1>5, <1>6 DEF Init, TypeOK

\* ... and every step keeps them.
LEMMA TypeKept ==
    ASSUME TypeOK, [Next]_vars
    PROVE  TypeOK'
<1>1. CASE UNCHANGED vars
  BY <1>1 DEF vars, TypeOK
<1>2. CASE Next
  BY <1>2, Arrivals, RequestBegins, ServesType, OthersType DEF Next, IsArrival
<1>3. QED  BY <1>1, <1>2

\* Accounts, names, sessions, invitations, the server and the table of requests stay
\* what they are, and each request carries what its kind needs, through every
\* route of auth.py, users.py and members.py.
THEOREM TypeCorrect == Spec => []TypeOK
  BY TypeBegins, TypeKept, PTL DEF Spec

-----------------------------------------------------------------------------
(***************************************************************************)
(* Sessions.                                                               *)
(***************************************************************************)
\* Once its sessions are closed, an account has none that is older than that.
LEMMA ClosingEnds ==
    ASSUME TypeOK, SessionsEnd, NEW u \in Users, CloseSessions(u)
    PROVE  SessionsEnd'
  BY DEF TypeOK, SessionsEnd, CloseSessions

\* A session says whether the sessions of its account were closed since it was checked.
LEMMA OpeningTells ==
    ASSUME TypeOK, SessionsEnd, NEW u \in Users, NEW since \in Nat, OpenSession(u, since),
           UNCHANGED closings
    PROVE  SessionsEnd'
<1> DEFINE late == since # closings[u]
<1>1. sessions' = sessions \cup {[u |-> u, closings |-> since, late |-> late]}
  BY DEF OpenSession
<1>2. since = closings[u] \/ late
  OBVIOUS
<1> HIDE DEF late
<1>3. QED  BY <1>1, <1>2 DEF SessionsEnd

\* auth_service.py: a change of password, of role, a ban, a disabling or a deletion
\* closes every session opened before, except that of a sign-in which had read the
\* account already, whatever is served at the same time.
THEOREM SessionsEndCorrect == Spec => []SessionsEnd
<1>1. Init => SessionsEnd
  <2> SUFFICES ASSUME Init PROVE SessionsEnd
    OBVIOUS
  <2>1. \E a, b \in Users : sessions = {[u |-> u, closings |-> 0, late |-> FALSE] : u \in {a, b}}
    BY DEF Init
  <2>2. \A s \in sessions : s.u \in Users /\ s.closings = 0
    BY <2>1
  <2>3. closings = [u \in Users |-> 0]
    BY DEF Init
  <2>4. QED  BY <2>2, <2>3 DEF SessionsEnd
<1>2. TypeOK /\ SessionsEnd /\ [Next]_vars => SessionsEnd'
  <2> SUFFICES ASSUME TypeOK, SessionsEnd, [Next]_vars PROVE SessionsEnd'
    OBVIOUS
  <2>a. UNCHANGED <<sessions, closings>> => SessionsEnd'
    BY DEF SessionsEnd
  <2>1. CASE UNCHANGED vars
    BY <2>1, <2>a DEF vars
  <2>2. CASE (\E u \in Users : Exists(u) /\ Asks(u)) \/ Arrives
    BY <2>2, <2>a, Arrivals DEF Begin
  <2>3. CASE StopsForBan \/ BanStopFails \/ Ends \/ Restarts \/ \E u \in Users : LockEnds(u)
    BY <2>3, <2>a DEF StopsForBan, BanStopFails, Ends, Restarts, LockEnds, history
  <2>4. ASSUME NEW i \in Slots, Serves(i) PROVE SessionsEnd'
    <3>1. CASE SignsIn(i) \/ SignsInWithGoogle(i)
      BY <3>1, OpeningTells, ServedType DEF SignsIn, SignsInWithGoogle, Is, ToAnother, history
    <3>2. CASE Inserts(i)
      BY <3>2, OpeningTells DEF Inserts, TypeOK
    <3>3. CASE ChangesPassword(i)
      BY <3>3, ClosingEnds, ServedType DEF ChangesPassword, Acts, Is, Alone
    <3>4. CASE BansUser(i) \/ Deletes(i)
      BY <3>4, ClosingEnds, ServedType DEF BansUser, Deletes, Acts, Is, ToAnother
    <3>5. CASE Updates(i)
      BY <3>5, <2>a, ClosingEnds, ServedType DEF Updates, Acts, Is, ToAnother
    <3>6. CASE SignsOut(i)
      BY <3>6 DEF SignsOut, SessionsEnd, history
    <3>7. CASE UNCHANGED <<sessions, closings>>
      BY <3>7, <2>a
    <3>8. QED
      BY <2>4, <3>1, <3>2, <3>3, <3>4, <3>5, <3>6, <3>7
         DEF Serves, Fails, LogsIn, Miscounts, Creates, ChangesMode, CreatesInvitation,
             RevokesInvitation, Registers, ChecksHistory, Renames, UnbansUser, LinksGoogle,
             UnlinksGoogle, Shares, Unshares, StartsServer, LooksAtOwner, StartsTask, history
  <2>5. QED  BY <2>1, <2>2, <2>3, <2>4 DEF Next
<1>3. QED  BY <1>1, <1>2, TypeCorrect, PTL DEF Spec

-----------------------------------------------------------------------------
(***************************************************************************)
(* The server of a banned account.                                         *)
(***************************************************************************)
\* What leaves the server alone and bans nobody keeps the server of a banned account
\* stopped.
LEMMA NobodyIsBanned ==
    ASSUME BannedServersStop, UNCHANGED <<server, slipped>>,
           users'[server.owner].banned => users[server.owner].banned
    PROVE  BannedServersStop'
  BY DEF BannedServersStop

\* lifecycle_service.py:32, account_service.py: whatever is served at the same time,
\* the server of a banned account does not run, or is being stopped, unless it was
\* started by what had read the account before the ban, or by an automatic restart, or
\* the stop that the ban launched failed.
THEOREM BannedServersStopCorrect == Spec => []BannedServersStop
<1>1. Init => BannedServersStop
  BY DEF Init, BannedServersStop
<1>2. TypeOK /\ BannedServersStop /\ [Next]_vars => BannedServersStop'
  <2> SUFFICES ASSUME TypeOK, BannedServersStop, [Next]_vars PROVE BannedServersStop'
    OBVIOUS
  <2>a. UNCHANGED <<users, server, slipped>> => BannedServersStop'
    BY DEF BannedServersStop
  <2>b. /\ server \in [owner : Users, state : {"on", "off", "crashed"}, stopping : BOOLEAN]
        /\ users \in [Users -> Account \cup {None}] /\ slipped \in BOOLEAN
    BY DEF TypeOK
  <2>1. CASE UNCHANGED vars
    BY <2>1, <2>a DEF vars
  <2>2. CASE (\E u \in Users : Exists(u) /\ Asks(u)) \/ Arrives
    BY <2>2, <2>a, Arrivals DEF Begin
  <2>3. CASE StopsForBan \/ BanStopFails \/ Ends \/ Restarts
    BY <2>3, <2>b DEF StopsForBan, BanStopFails, Ends, Restarts, Starts, BannedServersStop, history
  <2>4. ASSUME NEW u \in Users, LockEnds(u) PROVE BannedServersStop'
    BY <2>4, <2>b, NobodyIsBanned DEF LockEnds, Exists, Account, history
  <2>5. ASSUME NEW i \in Slots, Serves(i) PROVE BannedServersStop'
    <3> USE DEF Is, Acts, Exists, history
    <3>1. CASE BansUser(i)
      BY <3>1, <2>b, ServedType DEF BansUser, BannedServersStop, ToAnother, Account
    <3>2. CASE StartsServer(i) \/ StartsTask(i)
      BY <3>2, <2>b, ServedType DEF StartsServer, StartsTask, Starts, BannedServersStop
    <3>3. CASE Miscounts(i)
      BY <3>3, <2>b, ServedType, NobodyIsBanned DEF Miscounts, ToAnother, Account
    <3>8. CASE SignsIn(i) \/ SignsInWithGoogle(i)
      <4>1. reqs[i].to \in Users /\ users[reqs[i].to] \in Account
        BY <3>8, <2>b, ServedType DEF SignsIn, SignsInWithGoogle, ToAnother
      <4>2. Cleared(reqs[i], users[reqs[i].to]).banned = users[reqs[i].to].banned
        BY <4>1 DEF Cleared, Account
      <4>3. /\ users' = [users EXCEPT ![reqs[i].to] = Cleared(reqs[i], users[reqs[i].to])]
            /\ UNCHANGED <<server, slipped>>
        BY <3>8, <4>1 DEF SignsIn, SignsInWithGoogle
      <4>4. QED  BY <4>2, <4>3, <2>b, NobodyIsBanned
    <3>4. CASE ChangesPassword(i) \/ Renames(i) \/ LinksGoogle(i) \/ UnlinksGoogle(i)
      BY <3>4, <2>b, ServedType, NobodyIsBanned
         DEF ChangesPassword, Renames, LinksGoogle, UnlinksGoogle, Alone, Account
    <3>5. CASE UnbansUser(i) \/ Deletes(i)
      BY <3>5, <2>b, ServedType, NobodyIsBanned DEF UnbansUser, Deletes, ToAnother, Account
    <3>10. CASE Updates(i)
      <4>1. PICK role \in Roles, active \in BOOLEAN :
               users' = [users EXCEPT ![reqs[i].to] =
                           [users[reqs[i].to] EXCEPT !.role = role, !.active = active]]
        BY <3>10, Updated
      <4>2. reqs[i].to \in Users /\ users[reqs[i].to] \in Account
        BY <3>10, Updated
      <4>3. users'[reqs[i].to].banned = users[reqs[i].to].banned
        BY <4>1, <4>2, <2>b DEF Account
      <4>4. UNCHANGED <<server, slipped>>
        BY <3>10 DEF Updates
      <4>5. QED  BY <4>1, <4>2, <4>3, <4>4, <2>b, NobodyIsBanned
    <3>6. CASE Creates(i) \/ Inserts(i)
      BY <3>6, <2>b, NobodyIsBanned DEF Creates, Inserts, NewUser
    <3>7. CASE UNCHANGED <<users, server, slipped>>
      BY <3>7, <2>a
    <3>9. QED
      BY <2>5, <3>1, <3>2, <3>3, <3>4, <3>5, <3>6, <3>7, <3>8, <3>10
         DEF Serves, Fails, LogsIn, SignsOut, ChangesMode, CreatesInvitation,
             RevokesInvitation, Registers, ChecksHistory, Shares, Unshares, LooksAtOwner
  <2>6. QED  BY <2>1, <2>2, <2>3, <2>4, <2>5 DEF Next
<1>3. QED  BY <1>1, <1>2, TypeCorrect, PTL DEF Spec
-----------------------------------------------------------------------------
(***************************************************************************)
(* What requests served at the same time owe each other.                   *)
(***************************************************************************)
Pending(i, kind) == reqs[i] # None /\ reqs[i].kind = kind

\* What two requests are about together has been noted.
Meeting ==
    \A i, j \in Slots :
        i # j /\ reqs[i] # None /\ reqs[j] # None => Meets(reqs[i], reqs[j]) \subseteq met

\* A change of rights that meets no other is that of someone who is still an administrator.
RightsHeld ==
    \A i \in Slots :
        Pending(i, "update") \/ Pending(i, "delete") =>
            "rights" \in met \/ (reqs[i].by \in Admins /\ reqs[i].me.role = "ADMIN")

Free(name, us) == ~NameTaken(name, us) /\ ~NameLeft(name, us)

\* What a registration has checked of its name still holds, and the name an account
\* gives up by a pending change is nobody else's.
NameHolds(r) ==
    /\ r.kind = "register" =>
          \/ Fold(r.arg.name) \in met
          \/ /\ r.step # "read" => ~NameTaken(r.arg.name, Users)
             /\ r.step = "write" => ~NameLeft(r.arg.name, Users)
    /\ r.kind = "rename" => Fold(r.me.name) \in met \/ Free(r.me.name, Users \ {r.by})

NamesHold == \A i \in Slots : reqs[i] # None => NameHolds(reqs[i])

Unopened(v) == opened[v] = 0 \/ v \in met

\* An invitation that is free, or that a registration holds, has opened no account.
InvitationsAreFresh ==
    /\ \A v \in Invites : invites[v] \in {None, "free"} => Unopened(v)
    /\ \A i \in Slots : Pending(i, "register") /\ reqs[i].step # "read" =>
          reqs[i].arg.invite = None \/ Unopened(reqs[i].arg.invite)

\* What a request is about, by its kind.
LEMMA AboutKinds ==
    ASSUME NEW r
    PROVE  /\ r.kind = "register" => About(r) = {Fold(r.arg.name)} \cup ({r.arg.invite} \ {None})
           /\ r.kind = "rename" => About(r) = {Fold(r.arg), Fold(r.me.name)}
           /\ r.kind = "create" => About(r) = {Fold(r.arg.name)}
           /\ r.kind \in {"update", "delete", "ban"} => About(r) = {"rights"}
           /\ r.kind \notin {"register", "rename", "create", "update", "delete", "ban"} => About(r) = {}
  BY DEF About

\* Serving a request ends it or moves it on, for the same account and about no more.
LEMMA ServingMoves ==
    ASSUME TypeOK, NEW i \in Slots, Serves(i)
    PROVE  /\ reqs[i] # None /\ met \subseteq met'
           /\ \A j \in Slots \ {i} : reqs'[j] = reqs[j]
           /\ reqs'[i] # None => /\ reqs'[i].kind = reqs[i].kind
                                 /\ reqs'[i].kind \in Alone
                                 /\ About(reqs'[i]) \subseteq About(reqs[i])
<1> USE DEF Is, Acts
<1>1. CASE LogsIn(i) \/ LooksAtOwner(i) \/ ChecksHistory(i)
  <2>1. /\ reqs[i] # None /\ met' = met
        /\ \A j \in Slots \ {i} : reqs'[j] = reqs[j]
        /\ reqs'[i].kind = reqs[i].kind /\ reqs'[i].arg = reqs[i].arg
        /\ reqs[i].kind \in Alone
    BY <1>1, ServedType
       DEF LogsIn, LooksAtOwner, ChecksHistory, TypeOK, IsRequest, Alone, history
  <2>2. QED  BY <2>1, AboutKinds DEF Alone
<1>2. CASE Registers(i)
  <2>1. reqs[i] # None /\ reqs[i].kind = "register" /\ reqs[i].arg \in Registration
    BY <1>2, ServedType DEF Registers
  <2>2. /\ reqs'[i].kind = "register" /\ reqs'[i].arg.name = reqs[i].arg.name
        /\ reqs'[i].arg.invite \in {reqs[i].arg.invite, None}
        /\ met' = met /\ \A j \in Slots \ {i} : reqs'[j] = reqs[j]
    BY <1>2, <2>1, ServedType DEF Registers, TypeOK, IsRequest, Registration, history
  <2>3. QED  BY <2>1, <2>2, AboutKinds DEF Alone
<1>3. CASE Done(i) /\ met \subseteq met' /\ reqs[i] # None
  BY <1>3, DoneType
<1>4. QED
  BY <1>1, <1>2, <1>3
     DEF Serves, Fails, Miscounts, SignsIn, SignsInWithGoogle, SignsOut, ChangesPassword,
         Creates, ChangesMode, CreatesInvitation, RevokesInvitation, Inserts, Renames, BansUser,
         UnbansUser, Updates, Deletes, LinksGoogle, UnlinksGoogle, Shares, Unshares,
         StartsServer, StartsTask, history

\* Two requests served at the same time are noted to have met, and stay so.
LEMMA MeetingKept ==
    ASSUME TypeOK, Meeting, [Next]_vars
    PROVE  Meeting' /\ met \subseteq met'
<1>a. UNCHANGED <<reqs, met>> => Meeting' /\ met \subseteq met'
  BY DEF Meeting, Meets, About
<1>1. CASE UNCHANGED vars
  BY <1>1, <1>a DEF vars
<1>2. CASE (\E u \in Users : Exists(u) /\ Asks(u)) \/ Arrives
  <2>1. PICK r : IsArrival(r) /\ Begin(r)
    BY <1>2, Arrivals
  <2>2. PICK i \in Slots :
           /\ reqs[i] = None /\ reqs' = [reqs EXCEPT ![i] = r]
           /\ met' = met \cup UNION {Meets(r, reqs[j]) : j \in {k \in Slots : reqs[k] # None}}
    BY <2>1 DEF Begin
  <2>3. \A j \in Slots \ {i} : reqs'[j] = reqs[j]
    BY <2>2 DEF TypeOK
  <2>4. reqs'[i] = r
    BY <2>2 DEF TypeOK
  <2>5. \A j \in Slots : reqs[j] # None => Meets(r, reqs[j]) \subseteq met'
    BY <2>2
  <2>6. \A q : Meets(q, r) = Meets(r, q)
    BY DEF Meets
  <2>7. QED  BY <2>2, <2>3, <2>4, <2>5, <2>6 DEF Meeting
<1>3. CASE StopsForBan \/ BanStopFails \/ Ends \/ Restarts \/ \E u \in Users : LockEnds(u)
  BY <1>3, <1>a DEF StopsForBan, BanStopFails, Ends, Restarts, LockEnds, history
<1>4. ASSUME NEW i \in Slots, Serves(i) PROVE Meeting' /\ met \subseteq met'
  <2>1. /\ reqs[i] # None /\ met \subseteq met'
        /\ \A j \in Slots \ {i} : reqs'[j] = reqs[j]
        /\ reqs'[i] # None => /\ reqs'[i].kind = reqs[i].kind
                              /\ About(reqs'[i]) \subseteq About(reqs[i])
    BY <1>4, ServingMoves
  <2>2. \A q : reqs'[i] # None => /\ Meets(reqs'[i], q) \subseteq Meets(reqs[i], q)
                                  /\ Meets(q, reqs'[i]) \subseteq Meets(q, reqs[i])
    BY <2>1 DEF Meets
  <2>3. QED  BY <2>1, <2>2 DEF Meeting
<1>5. QED  BY <1>1, <1>2, <1>3, <1>4 DEF Next

-----------------------------------------------------------------------------
(***************************************************************************)
(* Administrators.                                                         *)
(***************************************************************************)
\* What sets nobody aside leaves every administrator.
Spares == \A u \in Admins : Exists(u)' /\ users'[u].role = users[u].role
                            /\ users'[u].active = users[u].active
                            /\ (users'[u].banned => users[u].banned)

\* Who is not set aside remains an administrator.
LEMMA SparedRemain ==
    ASSUME Spares
    PROVE  Admins \subseteq Admins'
  BY DEF Spares, Admins, Usable, Exists

\* Only a ban, a change of role or activation, and a deletion set anyone aside.
LEMMA ServesSpares ==
    ASSUME TypeOK, NEW i \in Slots, Serves(i), ~BansUser(i), ~Updates(i), ~Deletes(i)
    PROVE  Admins \subseteq Admins'
<1> USE DEF Is, Acts, Exists
<1> SUFFICES Spares
  BY SparedRemain
<1>a. users \in [Users -> Account \cup {None}] /\ None \notin Account
  BY AccountsAssumption DEF TypeOK
<1>b. \A u \in Admins : u \in Users /\ users[u] \in Account
  BY <1>a DEF Admins, Usable
<1>c. users' \in [Users -> Account \cup {None}]
  BY ServesType DEF TypeOK
<1> USE <1>a, <1>b
<1>1. CASE UNCHANGED users
  BY <1>1 DEF Spares
<1>2. CASE Miscounts(i)
  BY <1>2, ServedType DEF Miscounts, ToAnother, Account, Spares
<1>3. CASE SignsIn(i) \/ SignsInWithGoogle(i)
  <2>1. reqs[i].to \in Users /\ users[reqs[i].to] \in Account
    BY <1>3, ServedType DEF SignsIn, SignsInWithGoogle, ToAnother
  <2> DEFINE account == users[reqs[i].to]
             cleared == Cleared(reqs[i], account)
  <2>2. cleared \in Account
    BY <2>1 DEF Cleared, Account
  <2>3. /\ cleared.banned = account.banned
        /\ cleared.role = account.role /\ cleared.active = account.active
    BY <2>1 DEF Cleared, Account
  <2>4. users' = [users EXCEPT ![reqs[i].to] = cleared]
    BY <1>3, <2>1 DEF SignsIn, SignsInWithGoogle
  <2> HIDE DEF cleared
  <2>5. QED  BY <2>1, <2>2, <2>3, <2>4 DEF Spares
<1>4. CASE ChangesPassword(i) \/ Renames(i) \/ LinksGoogle(i) \/ UnlinksGoogle(i)
  <2>1. reqs[i].by \in Users /\ users[reqs[i].by] \in Account
    BY <1>4, ServedType DEF ChangesPassword, Renames, LinksGoogle, UnlinksGoogle, Alone
  <2> DEFINE account == users[reqs[i].by]
  <2>2. \E new \in Account :
           /\ users' = [users EXCEPT ![reqs[i].by] = new]
           /\ new.role = account.role /\ new.active = account.active
           /\ new.banned = account.banned
    <3>1. CASE ChangesPassword(i)
      <4>1. [account EXCEPT !.pass = TRUE] \in Account
        BY <2>1 DEF Account
      <4>2. users' = [users EXCEPT ![reqs[i].by] = [account EXCEPT !.pass = TRUE]]
        BY <3>1, <2>1 DEF ChangesPassword
      <4>3. QED  BY <2>1, <4>1, <4>2 DEF Account
    <3>2. CASE Renames(i)
      <4>1. [account EXCEPT !.name = reqs[i].arg] \in Account
        BY <3>2, <2>1, ServedType DEF Renames, Account
      <4>2. users' = [users EXCEPT ![reqs[i].by] = [account EXCEPT !.name = reqs[i].arg]]
        BY <3>2, <2>1 DEF Renames
      <4>3. QED  BY <2>1, <4>1, <4>2 DEF Account
    <3>3. CASE LinksGoogle(i) \/ UnlinksGoogle(i)
      <4>1. PICK sub \in Subs \cup {None} :
               users' = [users EXCEPT ![reqs[i].by] = [account EXCEPT !.sub = sub]]
        BY <3>3, <2>1, ServedType DEF LinksGoogle, UnlinksGoogle
      <4>2. [account EXCEPT !.sub = sub] \in Account
        BY <2>1 DEF Account
      <4>3. QED  BY <2>1, <4>1, <4>2 DEF Account
    <3>4. QED  BY <1>4, <3>1, <3>2, <3>3
  <2>3. QED  BY <2>1, <2>2, <1>c DEF Spares
<1>5. CASE UnbansUser(i)
  <2>1. reqs[i].to \in Users /\ users[reqs[i].to] \in Account
    BY <1>5, ServedType DEF UnbansUser, ToAnother
  <2> DEFINE account == users[reqs[i].to]
             new == [account EXCEPT !.banned = FALSE]
  <2>2. users' = [users EXCEPT ![reqs[i].to] = new]
    BY <1>5, <2>1 DEF UnbansUser
  <2>3. /\ new \in Account /\ ~new.banned
        /\ new.role = account.role /\ new.active = account.active
    BY <2>1 DEF Account
  <2> HIDE DEF new
  <2>4. QED  BY <2>1, <2>2, <2>3 DEF Spares
<1>6. CASE Creates(i) \/ Inserts(i)
  <2>1. \E u \in Users : users[u] = None /\ \E new : users' = [users EXCEPT ![u] = new]
    BY <1>6 DEF Creates, Inserts, New
  <2>2. PICK u \in Users : users[u] = None /\ \E new : users' = [users EXCEPT ![u] = new]
    BY <2>1
  <2>3. \A v \in Admins : users'[v] = users[v]
    BY <2>2
  <2>4. QED  BY <2>3 DEF Spares
<1>7. QED
  BY <1>1, <1>2, <1>3, <1>4, <1>5, <1>6
     DEF Serves, Fails, LogsIn, SignsOut, ChangesMode, CreatesInvitation, RevokesInvitation,
         Registers, ChecksHistory, Shares, Unshares, StartsServer, LooksAtOwner, StartsTask

\* A ban leaves an administrator: they are counted without the account.
LEMMA BanSpares ==
    ASSUME TypeOK, NEW i \in Slots, BansUser(i), Admins # {}
    PROVE  Admins' # {}
<1>a. users \in [Users -> Account \cup {None}]
  BY DEF TypeOK
<1>1. PICK u \in Admins : u # reqs[i].to
  BY DEF BansUser, Admins
<1>2. users'[u] = users[u] /\ u \in Users
  BY <1>1, <1>a DEF BansUser, Admins
<1>3. QED  BY <1>1, <1>2 DEF Admins

\* The administrator who changes or deletes an account keeps the role.
LEMMA ChangeSpares ==
    ASSUME TypeOK, NEW i \in Slots, Updates(i) \/ Deletes(i),
           reqs[i].by \in Admins, reqs[i].me.role = "ADMIN"
    PROVE  Admins' # {}
<1>a. users \in [Users -> Account \cup {None}] /\ None \notin Account
  BY AccountsAssumption DEF TypeOK
<1> DEFINE r == reqs[i]
<1>b. r.by \in Users /\ users[r.by] \in Account /\ r.to \in Users
  BY <1>a, ServedType DEF Admins, Usable, Updates, Deletes, Acts, Is, ToAnother
<1>1. CASE r.to # r.by
  <2>1. users'[r.by] = users[r.by]
    BY <1>1, <1>a, <1>b DEF Updates, Deletes
  <2>2. QED  BY <2>1, <1>b DEF Admins
<1>2. CASE r.to = r.by
  <2>1. Updates(i) /\ r.arg.role \in {"ADMIN", "keep"} /\ r.arg.active \in {"keep", "enable"}
    <3>1. Updates(i)
      BY <1>2 DEF Deletes
    <3>2. r.arg.role \in {r.me.role, "keep"} /\ r.arg.active # "disable"
      BY <3>1, <1>2 DEF Updates
    <3>3. QED  BY <3>1, <3>2, Updated DEF Update, Activations
  <2>2. users[r.by].role = "ADMIN" /\ users[r.by].active /\ ~users[r.by].banned
    BY DEF Admins, Usable
  <2>3. PICK role \in Roles, active \in BOOLEAN :
           /\ role = IF r.arg.role = "keep" THEN users[r.to].role ELSE r.arg.role
           /\ active = IF r.arg.active = "keep" THEN users[r.to].active
                      ELSE r.arg.active = "enable"
           /\ users' = [users EXCEPT ![r.to] =
                          [users[r.to] EXCEPT !.role = role, !.active = active]]
    BY <2>1, Updated
  <2>4. role = "ADMIN" /\ active
    BY <2>1, <2>2, <2>3, <1>2 DEF Roles
  <2>5. users'[r.by] = [users[r.by] EXCEPT !.role = role, !.active = active]
    BY <2>3, <1>2, <1>a, <1>b
  <2>6. users'[r.by] \in Account
    BY <2>5, <1>b DEF Account
  <2>7. users'[r.by].role = "ADMIN" /\ users'[r.by].active /\ ~users'[r.by].banned
    BY <2>2, <2>4, <2>5, <1>b DEF Account
  <2>8. QED  BY <2>6, <2>7, <1>a, <1>b DEF Admins, Usable
<1>3. QED  BY <1>1, <1>2

\* users.py, account_service.py: while no two changes of rights, deletions or bans (but
\* two bans) are served at the same time, an administrator who can sign in is left.
THEOREM AdminRemainsCorrect == Spec => []AdminRemains
<1> DEFINE Inv == TypeOK /\ Meeting /\ RightsHeld /\ AdminRemains
<1>1. Init => Inv
  <2> SUFFICES ASSUME Init PROVE Inv
    OBVIOUS
  <2>1. TypeOK
    BY TypeBegins
  <2>2. PICK admin \in Users : users[admin] = NewUser(First[1], "ADMIN", TRUE, None)
    BY DEF Init
  <2>3. admin \in Admins
    <3>1. NewUser(First[1], "ADMIN", TRUE, None) \in Account
      BY AccountsAssumption DEF NewUser, Account, Roles
    <3>2. QED  BY <2>2, <3>1, AccountsAssumption DEF Admins, Usable, NewUser
  <2>4. \A i \in Slots : reqs[i] = None
    BY DEF Init
  <2>5. QED  BY <2>1, <2>3, <2>4 DEF Meeting, RightsHeld, Pending, AdminRemains
<1>2. Inv /\ [Next]_vars => Inv'
  <2> SUFFICES ASSUME Inv, [Next]_vars PROVE RightsHeld' /\ AdminRemains'
    BY TypeKept, MeetingKept
  <2>a. met \subseteq met'
    BY MeetingKept
  <2>b. CASE "rights" \in met
    BY <2>a, <2>b DEF RightsHeld, AdminRemains
  <2>c. CASE "rights" \notin met
    <3>a. Admins # {}
      BY <2>c DEF AdminRemains
    <3>b. UNCHANGED <<users, reqs>> => RightsHeld' /\ AdminRemains'
      BY <2>c, <3>a, <2>a DEF RightsHeld, AdminRemains, Pending, Admins
    <3>1. CASE UNCHANGED vars \/ StopsForBan \/ BanStopFails \/ Ends \/ Restarts
      BY <3>1, <3>b DEF vars, StopsForBan, BanStopFails, Ends, Restarts, history
    <3>2. CASE (\E u \in Users : Exists(u) /\ Asks(u)) \/ Arrives
      <4>1. PICK r : IsArrival(r) /\ Begin(r)
        BY <3>2, Arrivals
      <4>2. PICK i \in Slots : reqs' = [reqs EXCEPT ![i] = r] /\ UNCHANGED users
        BY <4>1 DEF Begin
      <4>3. r.kind \in {"update", "delete"} => r.by \in Admins /\ r.me.role = "ADMIN"
        BY <4>1 DEF IsArrival, Alone, Admins
      <4>4. Admins' = Admins
        BY <4>2 DEF Admins
      <4>5. QED  BY <4>2, <4>3, <4>4, <3>a, <2>c DEF RightsHeld, AdminRemains, Pending, TypeOK
    <3>3. ASSUME NEW u \in Users, LockEnds(u) PROVE RightsHeld' /\ AdminRemains'
      <4>1. Admins \subseteq Admins'
        BY <3>3, AccountsAssumption DEF LockEnds, Admins, Usable, TypeOK, Account, Exists
      <4>2. QED  BY <3>3, <4>1, <3>a, <2>c DEF LockEnds, RightsHeld, AdminRemains, Pending, history
    <3>4. ASSUME NEW i \in Slots, Serves(i) PROVE RightsHeld' /\ AdminRemains'
      <4>a. /\ reqs[i] # None
            /\ \A j \in Slots \ {i} : reqs'[j] = reqs[j]
            /\ reqs'[i] # None => reqs'[i].kind \in Alone
        BY <3>4, ServingMoves
      <4>1. CASE BansUser(i) \/ Updates(i) \/ Deletes(i)
        <5>1. reqs[i].kind \in {"ban", "update", "delete"} /\ reqs'[i] = None
          BY <4>1 DEF BansUser, Updates, Deletes, Acts, Is, Done, TypeOK
        <5>2. \A j \in Slots \ {i} : ~Pending(j, "update") /\ ~Pending(j, "delete")
          BY <5>1, <4>a, <2>c, AboutKinds DEF Meeting, Meets, Pending
        <5>3. RightsHeld'
          BY <5>1, <5>2, <4>a DEF RightsHeld, Pending
        <5>4. CASE BansUser(i)
          BY <5>3, <5>4, <3>a, BanSpares DEF AdminRemains
        <5>5. CASE Updates(i) \/ Deletes(i)
          <6>1. Pending(i, "update") \/ Pending(i, "delete")
            BY <5>5 DEF Updates, Deletes, Acts, Is, Pending
          <6>2. QED  BY <5>3, <5>5, <6>1, <2>c, ChangeSpares DEF RightsHeld, AdminRemains
        <5>6. QED  BY <4>1, <5>4, <5>5
      <4>2. CASE ~(BansUser(i) \/ Updates(i) \/ Deletes(i))
        <5>1. Admins \subseteq Admins'
          BY <3>4, <4>2, ServesSpares
        <5>2. QED
          BY <5>1, <4>a, <3>a, <2>c DEF RightsHeld, AdminRemains, Pending, Alone
      <4>3. QED  BY <4>1, <4>2
    <3>5. QED  BY <3>1, <3>2, <3>3, <3>4 DEF Next
  <2>d. QED  BY <2>b, <2>c
<1>3. Inv => AdminRemains
  OBVIOUS
<1>4. QED  BY <1>1, <1>2, <1>3, PTL DEF Spec

-----------------------------------------------------------------------------
(***************************************************************************)
(* Names.                                                                  *)
(***************************************************************************)
\* Where no account takes a name and none is left, what was free stays free.
LEMMA NamesRest ==
    ASSUME TypeOK, NamesStayTheirs, NamesHold, met \subseteq met', left' \subseteq left,
           \A u \in Users : Exists(u)' => Exists(u) /\ users'[u].name = users[u].name,
           \A i \in Slots : reqs'[i] # None => reqs'[i] = reqs[i] \/ NameHolds(reqs'[i])
    PROVE  NamesStayTheirs' /\ NamesHold'
<1>1. \A name, us : us \subseteq Users /\ NameTaken(name, us)' => NameTaken(name, us)
  BY DEF NameTaken
<1>2. \A name, us : us \subseteq Users /\ NameLeft(name, us)' => NameLeft(name, us)
  BY DEF NameLeft
<1>3. NamesStayTheirs'
  BY DEF NamesStayTheirs, NameTaken, NameLeft, Exists
<1>4. \A i \in Slots : reqs'[i] # None => NameHolds(reqs'[i])
  BY DEF NamesHold
<1>5. NamesHold'
  BY <1>1, <1>2, <1>4 DEF NamesHold, NameHolds, Free
<1>6. QED  BY <1>3, <1>5

\* What is still pending is about none of these names, or has met who changes them.
Apart(names) ==
    \A i \in Slots : reqs'[i] # None =>
        /\ reqs'[i] = reqs[i]
        /\ reqs[i].kind = "register" =>
              \/ Fold(reqs[i].arg.name) \in met'
              \/ \A n \in names : Fold(n) # Fold(reqs[i].arg.name)
        /\ reqs[i].kind = "rename" =>
              \/ Fold(reqs[i].me.name) \in met'
              \/ \A n \in names : Fold(n) # Fold(reqs[i].me.name)

\* Where an account takes a name, and leaves some, all of them free but for it or met
\* by another request, nothing that was checked of another name changes.
LEMMA NamesTaken ==
    ASSUME TypeOK, NamesStayTheirs, NamesHold, met \subseteq met',
           NEW u \in Users, NEW names \in SUBSET Names,
           users'[u].name \in names, \A v \in Users \ {u} : users'[v] = users[v],
           left' \subseteq left \cup ({u} \X names),
           \A n \in names : Fold(n) \in met' \/ Free(n, Users \ {u}),
           Apart(names)
    PROVE  NamesStayTheirs' /\ NamesHold'
<1>1. \A n, us : /\ us \subseteq Users /\ \A g \in names : Fold(g) # Fold(n)
                 /\ NameTaken(n, us)'
                 => NameTaken(n, us)
  BY DEF NameTaken, Exists
<1>2. \A n, us : /\ us \subseteq Users /\ \A g \in names : Fold(g) # Fold(n)
                 /\ NameLeft(n, us)'
                 => NameLeft(n, us)
  BY DEF NameLeft
<1>3. NamesStayTheirs'
  <2> SUFFICES ASSUME NEW v \in Users, Exists(v)', Fold(users'[v].name) \notin met',
                      NEW w \in Users \ {v},
                      \/ Exists(w)' /\ Fold(users'[w].name) = Fold(users'[v].name)
                      \/ \E n \in Names : <<w, n>> \in left' /\ Fold(n) = Fold(users'[v].name)
               PROVE  FALSE
    BY DEF NamesStayTheirs, NameTaken, NameLeft
  <2>1. CASE v = u
    BY <2>1 DEF Free, NameTaken, NameLeft, Exists
  <2>2. CASE v # u /\ w # u
    BY <2>2 DEF NamesStayTheirs, NameTaken, NameLeft, Exists
  <2>3. CASE v # u /\ w = u
    <3>1. CASE Exists(w)' /\ Fold(users'[w].name) = Fold(users'[v].name)
      BY <2>3, <3>1 DEF Free, NameTaken, Exists
    <3>2. ASSUME NEW n \in Names, <<w, n>> \in left', Fold(n) = Fold(users'[v].name)
          PROVE  FALSE
      <4>1. CASE n \in names
        BY <2>3, <3>2, <4>1 DEF Free, NameTaken, Exists
      <4>2. CASE <<w, n>> \in left
        BY <2>3, <3>2, <4>2 DEF NamesStayTheirs, NameLeft, Exists
      <4>3. QED  BY <2>3, <3>2, <4>1, <4>2
    <3>3. QED  BY <3>1, <3>2
  <2>4. QED  BY <2>1, <2>2, <2>3
<1>4. NamesHold'
  BY <1>1, <1>2 DEF NamesHold, NameHolds, Free, Apart
<1>5. QED  BY <1>3, <1>4

\* What a request that gives a name does to what is pending: another request about one
\* of its names has met it.
LEMMA OthersMet ==
    ASSUME TypeOK, Meeting, met \subseteq met', NEW i \in Slots, reqs[i] # None,
           reqs[i].kind \in {"create", "register", "rename"}, reqs'[i] = None,
           \A j \in Slots \ {i} : reqs'[j] = reqs[j],
           NEW names, \A n \in names : Fold(n) \in About(reqs[i])
    PROVE  Apart(names)
<1>1. \A j \in Slots \ {i} : reqs[j] # None => About(reqs[i]) \cap About(reqs[j]) \subseteq met
  BY DEF Meeting, Meets
<1>2. QED  BY <1>1, AboutKinds DEF Apart

\* Whatever is served, names stay exclusive and what was checked of them holds.
LEMMA ServesNames ==
    ASSUME TypeOK, Meeting, NamesStayTheirs, NamesHold, NEW i \in Slots, Serves(i)
    PROVE  NamesStayTheirs' /\ NamesHold'
<1> DEFINE r == reqs[i]
<1>a. /\ r # None /\ met \subseteq met'
      /\ \A j \in Slots \ {i} : reqs'[j] = reqs[j]
  BY ServingMoves
<1>b. /\ users \in [Users -> Account \cup {None}] /\ None \notin Account
      /\ reqs'[i] # None => reqs'[i].kind \in Alone
  BY ServingMoves, AccountsAssumption DEF TypeOK
<1>c. ASSUME \A u \in Users : Exists(u)' => Exists(u) /\ users'[u].name = users[u].name,
             left' \subseteq left,
             reqs'[i] = None \/ NameHolds(reqs'[i])
      PROVE  NamesStayTheirs' /\ NamesHold'
  BY <1>a, <1>c, NamesRest
<1> USE DEF Is, Acts
<1>1. CASE Creates(i)
  <2>1. r.kind = "create" /\ r.arg.name \in Names /\ reqs'[i] = None
    BY <1>1, ServedType DEF Creates, Creation, Done, TypeOK
  <2>2. Fold(r.arg.name) \in About(r)
    BY <2>1, AboutKinds
  <2>3. PICK u \in Users : /\ users'[u].name = r.arg.name
                           /\ \A v \in Users \ {u} : users'[v] = users[v]
    BY <1>1, <1>b DEF Creates, NewUser
  <2>4. Fold(r.arg.name) \in met' \/ Free(r.arg.name, Users \ {u})
    BY <1>1 DEF Creates, Free, NameTaken, NameLeft
  <2>5. Apart({r.arg.name})
    BY <1>a, <2>1, <2>2, OthersMet
  <2>6. left' = left
    BY <1>1 DEF Creates
  <2>7. QED  BY <1>a, <2>1, <2>3, <2>4, <2>5, <2>6, NamesTaken
<1>2. CASE Inserts(i)
  <2>1. /\ r.kind = "register" /\ r.arg.name \in Names /\ reqs'[i] = None
        /\ r.step = "write"
    BY <1>2, ServedType DEF Inserts, Registration, Done, TypeOK
  <2>2. Fold(r.arg.name) \in About(r)
    BY <2>1, AboutKinds
  <2>3. PICK u \in Users : /\ users'[u].name = r.arg.name
                           /\ \A v \in Users \ {u} : users'[v] = users[v]
    BY <1>2, <1>b DEF Inserts, NewUser
  <2>4. Fold(r.arg.name) \in met' \/ Free(r.arg.name, Users \ {u})
    BY <2>1, <1>a DEF NamesHold, NameHolds, Free, NameTaken, NameLeft
  <2>5. Apart({r.arg.name})
    BY <1>a, <2>1, <2>2, OthersMet
  <2>6. left' = left
    BY <1>2 DEF Inserts
  <2>7. QED  BY <1>a, <2>1, <2>3, <2>4, <2>5, <2>6, NamesTaken
<1>3. CASE Renames(i)
  <2>1. /\ r.kind = "rename" /\ r.arg \in Names /\ reqs'[i] = None
        /\ r.by \in Users /\ r.me.name \in Names /\ users[r.by] \in Account
    BY <1>3, <1>b, ServedType DEF Renames, Done, TypeOK, Alone, Account, Exists
  <2>2. Fold(r.arg) \in About(r) /\ Fold(r.me.name) \in About(r)
    BY <2>1, AboutKinds
  <2>3. /\ users'[r.by].name = r.arg
        /\ \A v \in Users \ {r.by} : users'[v] = users[v]
    BY <1>3, <1>b, <2>1 DEF Renames, Account
  <2>4. Free(r.arg, Users \ {r.by})
    BY <1>3 DEF Renames, Free
  <2>5. Fold(r.me.name) \in met' \/ Free(r.me.name, Users \ {r.by})
    BY <2>1, <1>a DEF NamesHold, NameHolds
  <2>6. Apart({r.me.name, r.arg})
    BY <1>a, <2>1, <2>2, OthersMet
  <2>7. left' \subseteq left \cup ({r.by} \X {r.me.name, r.arg})
    BY <1>3 DEF Renames
  <2>8. QED  BY <1>a, <2>1, <2>3, <2>4, <2>5, <2>6, <2>7, NamesTaken
<1>4. CASE Deletes(i)
  <2>1. \A u \in Users : Exists(u)' => Exists(u) /\ users'[u].name = users[u].name
    BY <1>4, <1>b, ServedType DEF Deletes, Exists, ToAnother
  <2>2. left' \subseteq left /\ reqs'[i] = None
    BY <1>4 DEF Deletes, Done, TypeOK
  <2>3. QED  BY <2>1, <2>2, <1>c
<1>5. CASE Registers(i) \/ ChecksHistory(i)
  <2>1. UNCHANGED <<users, left>>
    BY <1>5 DEF Registers, ChecksHistory
  <2>2. NameHolds(reqs'[i])
    <3>1. CASE Registers(i)
      <4>1. r.kind = "register" /\ r.arg \in Registration
        BY <3>1, ServedType DEF Registers
      <4>2. /\ reqs'[i].kind = "register" /\ reqs'[i].step = "history"
            /\ reqs'[i].arg.name = r.arg.name
        BY <3>1, <4>1, <1>a, ServedType DEF Registers, TypeOK, IsRequest, Registration
      <4>3. QED  BY <3>1, <4>2 DEF Registers, NameHolds
    <3>2. CASE ChecksHistory(i)
      <4>1. /\ reqs'[i].kind = "register" /\ r.kind = "register" /\ r.step = "history"
            /\ reqs'[i].arg.name = r.arg.name
        BY <3>2, <1>a, ServedType DEF ChecksHistory, TypeOK, IsRequest
      <4>2. QED  BY <3>2, <4>1, <1>a DEF ChecksHistory, NamesHold, NameHolds
    <3>3. QED  BY <1>5, <3>1, <3>2
  <2>3. QED  BY <2>1, <2>2, <1>c DEF Exists
<1>6. CASE LogsIn(i) \/ LooksAtOwner(i)
  <2>1. NameHolds(reqs'[i]) /\ UNCHANGED <<users, left>>
    BY <1>6, <1>a, ServedType DEF LogsIn, LooksAtOwner, TypeOK, IsRequest, NameHolds
  <2>2. QED  BY <2>1, <1>c DEF Exists
<1>7. CASE UNCHANGED <<users, left>> /\ reqs'[i] = None
  BY <1>7, <1>c DEF Exists
<1>8. CASE /\ UNCHANGED left /\ reqs'[i] = None
           /\ \E u \in Users : /\ users[u] \in Account /\ users'[u].name = users[u].name
                              /\ \A v \in Users \ {u} : users'[v] = users[v]
  BY <1>8, <1>b, <1>c DEF Exists
<1>9. CASE \/ Miscounts(i) \/ SignsIn(i) \/ SignsInWithGoogle(i) \/ UnbansUser(i)
           \/ BansUser(i) \/ Updates(i)
  <2>1. /\ r.to \in Users /\ users[r.to] \in Account /\ UNCHANGED left /\ reqs'[i] = None
    BY <1>9, <1>a, <1>b, ServedType
       DEF Miscounts, SignsIn, SignsInWithGoogle, UnbansUser, BansUser, Updates, ToAnother,
           Exists, history, Done, TypeOK
  <2>2. /\ users'[r.to].name = users[r.to].name
        /\ \A v \in Users \ {r.to} : users'[v] = users[v]
    <3>1. CASE SignsIn(i) \/ SignsInWithGoogle(i)
      <4>1. Cleared(r, users[r.to]).name = users[r.to].name
        BY <2>1 DEF Cleared, Account
      <4>2. users' = [users EXCEPT ![r.to] = Cleared(r, users[r.to])]
        BY <3>1, <2>1 DEF SignsIn, SignsInWithGoogle
      <4>3. QED  BY <4>1, <4>2, <2>1, <1>b
    <3>2. CASE Miscounts(i)
      BY <3>2, <2>1, <1>b DEF Miscounts, Account
    <3>3. CASE BansUser(i) \/ UnbansUser(i)
      BY <3>3, <2>1, <1>b DEF BansUser, UnbansUser, Account
    <3>4. CASE Updates(i)
      <4>1. PICK role \in Roles, active \in BOOLEAN :
               users' = [users EXCEPT ![r.to] =
                           [users[r.to] EXCEPT !.role = role, !.active = active]]
        BY <3>4, Updated
      <4>2. QED  BY <4>1, <2>1, <1>b DEF Account
    <3>5. QED  BY <1>9, <3>1, <3>2, <3>3, <3>4
  <2>3. QED  BY <2>1, <2>2, <1>8
<1>10. CASE ChangesPassword(i) \/ LinksGoogle(i) \/ UnlinksGoogle(i)
  <2>1. /\ r.by \in Users /\ users[r.by] \in Account /\ UNCHANGED left /\ reqs'[i] = None
    BY <1>10, <1>a, <1>b, ServedType
       DEF ChangesPassword, LinksGoogle, UnlinksGoogle, Alone, Exists, history, Done, TypeOK
  <2>2. /\ users'[r.by].name = users[r.by].name
        /\ \A v \in Users \ {r.by} : users'[v] = users[v]
    BY <1>10, <2>1, <1>b DEF ChangesPassword, LinksGoogle, UnlinksGoogle, Account
  <2>3. QED  BY <2>1, <2>2, <1>8
<1>11. QED
  BY <1>1, <1>2, <1>3, <1>4, <1>5, <1>6, <1>7, <1>9, <1>10, DoneType
     DEF Serves, Fails, SignsOut, ChangesMode, CreatesInvitation, RevokesInvitation, Shares,
         Unshares, StartsServer, StartsTask

-----------------------------------------------------------------------------
(***************************************************************************)
(* Invitations.                                                            *)
(***************************************************************************)
\* Whatever is served, an invitation that is free or held has opened no account.
LEMMA ServesInvitations ==
    ASSUME TypeOK, Meeting, InvitationsAreFresh, InvitationOnce, NEW i \in Slots, Serves(i)
    PROVE  InvitationsAreFresh' /\ InvitationOnce'
<1> DEFINE r == reqs[i]
<1>a. /\ r # None /\ met \subseteq met'
      /\ \A j \in Slots \ {i} : reqs'[j] = reqs[j]
  BY ServingMoves
<1>b. /\ invites \in [Invites -> {None, "free", "used", "revoked"}]
      /\ opened \in [Invites -> Nat]
      /\ None \notin Invites \cup {"used", "revoked"}
      /\ \A j \in Slots : Pending(j, "register") => reqs[j].arg.invite \in Invites \cup {None}
  BY AccountsAssumption, ServedType DEF TypeOK, Pending, Registration
<1> USE DEF Is, Acts
<1>c. ASSUME UNCHANGED opened,
             \A v \in Invites : invites'[v] \in {None, "free"} => invites[v] \in {None, "free"},
             \/ reqs'[i] = None \/ reqs'[i].kind # "register"
             \/ reqs'[i].arg.invite \in {None} \cup {v \in Invites : Unopened(v)}
      PROVE  InvitationsAreFresh' /\ InvitationOnce'
  <2>1. \A v \in Invites : Unopened(v) => Unopened(v)'
    BY <1>a, <1>c DEF Unopened
  <2>2. InvitationOnce'
    BY <1>a, <1>c DEF InvitationOnce
  <2>3. \A v \in Invites : invites'[v] \in {None, "free"} => Unopened(v)'
    BY <2>1, <1>c DEF InvitationsAreFresh
  <2>4. ASSUME NEW j \in Slots, Pending(j, "register")', reqs'[j].step # "read",
               reqs'[j].arg.invite # None
        PROVE  opened'[reqs'[j].arg.invite] = 0 \/ reqs'[j].arg.invite \in met'
    <3>1. CASE j = i
      BY <2>4, <3>1, <2>1, <1>a, <1>c DEF Pending, Unopened
    <3>2. CASE j # i
      <4>1. reqs'[j] = reqs[j] /\ Pending(j, "register") /\ reqs[j].arg.invite \in Invites
        BY <2>4, <3>2, <1>a, <1>b DEF Pending
      <4>2. QED  BY <4>1, <2>4, <2>1, <1>a, <1>c DEF InvitationsAreFresh, Unopened
    <3>3. QED  BY <3>1, <3>2
  <2>5. QED  BY <2>2, <2>3, <2>4 DEF InvitationsAreFresh, Unopened
<1>1. CASE Inserts(i)
  <2> DEFINE v == r.arg.invite
  <2>1. /\ Pending(i, "register") /\ r.step = "write" /\ v \in Invites \cup {None}
        /\ reqs'[i] = None
    BY <1>1, <1>b DEF Inserts, Pending, Done, TypeOK
  <2>2. CASE v = None
    BY <1>1, <2>1, <2>2, <1>c DEF Inserts
  <2>3. CASE v # None
    <3>1. /\ v \in Invites /\ Unopened(v)
          /\ invites' = [invites EXCEPT ![v] = "used"] /\ opened' = [opened EXCEPT ![v] = @ + 1]
      BY <1>1, <2>1, <2>3 DEF Inserts, InvitationsAreFresh
    <3>2. InvitationOnce'
      BY <3>1, <1>a, <1>b DEF InvitationOnce, Unopened
    <3>3. \A w \in Invites : invites'[w] \in {None, "free"} => Unopened(w)'
      BY <3>1, <1>a, <1>b DEF InvitationsAreFresh, Unopened
    <3>4. ASSUME NEW j \in Slots, Pending(j, "register")', reqs'[j].step # "read",
                 reqs'[j].arg.invite # None
          PROVE  opened'[reqs'[j].arg.invite] = 0 \/ reqs'[j].arg.invite \in met'
      <4>1. /\ j # i /\ reqs'[j] = reqs[j] /\ Pending(j, "register")
            /\ reqs[j].arg.invite \in Invites
        BY <3>4, <2>1, <1>a, <1>b DEF Pending
      <4>2. CASE reqs[j].arg.invite = v
        <5>1. v \in About(reqs[j]) \cap About(r)
          BY <4>1, <4>2, <2>1, <2>3, AboutKinds DEF Pending
        <5>2. QED  BY <4>1, <4>2, <5>1, <2>1, <1>a DEF Meeting, Meets, Pending
      <4>3. CASE reqs[j].arg.invite # v
        BY <3>4, <4>1, <4>3, <3>1, <1>a, <1>b DEF InvitationsAreFresh, Unopened
      <4>4. QED  BY <4>2, <4>3
    <3>5. QED  BY <3>2, <3>3, <3>4 DEF InvitationsAreFresh, Unopened
  <2>4. QED  BY <2>2, <2>3
<1>2. CASE Registers(i)
  <2>1. r.arg \in Registration /\ UNCHANGED <<invites, opened>>
    BY <1>2, <1>a, ServedType DEF Registers, history
  <2>2. reqs'[i].arg.invite = IF mode = "invite" THEN r.arg.invite ELSE None
    BY <1>2, <2>1, <1>a, ServedType DEF Registers, TypeOK, IsRequest, Registration
  <2>3. r.arg.invite \in Invites /\ mode = "invite" => Unopened(r.arg.invite)
    BY <1>2 DEF Registers, InvitationsAreFresh
  <2>4. mode = "invite" => r.arg.invite \in Invites
    BY <1>2, <2>1 DEF Registers, Registration
  <2>5. QED  BY <2>1, <2>2, <2>3, <2>4, <1>c
<1>3. CASE ChecksHistory(i)
  <2>1. /\ Pending(i, "register") /\ r.step = "history" /\ UNCHANGED <<invites, opened>>
        /\ reqs'[i].arg = r.arg
    BY <1>3, <1>a, ServedType DEF ChecksHistory, Pending, TypeOK, IsRequest, history
  <2>2. r.arg.invite \in {None} \cup {v \in Invites : Unopened(v)}
    BY <2>1, <1>b DEF InvitationsAreFresh
  <2>3. QED  BY <2>1, <2>2, <1>c
<1>4. CASE LogsIn(i) \/ LooksAtOwner(i)
  <2>1. reqs'[i].kind # "register" /\ UNCHANGED <<invites, opened>>
    BY <1>4, <1>a, ServedType DEF LogsIn, LooksAtOwner, TypeOK, IsRequest, history
  <2>2. QED  BY <2>1, <1>c
<1>5. CASE CreatesInvitation(i) \/ RevokesInvitation(i)
  <2>1. r.arg \in Invites /\ reqs'[i] = None /\ UNCHANGED opened
    BY <1>5, <1>a, ServedType DEF CreatesInvitation, RevokesInvitation, history, Done, TypeOK
  <2>2. \A v \in Invites : invites'[v] \in {None, "free"} => invites[v] \in {None, "free"}
    BY <1>5, <2>1, <1>b DEF CreatesInvitation, RevokesInvitation
  <2>3. QED  BY <2>1, <2>2, <1>c
<1>6. CASE UNCHANGED <<invites, opened>> /\ reqs'[i] = None
  BY <1>6, <1>c
<1>7. QED
  BY <1>1, <1>2, <1>3, <1>4, <1>5, <1>6, DoneType
     DEF Serves, Fails, Miscounts, SignsIn, SignsInWithGoogle, SignsOut, ChangesPassword,
         Creates, ChangesMode, Renames, BansUser, UnbansUser, Updates, Deletes, LinksGoogle,
         UnlinksGoogle, Shares, Unshares, StartsServer, StartsTask, history

\* auth_service.py, google.py, users.py: a name, whatever its case, is that of one
\* account, and a name an account has left stays its own; an invitation opens one
\* account.  Only two requests about that name, or with that invitation, served at the
\* same time, or an administrator who gives a name that was left, can undo it.
THEOREM SignUpsAreExclusiveCorrect == Spec => []SignUpsAreExclusive
<1> DEFINE Inv == /\ TypeOK /\ Meeting /\ NamesStayTheirs /\ NamesHold
                  /\ InvitationsAreFresh /\ InvitationOnce
<1>1. Init => Inv
  <2> SUFFICES ASSUME Init PROVE Inv
    OBVIOUS
  <2>1. TypeOK
    BY TypeBegins
  <2>2. \A i \in Slots : reqs[i] = None
    BY DEF Init
  <2>3. PICK admin \in Users, other \in Users, role \in Roles :
           /\ admin # other
           /\ users = [u \in Users |->
                 IF u = admin THEN NewUser(First[1], "ADMIN", TRUE, None)
                 ELSE IF u = other THEN NewUser(First[2], role, TRUE, None) ELSE None]
           /\ sessions = {[u |-> u, closings |-> 0, late |-> FALSE] : u \in {admin, other}}
           /\ server = [owner |-> other, state |-> "off", stopping |-> FALSE]
    BY DEF Init
  <2>4. NamesStayTheirs
    BY <2>3, AccountsAssumption
       DEF Init, NamesStayTheirs, NameTaken, NameLeft, NewUser, Exists
  <2>5. \A v \in Invites : /\ invites[v] \in {None, "free"} => opened[v] = 0
                           /\ opened[v] <= 1
    BY AccountsAssumption DEF Init
  <2>6. QED
    BY <2>1, <2>2, <2>4, <2>5
       DEF Meeting, NamesHold, InvitationsAreFresh, InvitationOnce, Unopened, Pending
<1>2. Inv /\ [Next]_vars => Inv'
  <2> SUFFICES ASSUME Inv, [Next]_vars
               PROVE  (NamesStayTheirs /\ NamesHold)' /\ (InvitationsAreFresh /\ InvitationOnce)'
    BY TypeKept, MeetingKept
  <2>a. met \subseteq met'
    BY MeetingKept
  <2>b. ASSUME UNCHANGED <<left, reqs, invites, opened>>,
               \A u \in Users : Exists(u)' => Exists(u) /\ users'[u].name = users[u].name
        PROVE  (NamesStayTheirs /\ NamesHold)' /\ (InvitationsAreFresh /\ InvitationOnce)'
    <3>1. NamesStayTheirs' /\ NamesHold'
      BY <2>a, <2>b, NamesRest
    <3>2. InvitationsAreFresh' /\ InvitationOnce'
      BY <2>a, <2>b DEF InvitationsAreFresh, InvitationOnce, Unopened, Pending
    <3>3. QED  BY <3>1, <3>2
  <2>1. CASE UNCHANGED vars \/ StopsForBan \/ BanStopFails \/ Ends \/ Restarts
    BY <2>1, <2>b DEF vars, StopsForBan, BanStopFails, Ends, Restarts, history, Exists
  <2>2. ASSUME NEW u \in Users, LockEnds(u)
        PROVE  (NamesStayTheirs /\ NamesHold)' /\ (InvitationsAreFresh /\ InvitationOnce)'
    BY <2>2, <2>b DEF LockEnds, history, Exists, TypeOK, Account
  <2>3. CASE (\E u \in Users : Exists(u) /\ Asks(u)) \/ Arrives
    <3>1. PICK r : IsArrival(r) /\ Begin(r)
      BY <2>3, Arrivals
    <3>2. PICK i \in Slots : /\ reqs' = [reqs EXCEPT ![i] = r]
                            /\ UNCHANGED <<users, left, invites, opened>>
      BY <3>1 DEF Begin
    <3>3. NameHolds(r)
      BY <3>1 DEF IsArrival, NameHolds, NamesStayTheirs, Free, Alone, Usable, Exists
    <3>4. NamesStayTheirs' /\ NamesHold'
      BY <3>2, <3>3, <2>a, NamesRest DEF TypeOK, Exists
    <3>5. InvitationsAreFresh' /\ InvitationOnce'
      BY <3>1, <3>2, <2>a
         DEF IsArrival, InvitationsAreFresh, InvitationOnce, Unopened, Pending, TypeOK
    <3>6. QED  BY <3>4, <3>5
  <2>4. ASSUME NEW i \in Slots, Serves(i)
        PROVE  (NamesStayTheirs /\ NamesHold)' /\ (InvitationsAreFresh /\ InvitationOnce)'
    BY <2>4, ServesNames, ServesInvitations
  <2>5. QED  BY <2>1, <2>2, <2>3, <2>4 DEF Next
<1>3. Inv => SignUpsAreExclusive
  BY DEF SignUpsAreExclusive
<1>4. QED  BY <1>1, <1>2, <1>3, PTL DEF Spec
=============================================================================
