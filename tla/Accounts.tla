------------------------------ MODULE Accounts ------------------------------
(***************************************************************************)
(* Accounts of the API: users and roles, invites, password resets, second  *)
(* factor, and sessions with rotating refresh tokens (auth/store.py,        *)
(* api/routes/auth.py, users.py, account.py and security.py, api/authn.py). *)
(*                                                                         *)
(* A handler never awaits between its first and its last store access, so  *)
(* it is one action; but it is several transactions, and the process may   *)
(* die after any of them: a handler of n transactions does the first cut   *)
(* of them.  Who is asking is resolved by a middleware, before the handler *)
(* runs: between the two (Admit) other requests are served.  Clocks are    *)
(* left out: a deadline passes at any moment (Expire...).                  *)
(***************************************************************************)
EXTENDS Naturals, Sequences, FiniteSets

CONSTANTS Users,        \* e-mail addresses, one account each at most
          Root,         \* ADMIN_EMAIL, the account of the first boot
          Roles,        \* roles of the matrix, "admin" among them
          Enrolled,     \* users who may set up a second factor
          BackupCodes,  \* codes handed out with it
          MaxSessions, MaxInvites, MaxPw, MaxResets, MaxRequests, MaxFailures  \* bounds

ASSUME AccountsAssumption ==
  /\ IsFiniteSet(Users) /\ Root \in Users /\ Enrolled \subseteq Users /\ "admin" \in Roles
  /\ BackupCodes \in Nat
  /\ MaxSessions \in Nat /\ MaxInvites \in Nat /\ MaxPw \in Nat
  /\ MaxResets \in Nat /\ MaxRequests \in Nat /\ MaxFailures \in Nat

VARIABLES users,       \* table users; pw counts the passwords of an account
          resets,      \* reset tokens of a user that are unused and unexpired
          invites,     \* table invites; made: accounts it made (history)
          sessions,    \* table sessions; fam: the login it descends from
          challenges,  \* second factors asked for, in memory of the process
          admitted,    \* requests past the middleware: session, is it an admin's
          failures,    \* deaths of the process so far
          burnt,       \* families one of whose tokens was used twice (history)
          torn         \* users whose password changed without the revocation (history)

accVars == <<users, resets, invites, sessions, challenges, admitted, failures, burnt, torn>>

Unrevoked == {"live", "idle", "over"}   \* idle: past the idle deadline, over: past both
Usable == {"live", "idle"}              \* still refreshed
User == [status: {"none", "active", "suspended"}, role: Roles, pw: 0..MaxPw,
         totp: {"off", "setup", "on"}, codes: 0..BackupCodes]
Invite == [email: Users, role: Roles, st: {"pending", "accepted", "revoked"},
           lapsed: BOOLEAN, made: Nat]
Session == [user: Users, fam: Nat \ {0}, pw: 0..MaxPw, late: BOOLEAN,
            st: Unrevoked \union {"revoked", "gone"}]
Challenge == [user: Users, pw: 0..MaxPw]
Request == [s: Nat \ {0}, admin: BOOLEAN]

NoUser(role) == [status |-> "none", role |-> role, pw |-> 0, totp |-> "off", codes |-> 0]
NewUser(role) == [NoUser(role) EXCEPT !.status = "active"]

\* The first boot, with an empty table and the ADMIN_ variables set.
AccountsInit ==
  /\ users = [u \in Users |-> IF u = Root THEN NewUser("admin") ELSE NoUser("admin")]
  /\ resets = [u \in Users |-> 0] /\ invites = <<>> /\ sessions = <<>>
  /\ challenges = {} /\ admitted = {}
  /\ failures = 0 /\ burnt = {} /\ torn = {}

-----------------------------------------------------------------------------
Active(u) == users[u].status = "active"
Owner(r) == sessions[r.s].user
Held(u) == {i \in DOMAIN sessions : sessions[i].user = u /\ sessions[i].st \in Unrevoked}
FamilyOf(f) == {i \in DOMAIN sessions : sessions[i].fam = f /\ sessions[i].st \in Unrevoked}
\* What a session was opened with is of no interest once it is revoked or deleted.
Closed(row, st) == [row EXCEPT !.st = st, !.pw = 0, !.late = FALSE]
Revoked(S) == [i \in DOMAIN sessions |->
                 IF i \in S THEN Closed(sessions[i], "revoked") ELSE sessions[i]]
RowsGone(u) == [i \in DOMAIN sessions |->
                  IF sessions[i].user = u THEN Closed(sessions[i], "gone") ELSE sessions[i]]
NewRow(u, f, pw, late) == [user |-> u, fam |-> f, pw |-> pw, late |-> late, st |-> "live"]
Room == Len(sessions) < MaxSessions

\* A handler of n transactions may die after any of them but the last.
Cuts(n) == IF failures < MaxFailures THEN 1..n ELSE {n}
Dies == challenges' = {} /\ admitted' = {} /\ failures' = failures + 1
Answers(r) == admitted' = admitted \ {r} /\ UNCHANGED <<challenges, failures>>
Ends(r, whole) == IF whole THEN Answers(r) ELSE Dies

\* resolve_principal: a live session of an active user; who it is stays with the request.
Admit(i) ==
  /\ sessions[i].st = "live" /\ Active(sessions[i].user)
  /\ Cardinality(admitted) < MaxRequests
  /\ admitted' = admitted \union {[s |-> i, admin |-> users[sessions[i].user].role = "admin"]}
  /\ UNCHANGED <<users, resets, invites, sessions, challenges, failures, burnt, torn>>

\* A handler that refuses (401, 404, 409, 422) changes nothing.
Refuse(r) ==
  /\ Answers(r)
  /\ UNCHANGED <<users, resets, invites, sessions, burnt, torn>>

-----------------------------------------------------------------------------
(* Public handlers: what the client holds is its credential.               *)

LoginDirect(u) ==
  /\ Active(u) /\ users[u].totp # "on" /\ Room
  /\ sessions' = Append(sessions, NewRow(u, Len(sessions) + 1, users[u].pw, FALSE))
  /\ UNCHANGED <<users, resets, invites, challenges, admitted, failures, burnt, torn>>

LoginAsks(u) ==
  /\ Active(u) /\ users[u].totp = "on"
  /\ challenges' = challenges \union {[user |-> u, pw |-> users[u].pw]}
  /\ UNCHANGED <<users, resets, invites, sessions, admitted, failures, burnt, torn>>

\* A wrong code re-arms the challenge: no step. An account that is no longer active loses it.
VerifyRefused(c) ==
  /\ ~Active(c.user)
  /\ challenges' = challenges \ {c}
  /\ UNCHANGED <<users, resets, invites, sessions, admitted, failures, burnt, torn>>

Opened(c) == Append(sessions, NewRow(c.user, Len(sessions) + 1, c.pw, c.pw # users[c.user].pw))

VerifyTotp(c) ==
  /\ Active(c.user) /\ users[c.user].totp # "off" /\ Room
  /\ challenges' = challenges \ {c}
  /\ sessions' = Opened(c)
  /\ UNCHANGED <<users, resets, invites, admitted, failures, burnt, torn>>

\* Two transactions: the code is burnt, the session made.
VerifyBackup(c) ==
  /\ Active(c.user) /\ users[c.user].codes > 0 /\ Room
  /\ users' = [users EXCEPT ![c.user].codes = @ - 1]
  /\ \E cut \in Cuts(2) :
       IF cut = 2
       THEN /\ sessions' = Opened(c)
            /\ challenges' = challenges \ {c}
            /\ UNCHANGED <<admitted, failures>>
       ELSE Dies /\ UNCHANGED sessions
  /\ UNCHANGED <<resets, invites, burnt, torn>>

\* Mutant: the presented token stays good.
RefreshRotate_KeepsOld(i) ==
  /\ sessions[i].st \in Usable /\ Room
  /\ sessions' = Append(sessions, [sessions[i] EXCEPT !.st = "live"])
  /\ UNCHANGED <<users, resets, invites, challenges, admitted, failures, burnt, torn>>

\* rotate: the presented row is revoked, then its successor made in the same family.
RefreshRotate(i) ==
  /\ sessions[i].st \in Usable /\ Room
  /\ \E cut \in Cuts(2) :
       IF cut = 2
       THEN /\ sessions' = Append(Revoked({i}), [sessions[i] EXCEPT !.st = "live"])
            /\ UNCHANGED <<challenges, admitted, failures>>
       ELSE sessions' = Revoked({i}) /\ Dies
  /\ UNCHANGED <<users, resets, invites, burnt, torn>>

\* A token whose row is revoked, for whatever reason, ends the family.
RefreshReused(i) ==
  /\ sessions[i].st = "revoked"
  /\ sessions' = Revoked(FamilyOf(sessions[i].fam))
  /\ burnt' = burnt \union {sessions[i].fam}
  /\ UNCHANGED <<users, resets, invites, challenges, admitted, failures, torn>>

Logout(i) ==
  /\ sessions[i].st \in Unrevoked
  /\ sessions' = Revoked({i})
  /\ UNCHANGED <<users, resets, invites, challenges, admitted, failures, burnt, torn>>

ForgotPassword(u) ==
  /\ Active(u) /\ resets[u] < MaxResets
  /\ resets' = [resets EXCEPT ![u] = @ + 1]
  /\ UNCHANGED <<users, invites, sessions, challenges, admitted, failures, burnt, torn>>

\* Mutant: the sessions are left alone.
ResetPassword_Only(u) ==
  /\ resets[u] > 0 /\ users[u].pw < MaxPw
  /\ resets' = [resets EXCEPT ![u] = @ - 1]
  /\ users' = [users EXCEPT ![u].pw = @ + 1]
  /\ UNCHANGED <<invites, sessions, challenges, admitted, failures, burnt, torn>>

\* Three transactions: the token is used, the password set, the sessions revoked.
ResetPassword(u) ==
  /\ resets[u] > 0 /\ users[u].pw < MaxPw
  /\ resets' = [resets EXCEPT ![u] = @ - 1]
  /\ \E cut \in Cuts(3) :
       /\ users' = IF cut >= 2 THEN [users EXCEPT ![u].pw = @ + 1] ELSE users
       /\ sessions' = IF cut = 3 THEN Revoked(Held(u)) ELSE sessions
       /\ torn' = CASE cut = 1 -> torn [] cut = 2 -> torn \union {u} [] cut = 3 -> torn \ {u}
       /\ IF cut = 3 THEN UNCHANGED <<challenges, admitted, failures>> ELSE Dies
  /\ UNCHANGED <<invites, burnt>>

\* The invite is marked in one transaction, the account made in another, unless there is one.
AcceptInvite(k) ==
  LET inv == invites[k]
      free == users[inv.email].status = "none"
  IN /\ inv.st = "pending" /\ ~inv.lapsed
     /\ \E cut \in Cuts(2) :
          LET makes == cut = 2 /\ free
          IN /\ invites' = [invites EXCEPT ![k].st = "accepted",
                                           ![k].made = IF makes THEN @ + 1 ELSE @]
             /\ users' = IF makes THEN [users EXCEPT ![inv.email] = NewUser(inv.role)] ELSE users
             /\ IF cut = 2 THEN UNCHANGED <<challenges, admitted, failures>> ELSE Dies
     /\ UNCHANGED <<resets, sessions, burnt, torn>>

-----------------------------------------------------------------------------
(* Handlers of a signed-in user.  They read the account again (it must     *)
(* exist) but trust the session and the role the middleware saw.           *)

Asker(r) == users[Owner(r)].status # "none" /\ sessions[r.s].st # "gone"
IsCurrent(r) == sessions[r.s].st = "live"     \* _current_session_id finds it

\* Two transactions: the password, then the other sessions if the current one is found.
ChangePassword(r) ==
  LET u == Owner(r)
      Others == Held(u) \ {r.s}
  IN /\ Asker(r) /\ users[u].pw < MaxPw
     /\ users' = [users EXCEPT ![u].pw = @ + 1]
     /\ \E cut \in Cuts(2) :
          LET revokes == cut = 2 /\ IsCurrent(r)
          IN /\ sessions' = [i \in DOMAIN sessions |->
                               IF i = r.s /\ i \in Held(u)
                               THEN [sessions[i] EXCEPT !.pw = users[u].pw + 1, !.late = FALSE]
                               ELSE IF revokes THEN Revoked(Others)[i] ELSE sessions[i]]
             /\ torn' = IF revokes THEN torn \ {u} ELSE torn \union {u}
             /\ Ends(r, cut = 2)
     /\ UNCHANGED <<resets, invites, burnt>>

RevokeSession(r, i) ==
  /\ Asker(r) /\ i \in Held(Owner(r))
  /\ sessions' = Revoked({i})
  /\ Answers(r)
  /\ UNCHANGED <<users, resets, invites, burnt, torn>>

RevokeOthers(r) ==
  /\ Asker(r) /\ IsCurrent(r)
  /\ sessions' = Revoked(Held(Owner(r)) \ {r.s})
  /\ Answers(r)
  /\ UNCHANGED <<users, resets, invites, burnt, torn>>

SetTotp(r, totp, codes) ==
  /\ Asker(r) /\ Owner(r) \in Enrolled
  /\ users' = [users EXCEPT ![Owner(r)].totp = totp, ![Owner(r)].codes = codes]
  /\ Answers(r)
  /\ UNCHANGED <<resets, invites, sessions, burnt, torn>>

TwoFactorSetup(r) == SetTotp(r, "setup", 0)
TwoFactorEnable(r) == users[Owner(r)].totp # "off" /\ SetTotp(r, "on", BackupCodes)
BackupRegenerate(r) == users[Owner(r)].totp = "on" /\ SetTotp(r, "on", BackupCodes)
TwoFactorDisable(r) == SetTotp(r, "off", 0)

-----------------------------------------------------------------------------
(* Handlers behind manage_users: the role is the one the middleware saw.   *)

ActiveAdmins == {u \in Users : Active(u) /\ users[u].role = "admin"}

\* Mutant: nobody counts.
LastAdmin_Never(u) == u \notin Users

LastAdmin(u) == u \in ActiveAdmins /\ Cardinality(ActiveAdmins) <= 1

InviteUser(r, e, role) ==
  /\ r.admin /\ users[e].status = "none" /\ Len(invites) < MaxInvites
  /\ invites' = Append(invites, [email |-> e, role |-> role, st |-> "pending",
                                 lapsed |-> FALSE, made |-> 0])
  /\ Answers(r)
  /\ UNCHANGED <<users, resets, sessions, burnt, torn>>

\* A resend renews an invite that has lapsed, too.
ResendInvite(r, k) ==
  /\ r.admin /\ invites[k].st = "pending"
  /\ invites' = [invites EXCEPT ![k].lapsed = FALSE]
  /\ Answers(r)
  /\ UNCHANGED <<users, resets, sessions, burnt, torn>>

RevokeInvite(r, k) ==
  /\ r.admin /\ invites[k].st # "accepted"
  /\ invites' = [invites EXCEPT ![k].st = "revoked"]
  /\ Answers(r)
  /\ UNCHANGED <<users, resets, sessions, burnt, torn>>

PatchRole(r, u, role) ==
  /\ r.admin /\ users[u].status # "none"
  /\ role # "admin" => ~LastAdmin(u)
  /\ users' = [users EXCEPT ![u].role = role]
  /\ Answers(r)
  /\ UNCHANGED <<resets, invites, sessions, burnt, torn>>

\* Mutant: the account is suspended first.
Suspend_First(r, u) ==
  /\ r.admin /\ users[u].status # "none" /\ ~LastAdmin(u)
  /\ users' = [users EXCEPT ![u].status = "suspended"]
  /\ \E cut \in Cuts(2) :
       /\ sessions' = IF cut = 2 THEN Revoked(Held(u)) ELSE sessions
       /\ torn' = IF cut = 2 THEN torn \ {u} ELSE torn
       /\ Ends(r, cut = 2)
  /\ UNCHANGED <<resets, invites, burnt>>

\* Two transactions: the sessions are revoked, then the account is suspended.
Suspend(r, u) ==
  /\ r.admin /\ users[u].status # "none" /\ ~LastAdmin(u)
  /\ sessions' = Revoked(Held(u))
  /\ torn' = torn \ {u}
  /\ \E cut \in Cuts(2) :
       /\ users' = IF cut = 2 THEN [users EXCEPT ![u].status = "suspended"] ELSE users
       /\ Ends(r, cut = 2)
  /\ UNCHANGED <<resets, invites, burnt>>

Reactivate(r, u) ==
  /\ r.admin /\ users[u].status # "none"
  /\ users' = [users EXCEPT ![u].status = "active"]
  /\ Answers(r)
  /\ UNCHANGED <<resets, invites, sessions, burnt, torn>>

\* One transaction. What still names the account (a challenge, a request) finds none.
DeleteUser(r, u) ==
  /\ r.admin /\ users[u].status # "none" /\ ~LastAdmin(u)
  /\ users' = [users EXCEPT ![u] = NoUser("admin")]
  /\ sessions' = RowsGone(u)
  /\ resets' = [resets EXCEPT ![u] = 0]
  /\ challenges' = {c \in challenges : c.user # u}
  /\ admitted' = admitted \ {r}
  /\ torn' = torn \ {u}
  /\ UNCHANGED <<invites, failures, burnt>>

-----------------------------------------------------------------------------
(* Deadlines, and a restart between requests.                              *)

SessionIdles(i) ==
  /\ sessions[i].st = "live"
  /\ sessions' = [sessions EXCEPT ![i].st = "idle"]
  /\ UNCHANGED <<users, resets, invites, challenges, admitted, failures, burnt, torn>>

SessionEnds(i) ==
  /\ sessions[i].st = "idle"
  /\ sessions' = [sessions EXCEPT ![i].st = "over"]
  /\ UNCHANGED <<users, resets, invites, challenges, admitted, failures, burnt, torn>>

InviteLapses(k) ==
  /\ invites[k].st = "pending" /\ ~invites[k].lapsed
  /\ invites' = [invites EXCEPT ![k].lapsed = TRUE]
  /\ UNCHANGED <<users, resets, sessions, challenges, admitted, failures, burnt, torn>>

ResetLapses(u) ==
  /\ resets[u] > 0
  /\ resets' = [resets EXCEPT ![u] = @ - 1]
  /\ UNCHANGED <<users, invites, sessions, challenges, admitted, failures, burnt, torn>>

ChallengeLapses(c) ==
  /\ challenges' = challenges \ {c}
  /\ UNCHANGED <<users, resets, invites, sessions, admitted, failures, burnt, torn>>

Restart ==
  /\ failures < MaxFailures
  /\ Dies
  /\ UNCHANGED <<users, resets, invites, sessions, burnt, torn>>

PublicStep ==
  \/ \E u \in Users : LoginDirect(u) \/ LoginAsks(u) \/ ForgotPassword(u) \/ ResetPassword(u)
  \/ \E c \in challenges : VerifyRefused(c) \/ VerifyTotp(c) \/ VerifyBackup(c)
  \/ \E i \in DOMAIN sessions : Admit(i) \/ RefreshRotate(i) \/ RefreshReused(i) \/ Logout(i)
  \/ \E k \in DOMAIN invites : AcceptInvite(k)

SelfStep(r) ==
  \/ Refuse(r) \/ ChangePassword(r) \/ RevokeOthers(r)
  \/ \E i \in DOMAIN sessions : RevokeSession(r, i)
  \/ TwoFactorSetup(r) \/ TwoFactorEnable(r) \/ BackupRegenerate(r) \/ TwoFactorDisable(r)

ManageStep(r) ==
  \/ \E u \in Users, role \in Roles : InviteUser(r, u, role) \/ PatchRole(r, u, role)
  \/ \E k \in DOMAIN invites : ResendInvite(r, k) \/ RevokeInvite(r, k)
  \/ \E u \in Users : Suspend(r, u) \/ Reactivate(r, u) \/ DeleteUser(r, u)

TimeStep ==
  \/ \E i \in DOMAIN sessions : SessionIdles(i) \/ SessionEnds(i)
  \/ \E k \in DOMAIN invites : InviteLapses(k)
  \/ \E u \in Users : ResetLapses(u)
  \/ \E c \in challenges : ChallengeLapses(c)
  \/ Restart

AccountsNext == PublicStep \/ TimeStep \/ \E r \in admitted : SelfStep(r) \/ ManageStep(r)

AccountsSpec == AccountsInit /\ [][AccountsNext]_accVars

-----------------------------------------------------------------------------
(* Types.                                                                  *)
AccountsTypeOK ==
  /\ users \in [Users -> User]
  /\ resets \in [Users -> 0..MaxResets]
  /\ invites \in Seq(Invite)
  /\ sessions \in Seq(Session)
  /\ challenges \subseteq Challenge
  /\ admitted \subseteq Request
  /\ failures \in 0..MaxFailures
  /\ burnt \subseteq Nat \ {0}
  /\ torn \subseteq Users

(* No order of demotions, suspensions and deletions, asked for by administrators who *)
(* are demoted or suspended between the middleware and the handler, removes the last *)
(* active administrator (users.py:36).                                               *)
AdminRemains == ActiveAdmins # {}

(* The refresh tokens of a login are one chain: whatever the handlers are cut at, at *)
(* most one session of a family is not revoked, and none once a token of the family   *)
(* was used again (store.py:358).                                                     *)
FamilyIsOneChain ==
  \A i, j \in DOMAIN sessions :
    (sessions[i].fam = sessions[j].fam /\ sessions[i].st \in Unrevoked)
      => /\ sessions[i].fam \notin burnt
         /\ sessions[j].st \in Unrevoked => i = j

(* A suspended or deleted account holds no session that is not revoked, wherever the *)
(* suspension is cut: reactivating it brings nothing back (users.py:152).             *)
OnlyActiveHoldSessions ==
  \A i \in DOMAIN sessions : sessions[i].st \in Unrevoked => Active(sessions[i].user)

(* A session that can still be refreshed was opened with the present password, unless *)
(* its second factor was asked for before the change, or the change did not get as far *)
(* as the revocation: the process died, or the session that asked was revoked while    *)
(* the request waited (auth.py:238, account.py:92).                                    *)
SessionsFollowPassword ==
  \A i \in DOMAIN sessions :
    sessions[i].st \in Usable =>
      \/ sessions[i].pw = users[sessions[i].user].pw
      \/ sessions[i].late
      \/ sessions[i].user \in torn

(* An invite makes one account at most, even if that account is deleted and the link  *)
(* used again, and none if it was revoked, however it was resent (store.py:251).       *)
InviteMakesOne ==
  \A k \in DOMAIN invites :
    invites[k].made <= (IF invites[k].st = "accepted" THEN 1 ELSE 0)

=============================================================================
