--------------------------- MODULE AccountsProofs ---------------------------
(***************************************************************************)
(* The promises of the accounts, for any users, roles, invites, sessions,  *)
(* passwords, waiting requests and deaths of the process.                  *)
(***************************************************************************)
EXTENDS Accounts, SequenceTheorems, FiniteSetTheorems, TLAPS

\* A waiting request names a session that exists; so does every family.
NamesExist ==
  /\ \A r \in admitted : r.s \in DOMAIN sessions
  /\ \A i \in DOMAIN sessions : sessions[i].fam \in DOMAIN sessions
  /\ burnt \subseteq DOMAIN sessions

Shape == AccountsTypeOK /\ NamesExist

\* What the handlers do to the sessions: rows are closed, or time passes for them ...
RowsKept ==
  /\ sessions' \in Seq(Session) /\ Len(sessions') = Len(sessions)
  /\ \A i \in 1..Len(sessions) :
       /\ sessions'[i].user = sessions[i].user /\ sessions'[i].fam = sessions[i].fam
       /\ sessions'[i].st \in Unrevoked => sessions[i].st \in Unrevoked

\* ... or a login opens a family ...
Opens(row) ==
  /\ sessions' = Append(sessions, row) /\ row \in Session
  /\ row.fam = Len(sessions) + 1 /\ row.st = "live" /\ Active(row.user)

\* ... or the one session of a family is replaced.
Rotates(i) ==
  /\ sessions[i].st \in Usable
  /\ sessions' = Append(Revoked({i}), [sessions[i] EXCEPT !.st = "live"])

-----------------------------------------------------------------------------
LEMMA RowsMap ==
  ASSUME NEW S, NEW T, NEW s \in Seq(S), NEW f, f = [i \in DOMAIN s |-> f[i]],
         \A i \in DOMAIN s : f[i] \in T
  PROVE  f \in Seq(T) /\ Len(f) = Len(s) /\ DOMAIN f = DOMAIN s
<1>1. DOMAIN s = 1..Len(s) /\ Len(s) \in Nat
  OBVIOUS
<1>2. f \in [1..Len(s) -> T]
  BY <1>1
<1>3. QED  BY <1>1, <1>2

LEMMA Rows == ASSUME AccountsTypeOK, NEW i \in DOMAIN sessions
              PROVE  sessions[i] \in Session /\ i \in Nat \ {0} /\ i \in 1..Len(sessions)
  BY DEF AccountsTypeOK

LEMMA ClosedType == ASSUME NEW row \in Session
                    PROVE  /\ Closed(row, "revoked") \in Session /\ Closed(row, "gone") \in Session
                           /\ \A st \in {"revoked", "gone"} :
                                /\ Closed(row, st).user = row.user /\ Closed(row, st).fam = row.fam
                                /\ Closed(row, st).st = st
<1>1. 0 \in 0..MaxPw
  BY AccountsAssumption
<1>2. QED  BY <1>1 DEF Closed, Session

LEMMA RevokedRows ==
  ASSUME AccountsTypeOK, NEW S
  PROVE  /\ Revoked(S) \in Seq(Session) /\ Len(Revoked(S)) = Len(sessions)
         /\ DOMAIN Revoked(S) = DOMAIN sessions
         /\ \A i \in DOMAIN sessions :
              /\ Revoked(S)[i].user = sessions[i].user /\ Revoked(S)[i].fam = sessions[i].fam
              /\ i \in S => Revoked(S)[i].st = "revoked"
              /\ i \notin S => Revoked(S)[i] = sessions[i]
<1>1. ASSUME NEW i \in DOMAIN sessions
      PROVE  /\ Revoked(S)[i] \in Session
             /\ Revoked(S)[i].user = sessions[i].user /\ Revoked(S)[i].fam = sessions[i].fam
             /\ i \in S => Revoked(S)[i].st = "revoked"
             /\ i \notin S => Revoked(S)[i] = sessions[i]
  <2>1. sessions[i] \in Session
    BY Rows
  <2>2. Revoked(S)[i] = IF i \in S THEN Closed(sessions[i], "revoked") ELSE sessions[i]
    BY DEF Revoked
  <2>3. QED  BY <2>1, <2>2, ClosedType
<1>2. Revoked(S) = [i \in DOMAIN sessions |-> Revoked(S)[i]]
  BY DEF Revoked
<1>3. sessions \in Seq(Session)
  BY DEF AccountsTypeOK
<1>4. Revoked(S) \in Seq(Session) /\ Len(Revoked(S)) = Len(sessions) /\ DOMAIN Revoked(S) = DOMAIN sessions
  BY <1>1, <1>2, <1>3, RowsMap
<1>5. QED  BY <1>1, <1>4

LEMMA RevokedKept == ASSUME AccountsTypeOK, NEW S, sessions' = Revoked(S) PROVE RowsKept
<1>1. Len(sessions) \in Nat /\ DOMAIN sessions = 1..Len(sessions)
  BY DEF AccountsTypeOK
<1>2. QED  BY <1>1, RevokedRows DEF RowsKept, Unrevoked

LEMMA SameKept == ASSUME AccountsTypeOK, UNCHANGED sessions PROVE RowsKept
  BY DEF AccountsTypeOK, RowsKept

LEMMA GoneRows ==
  ASSUME AccountsTypeOK, NEW u, sessions' = RowsGone(u)
  PROVE  RowsKept /\ \A i \in DOMAIN sessions : sessions[i].user = u => sessions'[i].st = "gone"
<1>1. ASSUME NEW i \in DOMAIN sessions
      PROVE  /\ sessions'[i] \in Session
             /\ sessions'[i].user = sessions[i].user /\ sessions'[i].fam = sessions[i].fam
             /\ sessions[i].user = u => sessions'[i].st = "gone"
             /\ sessions'[i].st \in Unrevoked => sessions[i].st \in Unrevoked
  <2>1. sessions[i] \in Session
    BY Rows
  <2>2. sessions'[i] = IF sessions[i].user = u THEN Closed(sessions[i], "gone") ELSE sessions[i]
    BY DEF RowsGone
  <2>3. QED  BY <2>1, <2>2, ClosedType DEF Unrevoked
<1>2. sessions' = [i \in DOMAIN sessions |-> sessions'[i]]
  BY DEF RowsGone
<1>3. sessions \in Seq(Session) /\ Len(sessions) \in Nat /\ DOMAIN sessions = 1..Len(sessions)
  BY DEF AccountsTypeOK
<1>4. sessions' \in Seq(Session) /\ Len(sessions') = Len(sessions)
  BY <1>1, <1>2, <1>3, RowsMap
<1>5. QED  BY <1>1, <1>3, <1>4 DEF RowsKept

LEMMA TimeKept ==
  ASSUME AccountsTypeOK, NEW i \in DOMAIN sessions, sessions[i].st \in Unrevoked,
         NEW st \in Unrevoked, sessions' = [sessions EXCEPT ![i].st = st]
  PROVE  RowsKept
<1>1. sessions[i] \in Session /\ i \in 1..Len(sessions) /\ sessions \in Seq(Session)
  BY Rows DEF AccountsTypeOK
<1>2. [sessions[i] EXCEPT !.st = st] \in Session
  BY <1>1 DEF Session, Unrevoked
<1>3. sessions' = [sessions EXCEPT ![i] = [sessions[i] EXCEPT !.st = st]]
  OBVIOUS
<1>4. sessions' \in Seq(Session) /\ Len(sessions') = Len(sessions)
  BY <1>1, <1>2, <1>3, ExceptSeq
<1>5. \A j \in 1..Len(sessions) : sessions'[j] = IF j = i THEN [sessions[i] EXCEPT !.st = st]
                                                 ELSE sessions[j]
  BY <1>1, <1>3
<1>6. [sessions[i] EXCEPT !.st = st].user = sessions[i].user /\ [sessions[i] EXCEPT !.st = st].fam = sessions[i].fam
  BY <1>1 DEF Session
<1>7. QED  BY <1>1, <1>4, <1>5, <1>6 DEF RowsKept

-----------------------------------------------------------------------------
(* A step opens a family, replaces the one session of a family that is in  *)
(* use, or keeps the rows; in any case it is type correct.                  *)
RowsStep == \/ RowsKept
            \/ \E row \in Session : Opens(row) /\ UNCHANGED <<users, burnt, torn>>
            \/ \E row \in Session, u \in Users :
                 /\ Opens(row) /\ UNCHANGED <<burnt, torn>>
                 /\ users' = [users EXCEPT ![u].codes = @ - 1]
            \/ \E i \in DOMAIN sessions : Rotates(i) /\ UNCHANGED <<users, burnt, torn>>

LEMMA OpensType ==
  ASSUME AccountsTypeOK, NEW u \in Users, NEW pw \in 0..MaxPw, NEW late \in BOOLEAN, Active(u),
         sessions' = Append(sessions, NewRow(u, Len(sessions) + 1, pw, late))
  PROVE  \E row \in Session : Opens(row)
<1>1. Len(sessions) + 1 \in Nat \ {0}
  BY DEF AccountsTypeOK
<1>2. NewRow(u, Len(sessions) + 1, pw, late) \in Session
  BY <1>1 DEF NewRow, Session, Unrevoked
<1>3. Opens(NewRow(u, Len(sessions) + 1, pw, late))
  BY <1>2 DEF Opens, NewRow
<1>4. QED  BY <1>2, <1>3

LEMMA OpenedRows ==
  ASSUME AccountsTypeOK, NEW row \in Session, sessions' = Append(sessions, row)
  PROVE  /\ sessions' \in Seq(Session) /\ Len(sessions') = Len(sessions) + 1
         /\ DOMAIN sessions' = 1..Len(sessions) + 1 /\ DOMAIN sessions = 1..Len(sessions)
         /\ Len(sessions) \in Nat
         /\ \A i \in 1..Len(sessions) : sessions'[i] = sessions[i]
         /\ sessions'[Len(sessions) + 1] = row
<1>1. sessions \in Seq(Session)
  BY DEF AccountsTypeOK
<1>2. QED  BY <1>1, AppendProperties

LEMMA RotatedRows ==
  ASSUME AccountsTypeOK, NEW i \in DOMAIN sessions, Rotates(i)
  PROVE  /\ sessions' \in Seq(Session) /\ Len(sessions') = Len(sessions) + 1
         /\ DOMAIN sessions' = 1..Len(sessions) + 1 /\ DOMAIN sessions = 1..Len(sessions)
         /\ Len(sessions) \in Nat
         /\ \A j \in 1..Len(sessions) :
              /\ sessions'[j].user = sessions[j].user /\ sessions'[j].fam = sessions[j].fam
              /\ j = i => sessions'[j].st = "revoked"
              /\ j # i => sessions'[j] = sessions[j]
         /\ sessions'[Len(sessions) + 1] = [sessions[i] EXCEPT !.st = "live"]
<1>1. sessions[i] \in Session
  BY Rows
<1>2. [sessions[i] EXCEPT !.st = "live"] \in Session
  BY <1>1 DEF Session, Unrevoked
<1>3. Revoked({i}) \in Seq(Session) /\ Len(Revoked({i})) = Len(sessions)
  BY RevokedRows
<1>4. sessions' = Append(Revoked({i}), [sessions[i] EXCEPT !.st = "live"])
  BY DEF Rotates
<1>5. /\ sessions' \in Seq(Session) /\ Len(sessions') = Len(sessions) + 1
      /\ \A j \in 1..Len(sessions) : sessions'[j] = Revoked({i})[j]
      /\ sessions'[Len(sessions) + 1] = [sessions[i] EXCEPT !.st = "live"]
  <2>1. PICK old, row : old = Revoked({i}) /\ row = [sessions[i] EXCEPT !.st = "live"]
    OBVIOUS
  <2>2. old \in Seq(Session) /\ row \in Session /\ sessions' = Append(old, row) /\ Len(old) = Len(sessions)
    BY <1>2, <1>3, <1>4, <2>1
  <2>3. /\ sessions' \in Seq(Session) /\ Len(sessions') = Len(old) + 1
        /\ \A j \in 1..Len(old) : sessions'[j] = old[j]
        /\ sessions'[Len(old) + 1] = row
    BY <2>2, AppendProperties
  <2>4. QED  BY <2>1, <2>2, <2>3
<1>6. Len(sessions) \in Nat /\ DOMAIN sessions = 1..Len(sessions)
  BY DEF AccountsTypeOK
<1>7. QED  BY <1>5, <1>6, RevokedRows

\* Where nothing but the sessions is at stake, the rows decide.
LEMMA RowsType ==
  ASSUME AccountsTypeOK, RowsStep
  PROVE  sessions' \in Seq(Session)
<1>1. CASE RowsKept
  BY <1>1 DEF RowsKept
<1>2. ASSUME NEW row \in Session, Opens(row) PROVE sessions' \in Seq(Session)
  BY <1>2, OpenedRows DEF Opens
<1>3. ASSUME NEW i \in DOMAIN sessions, Rotates(i) PROVE sessions' \in Seq(Session)
  BY <1>3, RotatedRows
<1>4. QED  BY <1>1, <1>2, <1>3 DEF RowsStep

-----------------------------------------------------------------------------
(* The tables and the memory of the process.                               *)
TablesOK == /\ users \in [Users -> User]
            /\ resets \in [Users -> 0..MaxResets]
            /\ invites \in Seq(Invite)
MemoryOK == /\ challenges \subseteq Challenge
            /\ admitted \subseteq Request
            /\ failures \in 0..MaxFailures
            /\ burnt \subseteq Nat \ {0}
            /\ torn \subseteq Users

LEMMA CutsMeaning ==
  ASSUME failures \in 0..MaxFailures, NEW n \in Nat \ {0}, NEW cut \in Cuts(n)
  PROVE  cut \in 1..n /\ (cut # n => failures + 1 \in 0..MaxFailures)
  BY AccountsAssumption DEF Cuts

LEMMA PublicStepOK == Shape /\ PublicStep => RowsStep /\ TablesOK' /\ MemoryOK'
<1> SUFFICES ASSUME Shape, PublicStep PROVE RowsStep /\ TablesOK' /\ MemoryOK'
  OBVIOUS
<1> USE AccountsAssumption
<1>0. /\ AccountsTypeOK /\ NamesExist /\ TablesOK /\ MemoryOK
      /\ \A u \in Users : users[u] \in User
      /\ \A i \in DOMAIN sessions : sessions[i] \in Session
      /\ \A k \in DOMAIN invites : invites[k] \in Invite
  BY DEF Shape, AccountsTypeOK, TablesOK, MemoryOK
<1>1. ASSUME NEW u \in Users, LoginDirect(u) PROVE RowsStep /\ TablesOK' /\ MemoryOK'
  <2>1. users[u].pw \in 0..MaxPw /\ FALSE \in BOOLEAN
    BY <1>0 DEF User
  <2>2. \E row \in Session : Opens(row)
    BY <1>0, <1>1, <2>1, OpensType DEF LoginDirect
  <2>3. QED  BY <1>0, <1>1, <2>2 DEF LoginDirect, RowsStep, TablesOK, MemoryOK
<1>2. ASSUME NEW u \in Users, LoginAsks(u) PROVE RowsStep /\ TablesOK' /\ MemoryOK'
  <2>1. [user |-> u, pw |-> users[u].pw] \in Challenge
    BY <1>0 DEF User, Challenge
  <2>2. QED  BY <1>0, <1>2, <2>1, SameKept DEF LoginAsks, RowsStep, TablesOK, MemoryOK
<1>3. ASSUME NEW u \in Users, ForgotPassword(u) PROVE RowsStep /\ TablesOK' /\ MemoryOK'
  BY <1>0, <1>3, SameKept DEF ForgotPassword, RowsStep, TablesOK, MemoryOK
<1>4. ASSUME NEW u \in Users, ResetPassword(u) PROVE RowsStep /\ TablesOK' /\ MemoryOK'
  <2>1. PICK cut \in Cuts(3) :
          /\ users' = IF cut >= 2 THEN [users EXCEPT ![u].pw = @ + 1] ELSE users
          /\ sessions' = IF cut = 3 THEN Revoked(Held(u)) ELSE sessions
          /\ torn' = CASE cut = 1 -> torn [] cut = 2 -> torn \union {u} [] cut = 3 -> torn \ {u}
          /\ IF cut = 3 THEN UNCHANGED <<challenges, admitted, failures>> ELSE Dies
    BY <1>4 DEF ResetPassword
  <2>2. cut \in 1..3 /\ (cut # 3 => failures + 1 \in 0..MaxFailures)
    BY <1>0, CutsMeaning DEF MemoryOK
  <2>3. RowsKept
    BY <1>0, <2>1, RevokedKept, SameKept
  <2>4. users' \in [Users -> User]
    <3>1. [users[u] EXCEPT !.pw = @ + 1] \in User
      BY <1>0, <1>4 DEF ResetPassword, User
    <3>2. QED  BY <1>0, <2>1, <3>1 DEF TablesOK
  <2>5. resets' \in [Users -> 0..MaxResets]
    BY <1>0, <1>4 DEF ResetPassword, TablesOK
  <2>6. MemoryOK'
    <3>1. torn' \subseteq Users
      BY <1>0, <2>1, <2>2 DEF MemoryOK
    <3>2. QED  BY <1>0, <1>4, <2>1, <2>2, <3>1 DEF ResetPassword, MemoryOK, Dies
  <2>7. QED  BY <1>0, <1>4, <2>3, <2>4, <2>5, <2>6 DEF ResetPassword, RowsStep, TablesOK
<1>5. ASSUME NEW c \in challenges, VerifyRefused(c) PROVE RowsStep /\ TablesOK' /\ MemoryOK'
  BY <1>0, <1>5, SameKept DEF VerifyRefused, RowsStep, TablesOK, MemoryOK
<1>6. ASSUME NEW c \in challenges, sessions' = Opened(c), Active(c.user)
      PROVE  \E row \in Session : Opens(row)
  <2>1. c.user \in Users /\ c.pw \in 0..MaxPw
    BY <1>0 DEF MemoryOK, Challenge
  <2>2. (c.pw # users[c.user].pw) \in BOOLEAN
    OBVIOUS
  <2>3. QED  BY <1>0, <1>6, <2>1, <2>2, OpensType DEF Opened
<1>7. ASSUME NEW c \in challenges, VerifyTotp(c) PROVE RowsStep /\ TablesOK' /\ MemoryOK'
  BY <1>0, <1>6, <1>7 DEF VerifyTotp, RowsStep, TablesOK, MemoryOK
<1>8. ASSUME NEW c \in challenges, VerifyBackup(c) PROVE RowsStep /\ TablesOK' /\ MemoryOK'
  <2>1. PICK cut \in Cuts(2) :
          IF cut = 2 THEN /\ sessions' = Opened(c) /\ challenges' = challenges \ {c}
                          /\ UNCHANGED <<admitted, failures>>
                     ELSE Dies /\ UNCHANGED sessions
    BY <1>8 DEF VerifyBackup
  <2>2. cut # 2 => failures + 1 \in 0..MaxFailures
    BY <1>0, CutsMeaning DEF MemoryOK
  <2>3. c.user \in Users
    BY <1>0 DEF MemoryOK, Challenge
  <2>4. TablesOK'
    <3>1. [users[c.user] EXCEPT !.codes = @ - 1] \in User
      BY <1>0, <1>8, <2>3 DEF VerifyBackup, User
    <3>2. QED  BY <1>0, <1>8, <2>3, <3>1 DEF VerifyBackup, TablesOK
  <2>5. MemoryOK'
    BY <1>0, <1>8, <2>1, <2>2 DEF VerifyBackup, MemoryOK, Dies
  <2>6. RowsStep
    <3>1. CASE cut = 2
      <4>1. PICK row \in Session : Opens(row)
        BY <1>6, <1>8, <2>1, <3>1 DEF VerifyBackup
      <4>2. QED  BY <1>8, <2>3, <4>1 DEF VerifyBackup, RowsStep
    <3>2. CASE cut # 2
      BY <1>0, <2>1, <3>2, SameKept DEF RowsStep
    <3>3. QED  BY <3>1, <3>2
  <2>7. QED  BY <2>4, <2>5, <2>6
<1>9. ASSUME NEW i \in DOMAIN sessions, Admit(i) PROVE RowsStep /\ TablesOK' /\ MemoryOK'
  <2>1. i \in Nat \ {0} /\ (users[sessions[i].user].role = "admin") \in BOOLEAN
    BY <1>0, Rows
  <2>2. [s |-> i, admin |-> users[sessions[i].user].role = "admin"] \in Request
    BY <2>1 DEF Request
  <2>3. QED  BY <1>0, <1>9, <2>2, SameKept DEF Admit, RowsStep, TablesOK, MemoryOK
<1>10. ASSUME NEW i \in DOMAIN sessions, RefreshRotate(i) PROVE RowsStep /\ TablesOK' /\ MemoryOK'
  <2>1. PICK cut \in Cuts(2) :
          IF cut = 2 THEN /\ sessions' = Append(Revoked({i}), [sessions[i] EXCEPT !.st = "live"])
                          /\ UNCHANGED <<challenges, admitted, failures>>
                     ELSE sessions' = Revoked({i}) /\ Dies
    BY <1>10 DEF RefreshRotate
  <2>2. cut # 2 => failures + 1 \in 0..MaxFailures
    BY <1>0, CutsMeaning DEF MemoryOK
  <2>3. TablesOK' /\ MemoryOK'
    BY <1>0, <1>10, <2>1, <2>2 DEF RefreshRotate, TablesOK, MemoryOK, Dies
  <2>4. CASE cut = 2
    BY <1>10, <2>1, <2>3, <2>4 DEF RefreshRotate, RowsStep, Rotates
  <2>5. CASE cut # 2
    BY <1>0, <2>1, <2>3, <2>5, RevokedKept DEF RowsStep
  <2>6. QED  BY <2>4, <2>5
<1>11. ASSUME NEW i \in DOMAIN sessions, RefreshReused(i) PROVE RowsStep /\ TablesOK' /\ MemoryOK'
  <2>1. sessions[i].fam \in Nat \ {0}
    BY <1>0 DEF Session
  <2>2. QED  BY <1>0, <1>11, <2>1, RevokedKept DEF RefreshReused, RowsStep, TablesOK, MemoryOK
<1>12. ASSUME NEW i \in DOMAIN sessions, Logout(i) PROVE RowsStep /\ TablesOK' /\ MemoryOK'
  BY <1>0, <1>12, RevokedKept DEF Logout, RowsStep, TablesOK, MemoryOK
<1>13. ASSUME NEW k \in DOMAIN invites, AcceptInvite(k) PROVE RowsStep /\ TablesOK' /\ MemoryOK'
  <2> DEFINE inv == invites[k]
             free == users[inv.email].status = "none"
  <2>1. PICK cut \in Cuts(2) :
          /\ invites' = [invites EXCEPT ![k].st = "accepted",
                                        ![k].made = IF cut = 2 /\ free THEN @ + 1 ELSE @]
          /\ users' = IF cut = 2 /\ free THEN [users EXCEPT ![inv.email] = NewUser(inv.role)] ELSE users
          /\ IF cut = 2 THEN UNCHANGED <<challenges, admitted, failures>> ELSE Dies
    BY <1>13 DEF AcceptInvite
  <2>2. cut # 2 => failures + 1 \in 0..MaxFailures
    BY <1>0, CutsMeaning DEF MemoryOK
  <2>3. inv \in Invite /\ inv.email \in Users /\ inv.role \in Roles
    BY <1>0 DEF Invite
  <2>4. NewUser(inv.role) \in User
    BY <2>3 DEF NewUser, NoUser, User
  <2>5. users' \in [Users -> User]
    BY <1>0, <2>1, <2>3, <2>4 DEF TablesOK
  <2>6. PICK m \in Nat : invites' = [invites EXCEPT ![k] = [inv EXCEPT !.st = "accepted", !.made = m]]
    <3>1. inv.made \in Nat
      BY <2>3 DEF Invite
    <3>2. (IF cut = 2 /\ free THEN inv.made + 1 ELSE inv.made) \in Nat
      BY <3>1
    <3>3. QED  BY <2>1, <3>2
  <2>7. [inv EXCEPT !.st = "accepted", !.made = m] \in Invite
    BY <2>3, <2>6 DEF Invite
  <2>8. k \in 1..Len(invites)
    BY <1>0 DEF TablesOK
  <2>9. invites' \in Seq(Invite)
    BY <1>0, <2>6, <2>7, <2>8, ExceptSeq DEF TablesOK
  <2>10. MemoryOK'
    BY <1>0, <1>13, <2>1, <2>2 DEF AcceptInvite, MemoryOK, Dies
  <2>11. QED  BY <1>0, <1>13, <2>5, <2>9, <2>10, SameKept DEF AcceptInvite, RowsStep, TablesOK
<1>14. QED  BY <1>1, <1>2, <1>3, <1>4, <1>5, <1>7, <1>8, <1>9, <1>10, <1>11, <1>12, <1>13 DEF PublicStep

LEMMA HandledOK ==
  ASSUME MemoryOK, NEW r, Answers(r), UNCHANGED <<burnt, torn>>
  PROVE  MemoryOK'
  BY DEF MemoryOK, Answers

LEMMA SelfStepOK ==
  ASSUME Shape, NEW r \in admitted, SelfStep(r) PROVE RowsStep /\ TablesOK' /\ MemoryOK'
<1> USE AccountsAssumption
<1>0. /\ AccountsTypeOK /\ TablesOK /\ MemoryOK
      /\ \A u \in Users : users[u] \in User
      /\ \A i \in DOMAIN sessions : sessions[i] \in Session
  BY DEF Shape, AccountsTypeOK, TablesOK, MemoryOK
<1>a. r.s \in DOMAIN sessions
  BY DEF Shape, NamesExist
<1>1. Owner(r) \in Users /\ users[Owner(r)] \in User
  BY <1>0, <1>a DEF Owner, Session
<1>2. CASE Refuse(r)
  BY <1>0, <1>2, HandledOK, SameKept DEF Refuse, RowsStep, TablesOK
<1>3. CASE ChangePassword(r)
  <2> DEFINE u == Owner(r)
             Others == Held(u) \ {r.s}
  <2>1. PICK cut \in Cuts(2) :
          /\ sessions' = [i \in DOMAIN sessions |->
                            IF i = r.s /\ i \in Held(u)
                            THEN [sessions[i] EXCEPT !.pw = users[u].pw + 1, !.late = FALSE]
                            ELSE IF cut = 2 /\ IsCurrent(r) THEN Revoked(Others)[i] ELSE sessions[i]]
          /\ torn' = IF cut = 2 /\ IsCurrent(r) THEN torn \ {u} ELSE torn \union {u}
          /\ Ends(r, cut = 2)
    BY <1>3 DEF ChangePassword
  <2>2. cut # 2 => failures + 1 \in 0..MaxFailures
    BY <1>0, CutsMeaning DEF MemoryOK
  <2>3. users[u].pw + 1 \in 0..MaxPw
    <3>1. users[u].pw \in 0..MaxPw /\ users[u].pw < MaxPw
      BY <1>1, <1>3 DEF ChangePassword, User
    <3>2. QED  BY <3>1
  <2>4. [users[u] EXCEPT !.pw = @ + 1] \in User
    BY <1>1, <2>3 DEF User
  <2>5. TablesOK'
    BY <1>0, <1>1, <1>3, <2>4 DEF ChangePassword, TablesOK
  <2>6. torn' \subseteq Users
    BY <1>0, <1>1, <2>1 DEF MemoryOK
  <2>7. MemoryOK'
    BY <1>0, <1>3, <2>1, <2>2, <2>6 DEF ChangePassword, MemoryOK, Ends, Answers, Dies
  <2>8. ASSUME NEW i \in DOMAIN sessions
        PROVE  /\ sessions'[i] \in Session
               /\ sessions'[i].user = sessions[i].user /\ sessions'[i].fam = sessions[i].fam
               /\ sessions'[i].st \in Unrevoked => sessions[i].st \in Unrevoked
    <3>1. sessions[i] \in Session /\ FALSE \in BOOLEAN
      BY <1>0
    <3>2. CASE i = r.s /\ i \in Held(u)
      BY <2>1, <2>3, <3>1, <3>2 DEF Session
    <3>3. CASE ~(i = r.s /\ i \in Held(u)) /\ cut = 2 /\ IsCurrent(r)
      <4>1. sessions'[i] = Revoked(Others)[i]
        BY <2>1, <3>3
      <4>2. /\ Revoked(Others) \in Seq(Session) /\ i \in DOMAIN Revoked(Others)
            /\ Revoked(Others)[i].user = sessions[i].user /\ Revoked(Others)[i].fam = sessions[i].fam
            /\ i \in Others => Revoked(Others)[i].st = "revoked"
            /\ i \notin Others => Revoked(Others)[i] = sessions[i]
        BY <1>0, RevokedRows
      <4>3. Revoked(Others)[i] \in Session
        BY <4>2
      <4>4. QED  BY <4>1, <4>2, <4>3 DEF Unrevoked
    <3>4. CASE ~(i = r.s /\ i \in Held(u)) /\ ~(cut = 2 /\ IsCurrent(r))
      BY <2>1, <3>1, <3>4
    <3>5. QED  BY <3>2, <3>3, <3>4
  <2>9. sessions' = [i \in DOMAIN sessions |-> sessions'[i]] /\ sessions \in Seq(Session)
    BY <1>0, <2>1 DEF AccountsTypeOK
  <2>10. sessions' \in Seq(Session) /\ Len(sessions') = Len(sessions)
    BY <2>8, <2>9, RowsMap
  <2>11. RowsKept
    BY <2>8, <2>9, <2>10 DEF RowsKept
  <2>12. QED  BY <2>5, <2>7, <2>11 DEF RowsStep
<1>4. CASE RevokeOthers(r)
  BY <1>0, <1>4, HandledOK, RevokedKept DEF RevokeOthers, RowsStep, TablesOK
<1>5. ASSUME NEW i \in DOMAIN sessions, RevokeSession(r, i)
      PROVE  RowsStep /\ TablesOK' /\ MemoryOK'
  BY <1>0, <1>5, HandledOK, RevokedKept DEF RevokeSession, RowsStep, TablesOK
<1>6. ASSUME NEW totp \in {"off", "setup", "on"}, NEW codes \in 0..BackupCodes, SetTotp(r, totp, codes)
      PROVE  RowsStep /\ TablesOK' /\ MemoryOK'
  <2>1. [users[Owner(r)] EXCEPT !.totp = totp, !.codes = codes] \in User
    BY <1>1 DEF User
  <2>2. TablesOK'
    BY <1>0, <1>1, <1>6, <2>1 DEF SetTotp, TablesOK
  <2>3. MemoryOK' /\ RowsKept
    BY <1>0, <1>6, HandledOK, SameKept DEF SetTotp
  <2>4. QED  BY <2>2, <2>3 DEF RowsStep
<1>7. 0 \in 0..BackupCodes /\ BackupCodes \in 0..BackupCodes
  OBVIOUS
<1>8. CASE TwoFactorSetup(r) \/ TwoFactorEnable(r) \/ BackupRegenerate(r) \/ TwoFactorDisable(r)
  BY <1>6, <1>7, <1>8 DEF TwoFactorSetup, TwoFactorEnable, BackupRegenerate, TwoFactorDisable
<1>9. QED  BY <1>2, <1>3, <1>4, <1>5, <1>8 DEF SelfStep

LEMMA ManageStepOK ==
  ASSUME Shape, NEW r \in admitted, ManageStep(r) PROVE RowsStep /\ TablesOK' /\ MemoryOK'
<1> USE AccountsAssumption
<1>0. /\ AccountsTypeOK /\ TablesOK /\ MemoryOK
      /\ \A u \in Users : users[u] \in User
      /\ \A k \in DOMAIN invites : invites[k] \in Invite /\ k \in 1..Len(invites)
  BY DEF Shape, AccountsTypeOK, TablesOK, MemoryOK
<1>1. ASSUME NEW e \in Users, NEW role \in Roles, InviteUser(r, e, role)
      PROVE  RowsStep /\ TablesOK' /\ MemoryOK'
  <2>1. [email |-> e, role |-> role, st |-> "pending", lapsed |-> FALSE, made |-> 0] \in Invite
    BY DEF Invite
  <2>2. invites' \in Seq(Invite)
    BY <1>0, <1>1, <2>1, AppendProperties DEF InviteUser, TablesOK
  <2>3. QED  BY <1>0, <1>1, <2>2, HandledOK, SameKept DEF InviteUser, RowsStep, TablesOK
<1>2. ASSUME NEW k \in DOMAIN invites, NEW inv \in Invite, invites' = [invites EXCEPT ![k] = inv]
      PROVE  invites' \in Seq(Invite)
  BY <1>0, <1>2, ExceptSeq DEF TablesOK
<1>3. ASSUME NEW k \in DOMAIN invites, ResendInvite(r, k) PROVE RowsStep /\ TablesOK' /\ MemoryOK'
  <2>1. [invites[k] EXCEPT !.lapsed = FALSE] \in Invite
    BY <1>0 DEF Invite
  <2>2. invites' \in Seq(Invite)
    BY <1>2, <1>3, <2>1 DEF ResendInvite
  <2>3. QED  BY <1>0, <1>3, <2>2, HandledOK, SameKept DEF ResendInvite, RowsStep, TablesOK
<1>4. ASSUME NEW k \in DOMAIN invites, RevokeInvite(r, k) PROVE RowsStep /\ TablesOK' /\ MemoryOK'
  <2>1. [invites[k] EXCEPT !.st = "revoked"] \in Invite
    BY <1>0 DEF Invite
  <2>2. invites' \in Seq(Invite)
    BY <1>2, <1>4, <2>1 DEF RevokeInvite
  <2>3. QED  BY <1>0, <1>4, <2>2, HandledOK, SameKept DEF RevokeInvite, RowsStep, TablesOK
<1>5. ASSUME NEW u \in Users, NEW role \in Roles, PatchRole(r, u, role)
      PROVE  RowsStep /\ TablesOK' /\ MemoryOK'
  <2>1. [users[u] EXCEPT !.role = role] \in User
    BY <1>0 DEF User
  <2>2. TablesOK'
    BY <1>0, <1>5, <2>1 DEF PatchRole, TablesOK
  <2>3. QED  BY <1>0, <1>5, <2>2, HandledOK, SameKept DEF PatchRole, RowsStep
<1>6. ASSUME NEW u \in Users, NEW st \in {"active", "suspended"}
      PROVE  [users EXCEPT ![u].status = st] \in [Users -> User]
  <2>1. [users[u] EXCEPT !.status = st] \in User
    BY <1>0 DEF User
  <2>2. QED  BY <1>0, <2>1 DEF TablesOK
<1>7. ASSUME NEW u \in Users, Suspend(r, u) PROVE RowsStep /\ TablesOK' /\ MemoryOK'
  <2>1. PICK cut \in Cuts(2) :
          /\ users' = IF cut = 2 THEN [users EXCEPT ![u].status = "suspended"] ELSE users
          /\ Ends(r, cut = 2)
    BY <1>7 DEF Suspend
  <2>2. cut # 2 => failures + 1 \in 0..MaxFailures
    BY <1>0, CutsMeaning DEF MemoryOK
  <2>3. TablesOK'
    BY <1>0, <1>6, <1>7, <2>1 DEF Suspend, TablesOK
  <2>4. MemoryOK'
    BY <1>0, <1>7, <2>1, <2>2 DEF Suspend, MemoryOK, Ends, Answers, Dies
  <2>5. RowsKept
    BY <1>0, <1>7, RevokedKept DEF Suspend
  <2>6. QED  BY <2>3, <2>4, <2>5 DEF RowsStep
<1>8. ASSUME NEW u \in Users, Reactivate(r, u) PROVE RowsStep /\ TablesOK' /\ MemoryOK'
  BY <1>0, <1>6, <1>8, HandledOK, SameKept DEF Reactivate, RowsStep, TablesOK
<1>9. ASSUME NEW u \in Users, DeleteUser(r, u) PROVE RowsStep /\ TablesOK' /\ MemoryOK'
  <2>1. NoUser("admin") \in User
    BY DEF NoUser, User
  <2>2. TablesOK'
    BY <1>0, <1>9, <2>1 DEF DeleteUser, TablesOK
  <2>3. MemoryOK' /\ RowsKept
    BY <1>0, <1>9, GoneRows DEF DeleteUser, MemoryOK
  <2>4. QED  BY <2>2, <2>3 DEF RowsStep
<1>10. QED  BY <1>1, <1>3, <1>4, <1>5, <1>7, <1>8, <1>9 DEF ManageStep

LEMMA TimeStepOK == Shape /\ TimeStep => RowsStep /\ TablesOK' /\ MemoryOK' /\ UNCHANGED <<users, burnt, torn>>
<1> SUFFICES ASSUME Shape, TimeStep
             PROVE  RowsStep /\ TablesOK' /\ MemoryOK' /\ UNCHANGED <<users, burnt, torn>>
  OBVIOUS
<1>0. AccountsTypeOK /\ TablesOK /\ MemoryOK
  BY DEF Shape, AccountsTypeOK, TablesOK, MemoryOK
<1>1. ASSUME NEW i \in DOMAIN sessions, SessionIdles(i) \/ SessionEnds(i)
      PROVE  RowsKept /\ TablesOK' /\ MemoryOK' /\ UNCHANGED <<users, burnt, torn>>
  BY <1>0, <1>1, TimeKept DEF SessionIdles, SessionEnds, TablesOK, MemoryOK, Unrevoked
<1>2. ASSUME NEW k \in DOMAIN invites, InviteLapses(k)
      PROVE  RowsKept /\ TablesOK' /\ MemoryOK' /\ UNCHANGED <<users, burnt, torn>>
  <2>1. invites[k] \in Invite /\ k \in 1..Len(invites)
    BY <1>0 DEF TablesOK
  <2>2. [invites[k] EXCEPT !.lapsed = TRUE] \in Invite
    BY <2>1 DEF Invite
  <2>3. invites' \in Seq(Invite)
    BY <1>0, <1>2, <2>1, <2>2, ExceptSeq DEF InviteLapses, TablesOK
  <2>4. QED  BY <1>0, <1>2, <2>3, SameKept DEF InviteLapses, TablesOK, MemoryOK
<1>3. ASSUME NEW u \in Users, ResetLapses(u)
      PROVE  RowsKept /\ TablesOK' /\ MemoryOK' /\ UNCHANGED <<users, burnt, torn>>
  BY <1>0, <1>3, AccountsAssumption, SameKept DEF ResetLapses, TablesOK, MemoryOK
<1>4. ASSUME NEW c \in challenges, ChallengeLapses(c)
      PROVE  RowsKept /\ TablesOK' /\ MemoryOK' /\ UNCHANGED <<users, burnt, torn>>
  BY <1>0, <1>4, SameKept DEF ChallengeLapses, TablesOK, MemoryOK
<1>5. CASE Restart
  BY <1>0, <1>5, AccountsAssumption, SameKept DEF Restart, Dies, RowsStep, TablesOK, MemoryOK
<1>6. QED  BY <1>1, <1>2, <1>3, <1>4, <1>5 DEF TimeStep, RowsStep

LEMMA NoStep == Shape /\ UNCHANGED accVars => RowsStep /\ TablesOK' /\ MemoryOK'
<1> SUFFICES ASSUME Shape, UNCHANGED accVars PROVE RowsStep /\ TablesOK' /\ MemoryOK'
  OBVIOUS
<1>1. RowsKept
  BY SameKept DEF Shape, accVars
<1>2. TablesOK /\ MemoryOK /\ RowsStep
  BY <1>1 DEF Shape, AccountsTypeOK, TablesOK, MemoryOK, RowsStep
<1>3. QED  BY <1>2 DEF accVars, TablesOK, MemoryOK

LEMMA StepOK == Shape /\ [AccountsNext]_accVars => RowsStep /\ AccountsTypeOK'
<1> SUFFICES ASSUME Shape, [AccountsNext]_accVars PROVE RowsStep /\ AccountsTypeOK'
  OBVIOUS
<1>1. RowsStep /\ TablesOK' /\ MemoryOK'
  BY PublicStepOK, TimeStepOK, SelfStepOK, ManageStepOK, NoStep DEF AccountsNext
<1>2. sessions' \in Seq(Session)
  BY <1>1, RowsType DEF Shape
<1>3. QED  BY <1>1, <1>2 DEF AccountsTypeOK, TablesOK, MemoryOK

\* The rows are never fewer.
LEMMA RowsGrow ==
  ASSUME AccountsTypeOK, RowsStep
  PROVE  /\ DOMAIN sessions \subseteq DOMAIN sessions'
         /\ \A i \in DOMAIN sessions : /\ sessions'[i].user = sessions[i].user
                                       /\ sessions'[i].fam = sessions[i].fam
                                       /\ sessions'[i].st \in Unrevoked => sessions[i].st \in Unrevoked
<1> DEFINE Grows ==
      /\ DOMAIN sessions \subseteq DOMAIN sessions'
      /\ \A i \in DOMAIN sessions : /\ sessions'[i].user = sessions[i].user
                                    /\ sessions'[i].fam = sessions[i].fam
                                    /\ sessions'[i].st \in Unrevoked => sessions[i].st \in Unrevoked
<1>0. DOMAIN sessions = 1..Len(sessions) /\ Len(sessions) \in Nat
  BY DEF AccountsTypeOK
<1>1. RowsKept => Grows
  BY <1>0 DEF RowsKept
<1>2. ASSUME NEW row \in Session, Opens(row)
      PROVE  /\ DOMAIN sessions \subseteq DOMAIN sessions'
             /\ \A i \in DOMAIN sessions : sessions'[i] = sessions[i]
  BY <1>0, <1>2, OpenedRows DEF Opens
<1>3. ASSUME NEW i \in DOMAIN sessions, Rotates(i), NEW j \in DOMAIN sessions
      PROVE  /\ sessions'[j].user = sessions[j].user /\ sessions'[j].fam = sessions[j].fam
             /\ sessions'[j].st \in Unrevoked => sessions[j].st \in Unrevoked
  <2>1. j \in 1..Len(sessions)
    BY <1>0
  <2>2. /\ sessions'[j].user = sessions[j].user /\ sessions'[j].fam = sessions[j].fam
        /\ j = i => sessions'[j].st = "revoked"
        /\ j # i => sessions'[j] = sessions[j]
    BY <1>3, <2>1, RotatedRows
  <2>3. QED  BY <2>2 DEF Unrevoked
<1>4. ASSUME NEW row \in Session, Opens(row) PROVE Grows
  BY <1>2, <1>4
<1>5. ASSUME NEW i \in DOMAIN sessions, Rotates(i) PROVE Grows
  <2>1. DOMAIN sessions' = 1..Len(sessions) + 1
    BY <1>5, RotatedRows
  <2>2. DOMAIN sessions \subseteq DOMAIN sessions'
    BY <1>0, <2>1
  <2>3. QED  BY <1>3, <1>5, <2>2
<1> HIDE DEF Grows
<1>6. Grows
  BY <1>1, <1>4, <1>5 DEF RowsStep
<1>7. QED  BY <1>6 DEF Grows

\* Where the waiting requests and the burnt families of the next state come from.
LEMMA NamesStep ==
  ASSUME Shape, [AccountsNext]_accVars
  PROVE  /\ \A r \in admitted' : r.s \in DOMAIN sessions
         /\ burnt' \subseteq DOMAIN sessions
<1>0. NamesExist /\ AccountsTypeOK
  BY DEF Shape
<1> USE DEF Answers, Ends, Dies
<1>1. CASE PublicStep
  <2>1. ASSUME NEW u \in Users, LoginDirect(u) \/ LoginAsks(u) \/ ForgotPassword(u) \/ ResetPassword(u)
        PROVE  burnt' = burnt /\ admitted' \subseteq admitted
    BY <2>1 DEF LoginDirect, LoginAsks, ForgotPassword, ResetPassword
  <2>2. ASSUME NEW c \in challenges, VerifyRefused(c) \/ VerifyTotp(c) \/ VerifyBackup(c)
        PROVE  burnt' = burnt /\ admitted' \subseteq admitted
    BY <2>2 DEF VerifyRefused, VerifyTotp, VerifyBackup
  <2>3. ASSUME NEW i \in DOMAIN sessions, RefreshRotate(i) \/ Logout(i)
        PROVE  burnt' = burnt /\ admitted' \subseteq admitted
    BY <2>3 DEF RefreshRotate, Logout
  <2>4. ASSUME NEW k \in DOMAIN invites, AcceptInvite(k)
        PROVE  burnt' = burnt /\ admitted' \subseteq admitted
    BY <2>4 DEF AcceptInvite
  <2>5. ASSUME NEW i \in DOMAIN sessions, Admit(i)
        PROVE  burnt' = burnt /\ \A r \in admitted' : r \in admitted \/ r.s = i
    BY <2>5 DEF Admit
  <2>6. ASSUME NEW i \in DOMAIN sessions, RefreshReused(i)
        PROVE  burnt' = burnt \union {sessions[i].fam} /\ admitted' = admitted
    BY <2>6 DEF RefreshReused
  <2>7. QED  BY <1>0, <1>1, <2>1, <2>2, <2>3, <2>4, <2>5, <2>6 DEF PublicStep, NamesExist
<1>2. CASE TimeStep
  BY <1>0, <1>2 DEF TimeStep, SessionIdles, SessionEnds, InviteLapses, ResetLapses, ChallengeLapses,
                    Restart, NamesExist
<1>3. ASSUME NEW r \in admitted, SelfStep(r) PROVE burnt' = burnt /\ admitted' \subseteq admitted
  BY <1>3 DEF SelfStep, Refuse, ChangePassword, RevokeOthers, RevokeSession, TwoFactorSetup,
              TwoFactorEnable, BackupRegenerate, TwoFactorDisable, SetTotp
<1>4. ASSUME NEW r \in admitted, ManageStep(r) PROVE burnt' = burnt /\ admitted' \subseteq admitted
  BY <1>4 DEF ManageStep, InviteUser, PatchRole, ResendInvite, RevokeInvite, Suspend, Reactivate, DeleteUser
<1>5. CASE UNCHANGED accVars
  BY <1>0, <1>5 DEF accVars, NamesExist
<1>6. QED  BY <1>0, <1>1, <1>2, <1>3, <1>4, <1>5 DEF AccountsNext, NamesExist

LEMMA ShapeStep == Shape /\ [AccountsNext]_accVars => Shape'
<1> SUFFICES ASSUME Shape, [AccountsNext]_accVars PROVE Shape'
  OBVIOUS
<1>1. RowsStep /\ AccountsTypeOK' /\ AccountsTypeOK
  BY StepOK DEF Shape
<1>2. DOMAIN sessions \subseteq DOMAIN sessions'
  BY <1>1, RowsGrow
<1>3. \A i \in DOMAIN sessions : sessions'[i].fam \in DOMAIN sessions'
  BY <1>1, <1>2, RowsGrow DEF Shape, NamesExist
<1>4. \A i \in DOMAIN sessions' : sessions'[i].fam \in DOMAIN sessions'
  <2>0. DOMAIN sessions = 1..Len(sessions) /\ Len(sessions) \in Nat
    BY <1>1 DEF AccountsTypeOK
  <2>1. CASE RowsKept
    <3>1. DOMAIN sessions' = DOMAIN sessions
      BY <2>0, <2>1 DEF RowsKept
    <3>2. QED  BY <1>3, <3>1
  <2>2. ASSUME NEW row \in Session, Opens(row), NEW i \in DOMAIN sessions'
        PROVE  sessions'[i].fam \in DOMAIN sessions'
    BY <1>1, <1>3, <2>0, <2>2, OpenedRows DEF Opens
  <2>3. ASSUME NEW j \in DOMAIN sessions, Rotates(j), NEW i \in DOMAIN sessions'
        PROVE  sessions'[i].fam \in DOMAIN sessions'
    <3>1. sessions[j] \in Session /\ sessions[j].fam \in DOMAIN sessions
      BY <1>1, Rows DEF Shape, NamesExist
    <3>2. [sessions[j] EXCEPT !.st = "live"].fam = sessions[j].fam
      BY <3>1 DEF Session
    <3>3. i \in DOMAIN sessions \/ sessions'[i] = [sessions[j] EXCEPT !.st = "live"]
      <4>1. DOMAIN sessions' = 1..Len(sessions) + 1
        BY <1>1, <2>3, RotatedRows
      <4>2. \A n \in Nat : \A m \in 1..n + 1 : m \in 1..n \/ m = n + 1
        OBVIOUS
      <4>3. i \in DOMAIN sessions \/ i = Len(sessions) + 1
        BY <2>0, <2>3, <4>1, <4>2
      <4>4. sessions'[Len(sessions) + 1] = [sessions[j] EXCEPT !.st = "live"]
        BY <1>1, <2>3, RotatedRows
      <4>5. QED  BY <4>3, <4>4
    <3>4. QED  BY <1>2, <1>3, <3>1, <3>2, <3>3
  <2>4. QED  BY <1>1, <2>1, <2>2, <2>3 DEF RowsStep
<1>5. QED  BY <1>1, <1>2, <1>4, NamesStep DEF Shape, NamesExist

LEMMA ShapeInit == AccountsInit => Shape
  BY AccountsAssumption DEF AccountsInit, Shape, AccountsTypeOK, NamesExist, User, NewUser, NoUser

\* Type correctness of the accounts (the tables of auth/store.py, the challenges in
\* memory, the requests past the middleware).
THEOREM AccountsTypeCorrect == AccountsSpec => []AccountsTypeOK
<1>1. AccountsInit => Shape
  BY ShapeInit
<1>2. Shape /\ [AccountsNext]_accVars => Shape'
  BY ShapeStep
<1>3. Shape => AccountsTypeOK
  BY DEF Shape
<1>4. QED  BY <1>1, <1>2, <1>3, PTL DEF AccountsSpec

-----------------------------------------------------------------------------
(* Families and their holders.                                             *)
LEMMA BurntStep ==
  ASSUME [AccountsNext]_accVars
  PROVE  burnt' = burnt \/ \E i \in DOMAIN sessions : RefreshReused(i)
<1>1. CASE PublicStep
  BY <1>1 DEF PublicStep, LoginDirect, LoginAsks, ForgotPassword, ResetPassword, VerifyRefused, VerifyTotp,
              VerifyBackup, Admit, RefreshRotate, Logout, AcceptInvite
<1>2. CASE TimeStep
  BY <1>2 DEF TimeStep, SessionIdles, SessionEnds, InviteLapses, ResetLapses, ChallengeLapses, Restart
<1>3. ASSUME NEW r \in admitted, SelfStep(r) PROVE burnt' = burnt
  BY <1>3 DEF SelfStep, Refuse, ChangePassword, RevokeOthers, RevokeSession, TwoFactorSetup,
              TwoFactorEnable, BackupRegenerate, TwoFactorDisable, SetTotp
<1>4. ASSUME NEW r \in admitted, ManageStep(r) PROVE burnt' = burnt
  BY <1>4 DEF ManageStep, InviteUser, PatchRole, ResendInvite, RevokeInvite, Suspend, Reactivate, DeleteUser
<1>5. CASE UNCHANGED accVars
  BY <1>5 DEF accVars
<1>6. QED  BY <1>1, <1>2, <1>3, <1>4, <1>5 DEF AccountsNext

LEMMA FamilyStep == Shape /\ FamilyIsOneChain /\ [AccountsNext]_accVars => FamilyIsOneChain'
<1> SUFFICES ASSUME Shape, FamilyIsOneChain, [AccountsNext]_accVars,
                    NEW i \in DOMAIN sessions', NEW j \in DOMAIN sessions',
                    sessions'[i].fam = sessions'[j].fam, sessions'[i].st \in Unrevoked
             PROVE  sessions'[i].fam \notin burnt' /\ (sessions'[j].st \in Unrevoked => i = j)
  BY DEF FamilyIsOneChain
<1>0. /\ AccountsTypeOK /\ NamesExist /\ RowsStep
      /\ DOMAIN sessions = 1..Len(sessions) /\ Len(sessions) \in Nat
  BY StepOK DEF Shape, AccountsTypeOK
<1>1. CASE RowsKept /\ burnt' = burnt
  <2>1. DOMAIN sessions' = DOMAIN sessions
    BY <1>0, <1>1 DEF RowsKept
  <2>2. QED  BY <1>0, <1>1, <2>1, RowsGrow DEF FamilyIsOneChain
<1>2. ASSUME NEW k \in DOMAIN sessions, RefreshReused(k)
      PROVE  sessions'[i].fam \notin burnt' /\ (sessions'[j].st \in Unrevoked => i = j)
  <2>1. sessions' = Revoked(FamilyOf(sessions[k].fam)) /\ burnt' = burnt \union {sessions[k].fam}
    BY <1>2 DEF RefreshReused
  <2>2. DOMAIN sessions' = DOMAIN sessions /\ RowsKept
    BY <1>0, <2>1, RevokedRows, RevokedKept
  <2>3. sessions[i].st \in Unrevoked /\ sessions[i].fam = sessions'[i].fam /\ sessions[j].fam = sessions'[j].fam
        /\ (sessions'[j].st \in Unrevoked => sessions[j].st \in Unrevoked)
    BY <1>0, <2>2, RowsGrow
  <2>4. sessions[i].fam # sessions[k].fam
    <3>1. SUFFICES ASSUME sessions[i].fam = sessions[k].fam PROVE FALSE
      OBVIOUS
    <3>2. i \in FamilyOf(sessions[k].fam)
      BY <2>2, <2>3, <3>1 DEF FamilyOf
    <3>3. sessions'[i].st = "revoked"
      BY <1>0, <2>1, <2>2, <3>2, RevokedRows
    <3>4. QED  BY <3>3 DEF Unrevoked
  <2>5. QED  BY <2>1, <2>2, <2>3, <2>4 DEF FamilyIsOneChain
<1>3. ASSUME NEW row \in Session, Opens(row), burnt' = burnt
      PROVE  sessions'[i].fam \notin burnt' /\ (sessions'[j].st \in Unrevoked => i = j)
  <2>1. ASSUME NEW m \in DOMAIN sessions'
        PROVE  \/ /\ m \in DOMAIN sessions /\ sessions'[m] = sessions[m]
                  /\ sessions'[m].fam # Len(sessions) + 1
               \/ m = Len(sessions) + 1 /\ sessions'[m].fam = Len(sessions) + 1
    <3>1. m \in DOMAIN sessions \/ m = Len(sessions) + 1
      <4>1. DOMAIN sessions' = 1..Len(sessions) + 1
        BY <1>0, <1>3, OpenedRows DEF Opens
      <4>2. \A n \in Nat : \A x \in 1..n + 1 : x \in 1..n \/ x = n + 1
        OBVIOUS
      <4>3. QED  BY <1>0, <2>1, <4>1, <4>2
    <3>2. ASSUME m \in DOMAIN sessions PROVE sessions'[m] = sessions[m] /\ sessions[m].fam # Len(sessions) + 1
      <4>1. sessions'[m] = sessions[m]
        BY <1>0, <1>3, <3>2, OpenedRows DEF Opens
      <4>2. sessions[m].fam \in 1..Len(sessions)
        BY <1>0, <3>2 DEF NamesExist
      <4>3. QED  BY <1>0, <4>1, <4>2
    <3>3. sessions'[Len(sessions) + 1].fam = Len(sessions) + 1
      BY <1>0, <1>3, OpenedRows DEF Opens
    <3>4. QED  BY <3>1, <3>2, <3>3
  <2>2. Len(sessions) + 1 \notin burnt
    BY <1>0 DEF NamesExist
  <2>3. QED  BY <1>3, <2>1, <2>2 DEF FamilyIsOneChain
<1>4. ASSUME NEW k \in DOMAIN sessions, Rotates(k), burnt' = burnt
      PROVE  sessions'[i].fam \notin burnt' /\ (sessions'[j].st \in Unrevoked => i = j)
  <2>0. sessions[k] \in Session /\ sessions[k].st \in Unrevoked
    BY <1>0, <1>4, Rows DEF Rotates, Usable, Unrevoked
  <2>1. ASSUME NEW m \in DOMAIN sessions', sessions'[m].st \in Unrevoked
        PROVE  \/ m \in DOMAIN sessions /\ m # k /\ sessions'[m] = sessions[m]
               \/ m = Len(sessions) + 1 /\ sessions'[m].fam = sessions[k].fam
    <3>1. m \in DOMAIN sessions \/ m = Len(sessions) + 1
      <4>1. DOMAIN sessions' = 1..Len(sessions) + 1
        BY <1>0, <1>4, RotatedRows
      <4>2. \A n \in Nat : \A x \in 1..n + 1 : x \in 1..n \/ x = n + 1
        OBVIOUS
      <4>3. QED  BY <1>0, <2>1, <4>1, <4>2
    <3>2. m \in DOMAIN sessions => m # k /\ sessions'[m] = sessions[m]
      BY <1>0, <1>4, <2>1, RotatedRows DEF Unrevoked
    <3>3. sessions'[Len(sessions) + 1].fam = sessions[k].fam
      <4>1. sessions'[Len(sessions) + 1] = [sessions[k] EXCEPT !.st = "live"]
        BY <1>0, <1>4, RotatedRows
      <4>2. QED  BY <2>0, <4>1 DEF Session
    <3>4. QED  BY <3>1, <3>2, <3>3
  <2>2. \A m \in DOMAIN sessions : sessions[m].st \in Unrevoked /\ sessions[m].fam = sessions[k].fam => m = k
    BY <2>0 DEF FamilyIsOneChain
  <2>3. sessions[k].fam \notin burnt
    BY <2>0 DEF FamilyIsOneChain
  <2>4. sessions'[i].fam \notin burnt
    BY <2>1, <2>3 DEF FamilyIsOneChain
  <2>5. ASSUME sessions'[j].st \in Unrevoked PROVE i = j
    BY <2>1, <2>2, <2>5 DEF FamilyIsOneChain
  <2>6. QED  BY <1>4, <2>4, <2>5
<1>5. CASE burnt' = burnt
  BY <1>0, <1>1, <1>3, <1>4, <1>5 DEF RowsStep
<1>6. QED  BY <1>2, <1>5, BurntStep

\* Most handlers that write an account leave its status alone.
StatusKept == \A u \in Users : users'[u].status = users[u].status

LEMMA EditsKeepStatus ==
  ASSUME TablesOK, NEW w \in Users, NEW x, NEW y,
         \/ users' = users
         \/ users' = [users EXCEPT ![w].codes = x]
         \/ users' = [users EXCEPT ![w].pw = x]
         \/ users' = [users EXCEPT ![w].role = x]
         \/ users' = [users EXCEPT ![w].totp = x, ![w].codes = y]
  PROVE  StatusKept
<1>1. users[w] \in User /\ users \in [Users -> User]
  BY DEF TablesOK
<1>2. /\ [users[w] EXCEPT !.codes = x].status = users[w].status
      /\ [users[w] EXCEPT !.pw = x].status = users[w].status
      /\ [users[w] EXCEPT !.role = x].status = users[w].status
      /\ [[users[w] EXCEPT !.totp = x] EXCEPT !.codes = y].status = users[w].status
  BY <1>1 DEF User
<1>3. CASE users' = [users EXCEPT ![w].totp = x, ![w].codes = y]
  <2>1. users' = [users EXCEPT ![w] = [[users[w] EXCEPT !.totp = x] EXCEPT !.codes = y]]
    BY <1>1, <1>3
  <2>2. QED  BY <1>1, <1>2, <2>1 DEF StatusKept
<1>4. CASE users' # [users EXCEPT ![w].totp = x, ![w].codes = y]
  BY <1>1, <1>2, <1>4 DEF StatusKept
<1>5. QED  BY <1>3, <1>4

\* Whoever ceases to be active has lost every session by then.
LEMMA DeactivationStep ==
  ASSUME Shape, [AccountsNext]_accVars, NEW u \in Users, Active(u)
  PROVE  Active(u)' \/ \A i \in DOMAIN sessions : sessions[i].user = u => sessions'[i].st \notin Unrevoked
<1>0. AccountsTypeOK /\ TablesOK /\ MemoryOK
  BY DEF Shape, AccountsTypeOK, TablesOK, MemoryOK
<1> DEFINE Kept == users'[u].status = "active"
<1>1. CASE PublicStep
  <2>1. ASSUME NEW v \in Users, LoginDirect(v) \/ LoginAsks(v) \/ ForgotPassword(v) \/ ResetPassword(v)
        PROVE  Kept
    <3>1. users' = users \/ users' = [users EXCEPT ![v].pw = users[v].pw + 1]
      BY <2>1 DEF LoginDirect, LoginAsks, ForgotPassword, ResetPassword
    <3>2. QED  BY <1>0, <3>1, EditsKeepStatus DEF StatusKept, Active
  <2>2. ASSUME NEW c \in challenges, VerifyRefused(c) \/ VerifyTotp(c) \/ VerifyBackup(c) PROVE Kept
    <3>1. users' = users \/ users' = [users EXCEPT ![c.user].codes = users[c.user].codes - 1]
      BY <2>2 DEF VerifyRefused, VerifyTotp, VerifyBackup
    <3>2. c.user \in Users
      BY <1>0 DEF MemoryOK, Challenge
    <3>3. QED  BY <1>0, <3>1, <3>2, EditsKeepStatus DEF StatusKept, Active
  <2>3. ASSUME NEW i \in DOMAIN sessions, Admit(i) \/ RefreshRotate(i) \/ RefreshReused(i) \/ Logout(i)
        PROVE  Kept
    BY <2>3 DEF Admit, RefreshRotate, RefreshReused, Logout, Active
  <2>4. ASSUME NEW k \in DOMAIN invites, AcceptInvite(k) PROVE Kept
    <3>1. invites[k] \in Invite
      BY <1>0 DEF TablesOK
    <3>2. invites[k].email \in Users
      BY <3>1 DEF Invite
    <3>3. PICK cut \in Cuts(2) :
            users' = IF cut = 2 /\ users[invites[k].email].status = "none"
                     THEN [users EXCEPT ![invites[k].email] = NewUser(invites[k].role)] ELSE users
      BY <2>4 DEF AcceptInvite
    <3>4. QED  BY <1>0, <3>2, <3>3 DEF Active, TablesOK
  <2>5. QED  BY <1>1, <2>1, <2>2, <2>3, <2>4 DEF PublicStep, Active
<1>2. CASE TimeStep
  BY <1>2, TimeStepOK DEF Active
<1>3. ASSUME NEW r \in admitted, SelfStep(r) PROVE Kept
  <2>1. Owner(r) \in Users
    <3>1. r.s \in DOMAIN sessions
      BY DEF Shape, NamesExist
    <3>2. sessions[r.s] \in Session
      BY <1>0, <3>1, Rows
    <3>3. QED  BY <3>2 DEF Owner, Session
  <2>2. CASE ChangePassword(r)
    <3>1. users' = [users EXCEPT ![Owner(r)].pw = users[Owner(r)].pw + 1]
      BY <2>2 DEF ChangePassword
    <3>2. QED  BY <1>0, <2>1, <3>1, EditsKeepStatus DEF StatusKept, Active
  <2>3. CASE TwoFactorSetup(r) \/ TwoFactorEnable(r) \/ BackupRegenerate(r) \/ TwoFactorDisable(r)
    <3>1. PICK x, y : users' = [users EXCEPT ![Owner(r)].totp = x, ![Owner(r)].codes = y]
      BY <2>3 DEF TwoFactorSetup, TwoFactorEnable, BackupRegenerate, TwoFactorDisable, SetTotp
    <3>2. QED  BY <1>0, <2>1, <3>1, EditsKeepStatus DEF StatusKept, Active
  <2>4. CASE Refuse(r) \/ RevokeOthers(r) \/ \E i \in DOMAIN sessions : RevokeSession(r, i)
    BY <2>4 DEF Refuse, RevokeOthers, RevokeSession, Active
  <2>5. QED  BY <1>3, <2>2, <2>3, <2>4 DEF SelfStep
<1>4. ASSUME NEW r \in admitted, ManageStep(r)
      PROVE  Kept \/ \A i \in DOMAIN sessions : sessions[i].user = u => sessions'[i].st \notin Unrevoked
  <2>1. ASSUME NEW v \in Users, NEW role \in Roles, InviteUser(r, v, role) \/ PatchRole(r, v, role) PROVE Kept
    BY SMTT(30), <1>0, <2>1 DEF InviteUser, PatchRole, Active, TablesOK, User
  <2>2. ASSUME NEW k \in DOMAIN invites, ResendInvite(r, k) \/ RevokeInvite(r, k) PROVE Kept
    BY <2>2 DEF ResendInvite, RevokeInvite, Active
  <2>3. ASSUME NEW v \in Users, Reactivate(r, v) PROVE Kept
    BY <1>0, <2>3 DEF Reactivate, Active, TablesOK, User
  <2>4. ASSUME NEW v \in Users, Suspend(r, v)
        PROVE  Kept \/ \A i \in DOMAIN sessions : sessions[i].user = u => sessions'[i].st \notin Unrevoked
    <3>1. CASE v # u
      BY <1>0, <2>4, <3>1 DEF Suspend, Active, TablesOK
    <3>2. CASE v = u
      <4>1. ASSUME NEW i \in DOMAIN sessions, sessions[i].user = u PROVE sessions'[i].st \notin Unrevoked
        <5>1. sessions' = Revoked(Held(u))
          BY <2>4, <3>2 DEF Suspend
        <5>2. (i \in Held(u) => sessions'[i].st = "revoked") /\ (i \notin Held(u) => sessions'[i] = sessions[i])
          BY <1>0, <5>1, RevokedRows
        <5>3. QED  BY <4>1, <5>2 DEF Held, Unrevoked
      <4>2. QED  BY <4>1
    <3>3. QED  BY <3>1, <3>2
  <2>5. ASSUME NEW v \in Users, DeleteUser(r, v)
        PROVE  Kept \/ \A i \in DOMAIN sessions : sessions[i].user = u => sessions'[i].st \notin Unrevoked
    <3>1. CASE v # u
      BY <1>0, <2>5, <3>1 DEF DeleteUser, Active, TablesOK
    <3>2. CASE v = u
      BY <1>0, <2>5, <3>2, GoneRows DEF DeleteUser, Unrevoked
    <3>3. QED  BY <3>1, <3>2
  <2>6. QED  BY <1>4, <2>1, <2>2, <2>3, <2>4, <2>5 DEF ManageStep
<1>5. CASE UNCHANGED accVars
  BY <1>5 DEF accVars, Active
<1>6. QED  BY <1>1, <1>2, <1>3, <1>4, <1>5 DEF AccountsNext, Active

LEMMA HoldersStep == Shape /\ OnlyActiveHoldSessions /\ [AccountsNext]_accVars => OnlyActiveHoldSessions'
<1> SUFFICES ASSUME Shape, OnlyActiveHoldSessions, [AccountsNext]_accVars,
                    NEW i \in DOMAIN sessions', sessions'[i].st \in Unrevoked
             PROVE  users'[sessions'[i].user].status = "active"
  BY DEF OnlyActiveHoldSessions, Active
<1>0. /\ AccountsTypeOK /\ RowsStep /\ DOMAIN sessions = 1..Len(sessions) /\ Len(sessions) \in Nat
  BY StepOK DEF Shape, AccountsTypeOK
<1>1. CASE i \in DOMAIN sessions
  <2>1. sessions[i].st \in Unrevoked /\ sessions'[i].user = sessions[i].user /\ sessions[i].user \in Users
    BY <1>0, <1>1, RowsGrow, Rows DEF Session
  <2>2. Active(sessions[i].user)
    BY <1>1, <2>1 DEF OnlyActiveHoldSessions
  <2>3. QED  BY <1>1, <2>1, <2>2, DeactivationStep DEF Active
<1>2. CASE i \notin DOMAIN sessions
  <2>1. CASE RowsKept
    BY <1>0, <1>2, <2>1 DEF RowsKept
  <2>2. \A n \in Nat : \A x \in 1..n + 1 : x \in 1..n \/ x = n + 1
    OBVIOUS
  <2>3. ASSUME NEW row \in Session, Opens(row), users' = users \/ \E u \in Users : users' = [users EXCEPT ![u].codes = @ - 1]
        PROVE  users'[sessions'[i].user].status = "active"
    <3>1. DOMAIN sessions' = 1..Len(sessions) + 1 /\ sessions'[Len(sessions) + 1] = row
      BY <1>0, <2>3, OpenedRows DEF Opens
    <3>2. i = Len(sessions) + 1
      BY <1>0, <1>2, <2>2, <3>1
    <3>3. users[row.user].status = "active" /\ row.user \in Users
      BY <2>3 DEF Opens, Active, Session
    <3>4. \A u \in Users : users[u] \in User
      BY <1>0 DEF AccountsTypeOK
    <3>5. users \in [Users -> User]
      BY <1>0 DEF AccountsTypeOK
    <3>6. QED  BY SMTT(30), <2>3, <3>1, <3>2, <3>3, <3>4, <3>5 DEF User
  <2>4. ASSUME NEW k \in DOMAIN sessions, Rotates(k), users' = users
        PROVE  users'[sessions'[i].user].status = "active"
    <3>1. DOMAIN sessions' = 1..Len(sessions) + 1
          /\ sessions'[Len(sessions) + 1] = [sessions[k] EXCEPT !.st = "live"]
      BY <1>0, <2>4, RotatedRows
    <3>2. i = Len(sessions) + 1
      BY <1>0, <1>2, <2>2, <3>1
    <3>3. sessions[k] \in Session /\ sessions[k].st \in Unrevoked
      BY <1>0, <2>4, Rows DEF Rotates, Usable, Unrevoked
    <3>4. Active(sessions[k].user)
      BY <3>3 DEF OnlyActiveHoldSessions
    <3>5. QED  BY <2>4, <3>1, <3>2, <3>3, <3>4 DEF Active, Session
  <2>5. QED  BY <1>0, <2>1, <2>3, <2>4 DEF RowsStep
<1>3. QED  BY <1>1, <1>2

-----------------------------------------------------------------------------
(* There is always an administrator.                                       *)
LEMMA AnotherAdmin ==
  ASSUME NEW v \in ActiveAdmins, ~LastAdmin(v)
  PROVE  \E a \in ActiveAdmins : a # v
<1>1. SUFFICES ASSUME \A a \in ActiveAdmins : a = v PROVE FALSE
  OBVIOUS
<1>2. ActiveAdmins = {v}
  BY <1>1
<1>3. Cardinality(ActiveAdmins) = 1
  BY <1>2, FS_Singleton
<1>4. QED  BY <1>3 DEF LastAdmin

LEMMA EditsKeepRole ==
  ASSUME TablesOK, NEW w \in Users, NEW x, NEW y,
         \/ users' = users
         \/ users' = [users EXCEPT ![w].codes = x]
         \/ users' = [users EXCEPT ![w].pw = x]
         \/ users' = [users EXCEPT ![w].totp = x, ![w].codes = y]
  PROVE  \A u \in Users : users'[u].role = users[u].role
<1>1. users[w] \in User /\ users \in [Users -> User]
  BY DEF TablesOK
<1>2. /\ [users[w] EXCEPT !.codes = x].role = users[w].role
      /\ [users[w] EXCEPT !.pw = x].role = users[w].role
      /\ [[users[w] EXCEPT !.totp = x] EXCEPT !.codes = y].role = users[w].role
  BY <1>1 DEF User
<1>3. CASE users' = [users EXCEPT ![w].totp = x, ![w].codes = y]
  <2>1. users' = [users EXCEPT ![w] = [[users[w] EXCEPT !.totp = x] EXCEPT !.codes = y]]
    BY <1>1, <1>3
  <2>2. QED  BY <1>1, <1>2, <2>1
<1>4. CASE users' # [users EXCEPT ![w].totp = x, ![w].codes = y]
  BY <1>1, <1>2, <1>4
<1>5. QED  BY <1>3, <1>4

\* Handlers other than PatchRole, Suspend and DeleteUser keep every administrator.
AdminsKept == \A a \in ActiveAdmins : a \in ActiveAdmins'

LEMMA EditsKeepAdmins ==
  ASSUME TablesOK, NEW w \in Users, NEW x, NEW y,
         \/ users' = users
         \/ users' = [users EXCEPT ![w].codes = x]
         \/ users' = [users EXCEPT ![w].pw = x]
         \/ users' = [users EXCEPT ![w].totp = x, ![w].codes = y]
  PROVE  AdminsKept
<1>1. \A u \in Users : users'[u].role = users[u].role
  BY EditsKeepRole
<1>2. StatusKept
  BY EditsKeepStatus
<1>3. QED  BY <1>1, <1>2 DEF AdminsKept, ActiveAdmins, Active, StatusKept

LEMMA PublicKeepsAdmins == Shape /\ PublicStep => AdminsKept
<1> SUFFICES ASSUME Shape, PublicStep PROVE AdminsKept
  OBVIOUS
<1>0. TablesOK /\ MemoryOK
  BY DEF Shape, AccountsTypeOK, TablesOK, MemoryOK
<1>1. ASSUME NEW v \in Users, LoginDirect(v) \/ LoginAsks(v) \/ ForgotPassword(v) \/ ResetPassword(v)
      PROVE  AdminsKept
  <2>1. users' = users \/ users' = [users EXCEPT ![v].pw = users[v].pw + 1]
    BY <1>1 DEF LoginDirect, LoginAsks, ForgotPassword, ResetPassword
  <2>2. QED  BY <1>0, <2>1, EditsKeepAdmins
<1>2. ASSUME NEW c \in challenges, VerifyRefused(c) \/ VerifyTotp(c) \/ VerifyBackup(c) PROVE AdminsKept
  <2>1. users' = users \/ users' = [users EXCEPT ![c.user].codes = users[c.user].codes - 1]
    BY <1>2 DEF VerifyRefused, VerifyTotp, VerifyBackup
  <2>2. c.user \in Users
    BY <1>0 DEF MemoryOK, Challenge
  <2>3. QED  BY <1>0, <2>1, <2>2, EditsKeepAdmins
<1>3. ASSUME NEW i \in DOMAIN sessions, Admit(i) \/ RefreshRotate(i) \/ RefreshReused(i) \/ Logout(i)
      PROVE  AdminsKept
  BY <1>3 DEF Admit, RefreshRotate, RefreshReused, Logout, AdminsKept, ActiveAdmins, Active
<1>4. ASSUME NEW k \in DOMAIN invites, AcceptInvite(k) PROVE AdminsKept
  <2>1. invites[k] \in Invite
    BY <1>0 DEF TablesOK
  <2>2. invites[k].email \in Users
    BY <2>1 DEF Invite
  <2>3. PICK cut \in Cuts(2) :
          users' = IF cut = 2 /\ users[invites[k].email].status = "none"
                   THEN [users EXCEPT ![invites[k].email] = NewUser(invites[k].role)] ELSE users
    BY <1>4 DEF AcceptInvite
  <2>4. QED  BY <1>0, <2>2, <2>3 DEF AdminsKept, ActiveAdmins, Active, TablesOK
<1>5. QED  BY <1>1, <1>2, <1>3, <1>4 DEF PublicStep

LEMMA SelfKeepsAdmins ==
  ASSUME Shape, NEW r \in admitted, SelfStep(r)
  PROVE  AdminsKept
<1>0. TablesOK /\ AccountsTypeOK
  BY DEF Shape, AccountsTypeOK, TablesOK
<1>1. Owner(r) \in Users
  <2>1. r.s \in DOMAIN sessions
    BY DEF Shape, NamesExist
  <2>2. sessions[r.s] \in Session
    BY <1>0, <2>1, Rows
  <2>3. QED  BY <2>2 DEF Owner, Session
<1>2. CASE ChangePassword(r)
  <2>1. users' = [users EXCEPT ![Owner(r)].pw = users[Owner(r)].pw + 1]
    BY <1>2 DEF ChangePassword
  <2>2. QED  BY <1>0, <1>1, <2>1, EditsKeepAdmins
<1>3. CASE TwoFactorSetup(r) \/ TwoFactorEnable(r) \/ BackupRegenerate(r) \/ TwoFactorDisable(r)
  <2>1. PICK x, y : users' = [users EXCEPT ![Owner(r)].totp = x, ![Owner(r)].codes = y]
    BY <1>3 DEF TwoFactorSetup, TwoFactorEnable, BackupRegenerate, TwoFactorDisable, SetTotp
  <2>2. QED  BY <1>0, <1>1, <2>1, EditsKeepAdmins
<1>4. CASE Refuse(r) \/ RevokeOthers(r) \/ \E i \in DOMAIN sessions : RevokeSession(r, i)
  BY <1>4 DEF Refuse, RevokeOthers, RevokeSession, AdminsKept, ActiveAdmins, Active
<1>5. QED  BY <1>2, <1>3, <1>4 DEF SelfStep

LEMMA ManageLeavesAdmin ==
  ASSUME Shape, AdminRemains, NEW r \in admitted, ManageStep(r)
  PROVE  AdminRemains'
<1>0. users \in [Users -> User]
  BY DEF Shape, AccountsTypeOK
<1>1. PICK b \in Users : users[b].status = "active" /\ users[b].role = "admin"
  BY DEF AdminRemains, ActiveAdmins, Active
<1>2. ASSUME NEW v \in Users, v \in ActiveAdmins => ~LastAdmin(v),
             \A u \in Users \ {v} : users'[u] = users[u]
      PROVE  AdminRemains'
  <2>1. CASE v \in ActiveAdmins
    <3>1. PICK a \in ActiveAdmins : a # v
      BY <1>2, <2>1, AnotherAdmin
    <3>2. QED  BY <1>2, <3>1 DEF AdminRemains, ActiveAdmins, Active
  <2>2. CASE v \notin ActiveAdmins
    BY <1>1, <1>2, <2>2 DEF AdminRemains, ActiveAdmins, Active
  <2>3. QED  BY <2>1, <2>2
<1>3. ASSUME UNCHANGED users PROVE AdminRemains'
  BY <1>3 DEF AdminRemains, ActiveAdmins, Active
<1>4. ASSUME NEW v \in Users, NEW role \in Roles, PatchRole(r, v, role) PROVE AdminRemains'
  <2>1. CASE role = "admin"
    <3>1. [users[v] EXCEPT !.role = role].status = users[v].status
          /\ [users[v] EXCEPT !.role = role].role = role
      BY <1>0 DEF User
    <3>2. users'[b].status = "active" /\ users'[b].role = "admin"
      BY <1>0, <1>1, <1>4, <2>1, <3>1 DEF PatchRole
    <3>3. QED  BY <3>2 DEF AdminRemains, ActiveAdmins, Active
  <2>2. CASE role # "admin"
    <3>1. \A u \in Users \ {v} : users'[u] = users[u]
      BY <1>0, <1>4 DEF PatchRole
    <3>2. ~LastAdmin(v)
      BY <1>4, <2>2 DEF PatchRole
    <3>3. QED  BY <1>2, <3>1, <3>2
  <2>3. QED  BY <2>1, <2>2
<1>5. ASSUME NEW v \in Users, Suspend(r, v) PROVE AdminRemains'
  <2>1. \A u \in Users \ {v} : users'[u] = users[u]
    BY <1>0, <1>5 DEF Suspend
  <2>2. ~LastAdmin(v)
    BY <1>5 DEF Suspend
  <2>3. QED  BY <1>2, <2>1, <2>2
<1>6. ASSUME NEW v \in Users, DeleteUser(r, v) PROVE AdminRemains'
  <2>1. \A u \in Users \ {v} : users'[u] = users[u]
    BY <1>0, <1>6 DEF DeleteUser
  <2>2. ~LastAdmin(v)
    BY <1>6 DEF DeleteUser
  <2>3. QED  BY <1>2, <2>1, <2>2
<1>7. ASSUME NEW v \in Users, Reactivate(r, v) PROVE AdminRemains'
  <2>1. [users[v] EXCEPT !.status = "active"].status = "active"
        /\ [users[v] EXCEPT !.status = "active"].role = users[v].role
    BY <1>0 DEF User
  <2>2. users'[b].status = "active" /\ users'[b].role = "admin"
    BY <1>0, <1>1, <1>7, <2>1 DEF Reactivate
  <2>3. QED  BY <2>2 DEF AdminRemains, ActiveAdmins, Active
<1>8. ASSUME NEW v \in Users, NEW role \in Roles, InviteUser(r, v, role) PROVE AdminRemains'
  BY <1>3, <1>8 DEF InviteUser
<1>9. ASSUME NEW k \in DOMAIN invites, ResendInvite(r, k) \/ RevokeInvite(r, k) PROVE AdminRemains'
  BY <1>3, <1>9 DEF ResendInvite, RevokeInvite
<1>10. QED  BY <1>4, <1>5, <1>6, <1>7, <1>8, <1>9 DEF ManageStep

LEMMA AdminStep == Shape /\ AdminRemains /\ [AccountsNext]_accVars => AdminRemains'
<1> SUFFICES ASSUME Shape, AdminRemains, [AccountsNext]_accVars PROVE AdminRemains'
  OBVIOUS
<1>1. AdminsKept => AdminRemains'
  BY DEF AdminsKept, AdminRemains
<1>2. CASE TimeStep \/ UNCHANGED accVars
  BY <1>2, TimeStepOK DEF accVars, AdminRemains, ActiveAdmins, Active
<1>3. QED  BY <1>1, <1>2, PublicKeepsAdmins, SelfKeepsAdmins, ManageLeavesAdmin DEF AccountsNext

-----------------------------------------------------------------------------
(* Sessions and passwords.                                                 *)

\* What a step may do to the rows that are still refreshed ...
CredentialsKept ==
  /\ DOMAIN sessions' = DOMAIN sessions
  /\ \A i \in DOMAIN sessions : sessions'[i].st \in Usable =>
       /\ sessions[i].st \in Usable
       /\ sessions'[i].user = sessions[i].user /\ sessions'[i].pw = sessions[i].pw
       /\ sessions'[i].late = sessions[i].late

\* ... and to the password of their user.
PasswordKept(u) == \/ users'[u].pw = users[u].pw /\ (u \in torn => u \in torn')
                   \/ u \in torn'

LEMMA KeptFollows ==
  ASSUME SessionsFollowPassword, CredentialsKept,
         \A i \in DOMAIN sessions : sessions'[i].st \in Usable => PasswordKept(sessions[i].user)
  PROVE  SessionsFollowPassword'
  BY DEF SessionsFollowPassword, CredentialsKept, PasswordKept

LEMMA RevokedCredentials ==
  ASSUME AccountsTypeOK, NEW S, sessions' = Revoked(S)
  PROVE  CredentialsKept /\ \A i \in S \cap DOMAIN sessions : sessions'[i].st \notin Usable
  BY RevokedRows DEF CredentialsKept, Usable

LEMMA EditsKeepPassword ==
  ASSUME TablesOK, NEW w \in Users, NEW x, NEW y,
         \/ users' = users
         \/ users' = [users EXCEPT ![w].codes = x]
         \/ users' = [users EXCEPT ![w].role = x]
         \/ users' = [users EXCEPT ![w].status = x]
         \/ users' = [users EXCEPT ![w].totp = x, ![w].codes = y]
  PROVE  \A u \in Users : users'[u].pw = users[u].pw
<1>1. users[w] \in User /\ users \in [Users -> User]
  BY DEF TablesOK
<1>2. /\ [users[w] EXCEPT !.codes = x].pw = users[w].pw
      /\ [users[w] EXCEPT !.role = x].pw = users[w].pw
      /\ [users[w] EXCEPT !.status = x].pw = users[w].pw
      /\ [[users[w] EXCEPT !.totp = x] EXCEPT !.codes = y].pw = users[w].pw
  BY <1>1 DEF User
<1>3. CASE users' = [users EXCEPT ![w].totp = x, ![w].codes = y]
  <2>1. users' = [users EXCEPT ![w] = [[users[w] EXCEPT !.totp = x] EXCEPT !.codes = y]]
    BY <1>1, <1>3
  <2>2. QED  BY <1>1, <1>2, <2>1
<1>4. CASE users' # [users EXCEPT ![w].totp = x, ![w].codes = y]
  BY <1>1, <1>2, <1>4
<1>5. QED  BY <1>3, <1>4

\* A login: the new row has the present password, or is marked.
LEMMA OpenFollows ==
  ASSUME AccountsTypeOK, SessionsFollowPassword,
         NEW u \in Users, NEW pw \in 0..MaxPw, NEW late \in BOOLEAN, pw = users[u].pw \/ late,
         sessions' = Append(sessions, NewRow(u, Len(sessions) + 1, pw, late)),
         \A v \in Users : users'[v].pw = users[v].pw, torn' = torn
  PROVE  SessionsFollowPassword'
<1> DEFINE row == NewRow(u, Len(sessions) + 1, pw, late)
<1>1. Len(sessions) + 1 \in Nat \ {0}
  BY DEF AccountsTypeOK
<1>2. row \in Session /\ row.user = u /\ row.pw = pw /\ row.late = late
  BY <1>1 DEF NewRow, Session, Unrevoked
<1>3. sessions' = Append(sessions, row)
  OBVIOUS
<1> HIDE DEF row
<1>4. /\ DOMAIN sessions' = 1..Len(sessions) + 1 /\ DOMAIN sessions = 1..Len(sessions)
      /\ Len(sessions) \in Nat
      /\ \A i \in 1..Len(sessions) : sessions'[i] = sessions[i]
      /\ sessions'[Len(sessions) + 1] = row
  BY <1>2, <1>3, OpenedRows
<1>5. SUFFICES ASSUME NEW i \in DOMAIN sessions', sessions'[i].st \in Usable
               PROVE  \/ sessions'[i].pw = users'[sessions'[i].user].pw
                      \/ sessions'[i].late \/ sessions'[i].user \in torn'
  BY DEF SessionsFollowPassword
<1>6. CASE i \in 1..Len(sessions)
  <2>1. sessions'[i] = sessions[i] /\ sessions[i].user \in Users
    BY <1>4, <1>6, Rows DEF Session
  <2>2. QED  BY <1>4, <1>5, <1>6, <2>1 DEF SessionsFollowPassword
<1>7. CASE i \notin 1..Len(sessions)
  <2>1. i = Len(sessions) + 1
    BY <1>4, <1>5, <1>7
  <2>2. QED  BY <1>2, <1>4, <2>1
<1>8. QED  BY <1>6, <1>7

\* A rotation: the successor has the credentials of its predecessor.
LEMMA RotationFollows ==
  ASSUME AccountsTypeOK, SessionsFollowPassword, NEW k \in DOMAIN sessions, Rotates(k),
         UNCHANGED <<users, torn>>
  PROVE  SessionsFollowPassword'
<1>1. /\ DOMAIN sessions' = 1..Len(sessions) + 1 /\ DOMAIN sessions = 1..Len(sessions)
      /\ Len(sessions) \in Nat
      /\ \A j \in 1..Len(sessions) : /\ j = k => sessions'[j].st = "revoked"
                                     /\ j # k => sessions'[j] = sessions[j]
      /\ sessions'[Len(sessions) + 1] = [sessions[k] EXCEPT !.st = "live"]
  BY RotatedRows
<1>2. SUFFICES ASSUME NEW i \in DOMAIN sessions', sessions'[i].st \in Usable
               PROVE  \/ sessions'[i].pw = users'[sessions'[i].user].pw
                      \/ sessions'[i].late \/ sessions'[i].user \in torn'
  BY DEF SessionsFollowPassword
<1>3. CASE i \in 1..Len(sessions)
  BY <1>1, <1>2, <1>3 DEF SessionsFollowPassword, Usable
<1>4. CASE i \notin 1..Len(sessions)
  <2>1. i = Len(sessions) + 1
    BY <1>1, <1>2, <1>4
  <2>2. sessions[k] \in Session /\ sessions[k].st \in Usable
    BY Rows DEF Rotates
  <2>3. /\ sessions'[i].pw = sessions[k].pw /\ sessions'[i].user = sessions[k].user
        /\ sessions'[i].late = sessions[k].late
    BY <1>1, <2>1, <2>2 DEF Session
  <2>4. QED  BY <2>2, <2>3 DEF SessionsFollowPassword
<1>5. QED  BY <1>3, <1>4

\* Steps that set no password and end no exception: rows are revoked at most.
LEMMA QuietPassword ==
  ASSUME Shape, SessionsFollowPassword, (\E S : sessions' = Revoked(S)) \/ sessions' = sessions,
         \A u \in Users : users'[u].pw = users[u].pw, torn' = torn
  PROVE  SessionsFollowPassword'
<1>1. CredentialsKept
  BY RevokedCredentials DEF Shape, CredentialsKept
<1>2. \A i \in DOMAIN sessions : sessions[i].user \in Users
  BY Rows DEF Shape, Session
<1>3. \A i \in DOMAIN sessions : PasswordKept(sessions[i].user)
  BY <1>2 DEF PasswordKept
<1>4. QED  BY <1>1, <1>3, KeptFollows

\* The sessions of a user are revoked, or the user is marked.
LEMMA RevocationFollows ==
  ASSUME Shape, SessionsFollowPassword, NEW u \in Users,
         \A v \in Users \ {u} : users'[v].pw = users[v].pw /\ (v \in torn => v \in torn'),
         \/ sessions' = Revoked(Held(u)) \/ sessions' = RowsGone(u)
         \/ sessions' = sessions /\ u \in torn'
  PROVE  SessionsFollowPassword'
<1>0. AccountsTypeOK /\ \A i \in DOMAIN sessions : sessions[i].user \in Users
  BY Rows DEF Shape, Session
<1>1. \A v \in Users \ {u} : PasswordKept(v)
  BY DEF PasswordKept
<1>2. CredentialsKept /\ \A i \in DOMAIN sessions :
                            sessions[i].user = u /\ u \notin torn' => sessions'[i].st \notin Usable
  <2>1. CASE sessions' = Revoked(Held(u))
    <3>1. CredentialsKept /\ \A i \in Held(u) : sessions'[i].st \notin Usable
      BY <1>0, <2>1, RevokedCredentials DEF Held
    <3>2. \A i \in DOMAIN sessions : sessions[i].user = u /\ sessions[i].st \in Usable => i \in Held(u)
      BY DEF Held, Usable, Unrevoked
    <3>3. QED  BY <3>1, <3>2 DEF CredentialsKept
  <2>2. CASE sessions' = RowsGone(u)
    <3>1. DOMAIN sessions' = DOMAIN sessions
          /\ \A i \in DOMAIN sessions : sessions[i].user # u => sessions'[i] = sessions[i]
      BY <2>2 DEF RowsGone
    <3>2. \A i \in DOMAIN sessions : sessions[i].user = u => sessions'[i].st = "gone"
      BY <1>0, <2>2, GoneRows
    <3>3. QED  BY <3>1, <3>2 DEF CredentialsKept, Usable
  <2>3. CASE sessions' = sessions /\ u \in torn'
    BY <2>3 DEF CredentialsKept
  <2>4. QED  BY <2>1, <2>2, <2>3
<1>3. ASSUME NEW i \in DOMAIN sessions, sessions'[i].st \in Usable PROVE PasswordKept(sessions[i].user)
  BY <1>0, <1>1, <1>2, <1>3 DEF PasswordKept
<1>4. QED  BY <1>2, <1>3, KeptFollows

\* ChangePassword: the current session gets the new password, the others go with the
\* old one; or the user is marked.
LEMMA ChangeFollows ==
  ASSUME Shape, SessionsFollowPassword, NEW r \in admitted, ChangePassword(r)
  PROVE  SessionsFollowPassword'
<1> DEFINE u == Owner(r)
           Others == Held(u) \ {r.s}
<1>0. /\ AccountsTypeOK /\ \A i \in DOMAIN sessions : sessions[i] \in Session
      /\ users \in [Users -> User] /\ u \in Users
  BY Rows DEF Shape, AccountsTypeOK, NamesExist, Owner, Session
<1>1. PICK cut \in Cuts(2) :
        /\ sessions' = [i \in DOMAIN sessions |->
                          IF i = r.s /\ i \in Held(u)
                          THEN [sessions[i] EXCEPT !.pw = users[u].pw + 1, !.late = FALSE]
                          ELSE IF cut = 2 /\ IsCurrent(r) THEN Revoked(Others)[i] ELSE sessions[i]]
        /\ torn' = IF cut = 2 /\ IsCurrent(r) THEN torn \ {u} ELSE torn \union {u}
  BY DEF ChangePassword
<1>2. users' = [users EXCEPT ![u].pw = users[u].pw + 1]
  BY DEF ChangePassword
<1>3. users'[u].pw = users[u].pw + 1 /\ \A v \in Users \ {u} : users'[v] = users[v]
  BY <1>0, <1>2 DEF User
<1> HIDE DEF u, Others
<1>4. SUFFICES ASSUME NEW i \in DOMAIN sessions, sessions'[i].st \in Usable
               PROVE  \/ sessions'[i].pw = users'[sessions'[i].user].pw
                      \/ sessions'[i].late \/ sessions'[i].user \in torn'
  BY <1>1 DEF SessionsFollowPassword
<1>5. CASE i = r.s /\ i \in Held(u)
  <2>1. sessions'[i] = [sessions[i] EXCEPT !.pw = users[u].pw + 1, !.late = FALSE]
    BY <1>1, <1>5
  <2>2. sessions'[i].pw = users[u].pw + 1 /\ sessions'[i].user = u
    BY <1>0, <1>5, <2>1 DEF Session, Held
  <2>3. QED  BY <1>3, <2>2
<1>6. CASE ~(i = r.s /\ i \in Held(u)) /\ cut = 2 /\ IsCurrent(r)
  <2>1. sessions'[i] = Revoked(Others)[i] /\ torn' = torn \ {u}
    BY <1>1, <1>6
  <2>2. i \notin Others /\ sessions'[i] = sessions[i]
    BY <1>0, <1>4, <2>1, RevokedRows DEF Usable
  <2>3. i \notin Held(u)
    BY <1>6, <2>2 DEF Others
  <2>4. sessions[i].user \in Users \ {u}
    BY <1>0, <1>4, <2>2, <2>3 DEF Held, Usable, Unrevoked, Session
  <2>5. QED  BY <1>3, <1>4, <2>1, <2>2, <2>4 DEF SessionsFollowPassword
<1>7. CASE ~(i = r.s /\ i \in Held(u)) /\ ~(cut = 2 /\ IsCurrent(r))
  <2>1. sessions'[i] = sessions[i] /\ torn' = torn \union {u} /\ sessions[i].user \in Users
    BY <1>0, <1>1, <1>7 DEF Session
  <2>2. QED  BY <1>3, <1>4, <2>1 DEF SessionsFollowPassword
<1>8. QED  BY <1>5, <1>6, <1>7

LEMMA InviteRows == ASSUME AccountsTypeOK, NEW k \in DOMAIN invites
                    PROVE  invites[k] \in Invite /\ k \in 1..Len(invites)
  BY DEF AccountsTypeOK

LEMMA PublicFollows ==
  ASSUME Shape, SessionsFollowPassword, OnlyActiveHoldSessions, PublicStep
  PROVE  SessionsFollowPassword'
<1>0. /\ AccountsTypeOK /\ TablesOK /\ \A u \in Users : users[u] \in User /\ users[u].pw \in 0..MaxPw
      /\ \A c \in challenges : c.user \in Users /\ c.pw \in 0..MaxPw
      /\ \A i \in DOMAIN sessions : sessions[i].user \in Users
      /\ \A k \in DOMAIN invites : invites[k] \in Invite /\ invites[k].email \in Users
  <2>1. AccountsTypeOK /\ TablesOK
    BY DEF Shape, AccountsTypeOK, TablesOK
  <2>2. \A u \in Users : users[u] \in User /\ users[u].pw \in 0..MaxPw
    BY <2>1 DEF AccountsTypeOK, User
  <2>3. \A c \in challenges : c.user \in Users /\ c.pw \in 0..MaxPw
    BY <2>1 DEF AccountsTypeOK, Challenge
  <2>4. \A i \in DOMAIN sessions : sessions[i].user \in Users
    BY <2>1, Rows DEF Session
  <2>5. \A k \in DOMAIN invites : invites[k] \in Invite /\ invites[k].email \in Users
    BY <2>1, InviteRows DEF Invite
  <2>6. QED  BY <2>1, <2>2, <2>3, <2>4, <2>5
<1>1. ASSUME NEW u \in Users, LoginDirect(u) PROVE SessionsFollowPassword'
  <2>1. users[u].pw \in 0..MaxPw /\ FALSE \in BOOLEAN
    BY <1>0
  <2>2. QED  BY <1>0, <1>1, <2>1, OpenFollows DEF LoginDirect
<1>2. ASSUME NEW u \in Users, LoginAsks(u) \/ ForgotPassword(u) PROVE SessionsFollowPassword'
  BY <1>2, QuietPassword DEF LoginAsks, ForgotPassword
<1>3. ASSUME NEW u \in Users, ResetPassword(u) PROVE SessionsFollowPassword'
  <2>1. PICK cut \in Cuts(3) :
          /\ users' = IF cut >= 2 THEN [users EXCEPT ![u].pw = @ + 1] ELSE users
          /\ sessions' = IF cut = 3 THEN Revoked(Held(u)) ELSE sessions
          /\ torn' = CASE cut = 1 -> torn [] cut = 2 -> torn \union {u} [] cut = 3 -> torn \ {u}
    BY <1>3 DEF ResetPassword
  <2>2. cut \in 1..3
    BY CutsMeaning DEF Shape, AccountsTypeOK
  <2>3. \A v \in Users \ {u} : users'[v].pw = users[v].pw
    BY <1>0, <2>1 DEF TablesOK
  <2>4. CASE cut = 1
    BY <2>1, <2>4, QuietPassword
  <2>5. CASE cut = 2
    BY <2>1, <2>3, <2>5, RevocationFollows
  <2>6. CASE cut = 3
    BY <2>1, <2>3, <2>6, RevocationFollows
  <2>7. QED  BY <2>2, <2>4, <2>5, <2>6
<1>4. ASSUME NEW c \in challenges, VerifyRefused(c) PROVE SessionsFollowPassword'
  BY <1>4, QuietPassword DEF VerifyRefused
<1>5. ASSUME NEW c \in challenges, sessions' = Opened(c), torn' = torn,
             \A v \in Users : users'[v].pw = users[v].pw
      PROVE  SessionsFollowPassword'
  <2>1. c.user \in Users /\ c.pw \in 0..MaxPw /\ (c.pw # users[c.user].pw) \in BOOLEAN
    BY <1>0
  <2>2. c.pw = users[c.user].pw \/ (c.pw # users[c.user].pw)
    OBVIOUS
  <2>3. QED  BY <1>0, <1>5, <2>1, <2>2, OpenFollows DEF Opened
<1>6. ASSUME NEW c \in challenges, VerifyTotp(c) PROVE SessionsFollowPassword'
  BY <1>5, <1>6 DEF VerifyTotp
<1>7. ASSUME NEW c \in challenges, VerifyBackup(c) PROVE SessionsFollowPassword'
  <2>1. users' = [users EXCEPT ![c.user].codes = users[c.user].codes - 1] /\ torn' = torn
        /\ (sessions' = Opened(c) \/ sessions' = sessions)
    BY <1>7 DEF VerifyBackup
  <2>2. \A v \in Users : users'[v].pw = users[v].pw
    BY <1>0, <2>1, EditsKeepPassword
  <2>3. QED  BY <1>5, <2>1, <2>2, QuietPassword
<1>8. ASSUME NEW i \in DOMAIN sessions, RefreshRotate(i) PROVE SessionsFollowPassword'
  <2>1. UNCHANGED <<users, torn>> /\ (Rotates(i) \/ sessions' = Revoked({i}))
    BY <1>8 DEF RefreshRotate, Rotates
  <2>2. QED  BY <1>0, <2>1, RotationFollows, QuietPassword
<1>9. ASSUME NEW i \in DOMAIN sessions, Admit(i) \/ RefreshReused(i) \/ Logout(i)
      PROVE  SessionsFollowPassword'
  BY <1>9, QuietPassword DEF Admit, RefreshReused, Logout
\* A new account: whoever has none holds no session.
<1>10. ASSUME NEW k \in DOMAIN invites, AcceptInvite(k) PROVE SessionsFollowPassword'
  <2> DEFINE e == invites[k].email
  <2>1. sessions' = sessions /\ torn' = torn /\ e \in Users
        /\ (users' = users \/ (users[e].status = "none" /\ users' = [users EXCEPT ![e] = NewUser(invites[k].role)]))
    BY <1>0, <1>10 DEF AcceptInvite
  <2> HIDE DEF e
  <2>2. CASE users' = users
    BY <2>1, <2>2, QuietPassword
  <2>3. CASE users[e].status = "none" /\ users' = [users EXCEPT ![e] = NewUser(invites[k].role)]
    <3>1. \A i \in DOMAIN sessions : sessions[i].st \in Usable => sessions[i].user # e
      BY <2>3 DEF OnlyActiveHoldSessions, Active, Usable, Unrevoked
    <3>2. \A v \in Users \ {e} : PasswordKept(v)
      BY <1>0, <2>1, <2>3 DEF PasswordKept, TablesOK
    <3>3. CredentialsKept
      BY <2>1 DEF CredentialsKept
    <3>4. QED  BY <1>0, <2>1, <3>1, <3>2, <3>3, KeptFollows
  <2>4. QED  BY <2>1, <2>2, <2>3
<1>11. QED
  BY <1>1, <1>2, <1>3, <1>4, <1>6, <1>7, <1>8, <1>9, <1>10 DEF PublicStep

LEMMA SelfFollows ==
  ASSUME Shape, SessionsFollowPassword, NEW r \in admitted, SelfStep(r)
  PROVE  SessionsFollowPassword'
<1>0. TablesOK /\ Owner(r) \in Users
  BY Rows DEF Shape, AccountsTypeOK, TablesOK, NamesExist, Owner, Session
<1>1. CASE Refuse(r) \/ RevokeOthers(r) \/ \E i \in DOMAIN sessions : RevokeSession(r, i)
  BY <1>1, QuietPassword DEF Refuse, RevokeOthers, RevokeSession
<1>2. CASE TwoFactorSetup(r) \/ TwoFactorEnable(r) \/ BackupRegenerate(r) \/ TwoFactorDisable(r)
  <2>1. PICK x, y : users' = [users EXCEPT ![Owner(r)].totp = x, ![Owner(r)].codes = y]
    BY <1>2 DEF TwoFactorSetup, TwoFactorEnable, BackupRegenerate, TwoFactorDisable, SetTotp
  <2>2. \A v \in Users : users'[v].pw = users[v].pw
    BY <1>0, <2>1, EditsKeepPassword
  <2>3. UNCHANGED <<sessions, torn>>
    BY <1>2 DEF TwoFactorSetup, TwoFactorEnable, BackupRegenerate, TwoFactorDisable, SetTotp
  <2>4. QED  BY <2>2, <2>3, QuietPassword
<1>3. CASE ChangePassword(r)
  BY <1>3, ChangeFollows
<1>4. QED  BY <1>1, <1>2, <1>3 DEF SelfStep

LEMMA ManageFollows ==
  ASSUME Shape, SessionsFollowPassword, NEW r \in admitted, ManageStep(r)
  PROVE  SessionsFollowPassword'
<1>0. TablesOK
  BY DEF Shape, AccountsTypeOK, TablesOK
<1>1. ASSUME NEW u \in Users, NEW role \in Roles, InviteUser(r, u, role) \/ PatchRole(r, u, role)
      PROVE  SessionsFollowPassword'
  <2>1. users' = users \/ users' = [users EXCEPT ![u].role = role]
    BY <1>1 DEF InviteUser, PatchRole
  <2>2. \A v \in Users : users'[v].pw = users[v].pw
    BY <1>0, <2>1, EditsKeepPassword
  <2>3. UNCHANGED <<sessions, torn>>
    BY <1>1 DEF InviteUser, PatchRole
  <2>4. QED  BY <2>2, <2>3, QuietPassword
<1>2. ASSUME NEW k \in DOMAIN invites, ResendInvite(r, k) \/ RevokeInvite(r, k)
      PROVE  SessionsFollowPassword'
  BY <1>2, QuietPassword DEF ResendInvite, RevokeInvite
<1>3. ASSUME NEW u \in Users, Reactivate(r, u) PROVE SessionsFollowPassword'
  <2>1. \A v \in Users : users'[v].pw = users[v].pw
    BY <1>0, <1>3, EditsKeepPassword DEF Reactivate
  <2>2. QED  BY <1>3, <2>1, QuietPassword DEF Reactivate
<1>4. ASSUME NEW u \in Users, Suspend(r, u) PROVE SessionsFollowPassword'
  <2>1. /\ sessions' = Revoked(Held(u)) /\ torn' = torn \ {u}
        /\ users' = users \/ users' = [users EXCEPT ![u].status = "suspended"]
    BY <1>4 DEF Suspend
  <2>2. \A v \in Users : users'[v].pw = users[v].pw
    BY <1>0, <2>1, EditsKeepPassword
  <2>3. QED  BY <2>1, <2>2, RevocationFollows
<1>5. ASSUME NEW u \in Users, DeleteUser(r, u) PROVE SessionsFollowPassword'
  <2>1. /\ sessions' = RowsGone(u) /\ torn' = torn \ {u}
        /\ \A v \in Users \ {u} : users'[v].pw = users[v].pw
    BY <1>0, <1>5 DEF DeleteUser, TablesOK
  <2>2. QED  BY <2>1, RevocationFollows
<1>6. QED  BY <1>1, <1>2, <1>3, <1>4, <1>5 DEF ManageStep

\* Time: a session may end, and is not refreshed then.
LEMMA TimeFollows ==
  ASSUME Shape, SessionsFollowPassword, TimeStep
  PROVE  SessionsFollowPassword'
<1>0. UNCHANGED <<users, torn>>
  BY TimeStepOK
<1>1. ASSUME NEW i \in DOMAIN sessions, SessionIdles(i) \/ SessionEnds(i) PROVE CredentialsKept
  <2>1. PICK st : /\ sessions' = [sessions EXCEPT ![i].st = st]
                  /\ st \in Usable => sessions[i].st \in Usable
    BY <1>1 DEF SessionIdles, SessionEnds, Usable
  <2>2. sessions[i] \in Session
    BY Rows DEF Shape
  <2>3. DOMAIN sessions' = DOMAIN sessions /\ sessions'[i] = [sessions[i] EXCEPT !.st = st]
        /\ \A j \in DOMAIN sessions \ {i} : sessions'[j] = sessions[j]
    BY <2>1 DEF Shape, AccountsTypeOK
  <2>4. QED  BY <2>1, <2>2, <2>3 DEF CredentialsKept, Session
<1>2. ASSUME UNCHANGED sessions PROVE CredentialsKept
  BY <1>2 DEF CredentialsKept
<1>3. ASSUME \E i \in DOMAIN sessions : SessionIdles(i) \/ SessionEnds(i)
      PROVE  CredentialsKept
  BY <1>1, <1>3
<1>4. ASSUME \/ \E k \in DOMAIN invites : InviteLapses(k)
             \/ \E u \in Users : ResetLapses(u)
             \/ \E c \in challenges : ChallengeLapses(c)
             \/ Restart
      PROVE  CredentialsKept
  <2>1. UNCHANGED sessions
    BY <1>4 DEF InviteLapses, ResetLapses, ChallengeLapses, Restart
  <2>2. QED  BY <1>2, <2>1
<1>5. CredentialsKept
  <2>1. \/ \E i \in DOMAIN sessions : SessionIdles(i) \/ SessionEnds(i)
        \/ \E k \in DOMAIN invites : InviteLapses(k)
        \/ \E u \in Users : ResetLapses(u)
        \/ \E c \in challenges : ChallengeLapses(c)
        \/ Restart
    BY DEF TimeStep
  <2>2. QED  BY <1>3, <1>4, <2>1
<1>6. \A i \in DOMAIN sessions : PasswordKept(sessions[i].user)
  BY <1>0 DEF PasswordKept
<1>7. QED  BY <1>5, <1>6, KeptFollows

LEMMA PasswordStep ==
  Shape /\ OnlyActiveHoldSessions /\ SessionsFollowPassword /\ [AccountsNext]_accVars
    => SessionsFollowPassword'
<1>1. CASE UNCHANGED accVars
  BY <1>1 DEF accVars, SessionsFollowPassword
<1>2. QED
  BY <1>1, PublicFollows, SelfFollows, ManageFollows, TimeFollows DEF AccountsNext

-----------------------------------------------------------------------------
(* Invites and the accounts they make.                                     *)

LEMMA InvitesKept ==
  ASSUME InviteMakesOne, UNCHANGED invites
  PROVE  InviteMakesOne'
  BY DEF InviteMakesOne

\* A new invite has made none.
LEMMA InviteAdded ==
  ASSUME TablesOK, InviteMakesOne, NEW inv \in Invite, inv.made = 0, invites' = Append(invites, inv)
  PROVE  InviteMakesOne'
<1>1. /\ DOMAIN invites' = 1..Len(invites) + 1 /\ DOMAIN invites = 1..Len(invites)
      /\ Len(invites) \in Nat
      /\ \A k \in 1..Len(invites) : invites'[k] = invites[k]
      /\ invites'[Len(invites) + 1] = inv
  BY AppendProperties DEF TablesOK
<1>2. \A k \in DOMAIN invites' : k \in DOMAIN invites \/ k = Len(invites) + 1
  BY <1>1
<1>3. QED  BY <1>1, <1>2 DEF InviteMakesOne

\* One invite changes.
LEMMA InviteEdited ==
  ASSUME TablesOK, InviteMakesOne, NEW k \in DOMAIN invites, NEW inv,
         invites' = [invites EXCEPT ![k] = inv],
         inv.made <= (IF inv.st = "accepted" THEN 1 ELSE 0)
  PROVE  InviteMakesOne'
  BY DEF TablesOK, InviteMakesOne

\* An invite is accepted while it is pending, when it has made none.
LEMMA AcceptMakesOne ==
  ASSUME TablesOK, InviteMakesOne, NEW k \in DOMAIN invites, AcceptInvite(k)
  PROVE  InviteMakesOne'
<1>1. invites[k] \in Invite /\ invites \in Seq(Invite)
  BY DEF TablesOK
<1>2. PICK n \in {invites[k].made, invites[k].made + 1} :
        invites' = [invites EXCEPT ![k].st = "accepted", ![k].made = n]
  BY DEF AcceptInvite
<1>3. invites[k].made \in Nat /\ invites[k].made <= 0
  BY <1>1 DEF InviteMakesOne, AcceptInvite, Invite
<1> DEFINE inv == [[invites[k] EXCEPT !.st = "accepted"] EXCEPT !.made = n]
<1>4. invites' = [invites EXCEPT ![k] = inv]
  BY <1>1, <1>2
<1>5. inv.st = "accepted" /\ inv.made = n
  BY <1>1 DEF Invite
<1> HIDE DEF inv
<1>6. inv.made <= (IF inv.st = "accepted" THEN 1 ELSE 0)
  BY <1>2, <1>3, <1>5
<1>7. QED  BY <1>4, <1>6, InviteEdited

\* Administrators invite, resend and revoke.
LEMMA ManageMakesOne ==
  ASSUME TablesOK, InviteMakesOne, NEW r \in admitted, ManageStep(r)
  PROVE  InviteMakesOne'
<1>1. ASSUME NEW e \in Users, NEW role \in Roles, InviteUser(r, e, role) PROVE InviteMakesOne'
  <2> DEFINE inv == [email |-> e, role |-> role, st |-> "pending", lapsed |-> FALSE, made |-> 0]
  <2>1. inv \in Invite /\ inv.made = 0 /\ invites' = Append(invites, inv)
    BY <1>1 DEF InviteUser, Invite
  <2> HIDE DEF inv
  <2>2. QED  BY <2>1, InviteAdded
<1>2. ASSUME NEW k \in DOMAIN invites, ResendInvite(r, k) PROVE InviteMakesOne'
  <2>1. invites[k] \in Invite /\ invites' = [invites EXCEPT ![k] = [invites[k] EXCEPT !.lapsed = FALSE]]
    BY <1>2 DEF ResendInvite, TablesOK
  <2>2. /\ [invites[k] EXCEPT !.lapsed = FALSE].made = invites[k].made
        /\ [invites[k] EXCEPT !.lapsed = FALSE].st = invites[k].st
    BY <2>1 DEF Invite
  <2>3. QED  BY <2>1, <2>2, InviteEdited DEF InviteMakesOne
<1>3. ASSUME NEW k \in DOMAIN invites, RevokeInvite(r, k) PROVE InviteMakesOne'
  <2>1. /\ invites[k] \in Invite /\ invites[k].st # "accepted"
        /\ invites' = [invites EXCEPT ![k] = [invites[k] EXCEPT !.st = "revoked"]]
    BY <1>3 DEF RevokeInvite, TablesOK
  <2>2. /\ [invites[k] EXCEPT !.st = "revoked"].made = invites[k].made
        /\ [invites[k] EXCEPT !.st = "revoked"].st = "revoked"
    BY <2>1 DEF Invite
  <2>3. QED  BY <2>1, <2>2, InviteEdited DEF InviteMakesOne
<1>4. ASSUME NEW u \in Users, (\E role \in Roles : PatchRole(r, u, role)) \/ Suspend(r, u)
                               \/ Reactivate(r, u) \/ DeleteUser(r, u)
      PROVE  InviteMakesOne'
  BY <1>4, InvitesKept DEF PatchRole, Suspend, Reactivate, DeleteUser
<1>5. QED  BY <1>1, <1>2, <1>3, <1>4 DEF ManageStep

LEMMA InviteStep == Shape /\ InviteMakesOne /\ [AccountsNext]_accVars => InviteMakesOne'
<1> SUFFICES ASSUME Shape, InviteMakesOne, [AccountsNext]_accVars PROVE InviteMakesOne'
  OBVIOUS
<1>0. TablesOK
  BY DEF Shape, AccountsTypeOK, TablesOK
<1>1. CASE PublicStep
  <2>1. ASSUME NEW k \in DOMAIN invites, AcceptInvite(k) PROVE InviteMakesOne'
    BY <1>0, <2>1, AcceptMakesOne
  <2>2. ASSUME NEW u \in Users, LoginDirect(u) \/ LoginAsks(u) \/ ForgotPassword(u) \/ ResetPassword(u)
        PROVE  InviteMakesOne'
    BY <2>2, InvitesKept DEF LoginDirect, LoginAsks, ForgotPassword, ResetPassword
  <2>3. ASSUME NEW c \in challenges, VerifyRefused(c) \/ VerifyTotp(c) \/ VerifyBackup(c)
        PROVE  InviteMakesOne'
    BY <2>3, InvitesKept DEF VerifyRefused, VerifyTotp, VerifyBackup
  <2>4. ASSUME NEW i \in DOMAIN sessions, Admit(i) \/ RefreshRotate(i) \/ RefreshReused(i) \/ Logout(i)
        PROVE  InviteMakesOne'
    BY <2>4, InvitesKept DEF Admit, RefreshRotate, RefreshReused, Logout
  <2>5. QED  BY <1>1, <2>1, <2>2, <2>3, <2>4 DEF PublicStep
<1>2. CASE TimeStep
  <2>1. ASSUME NEW k \in DOMAIN invites, InviteLapses(k) PROVE InviteMakesOne'
    <3>1. invites[k] \in Invite /\ invites' = [invites EXCEPT ![k] = [invites[k] EXCEPT !.lapsed = TRUE]]
      BY <1>0, <2>1 DEF InviteLapses, TablesOK
    <3>2. /\ [invites[k] EXCEPT !.lapsed = TRUE].made = invites[k].made
          /\ [invites[k] EXCEPT !.lapsed = TRUE].st = invites[k].st
      BY <3>1 DEF Invite
    <3>3. QED  BY <1>0, <3>1, <3>2, InviteEdited DEF InviteMakesOne
  <2>2. ASSUME \/ \E i \in DOMAIN sessions : SessionIdles(i) \/ SessionEnds(i)
               \/ \E u \in Users : ResetLapses(u)
               \/ \E c \in challenges : ChallengeLapses(c)
               \/ Restart
        PROVE  InviteMakesOne'
    BY <2>2, InvitesKept DEF SessionIdles, SessionEnds, ResetLapses, ChallengeLapses, Restart
  <2>3. QED  BY <1>2, <2>1, <2>2 DEF TimeStep
<1>3. ASSUME NEW r \in admitted, SelfStep(r) PROVE InviteMakesOne'
  BY <1>3, InvitesKept DEF SelfStep, Refuse, ChangePassword, RevokeOthers, RevokeSession, TwoFactorSetup,
       TwoFactorEnable, BackupRegenerate, TwoFactorDisable, SetTotp
<1>4. ASSUME NEW r \in admitted, ManageStep(r) PROVE InviteMakesOne'
  BY <1>0, <1>4, ManageMakesOne
<1>5. CASE UNCHANGED accVars
  BY <1>5, InvitesKept DEF accVars
<1>6. QED  BY <1>1, <1>2, <1>3, <1>4, <1>5 DEF AccountsNext

-----------------------------------------------------------------------------
AccountsInv ==
  /\ Shape /\ FamilyIsOneChain /\ OnlyActiveHoldSessions /\ AdminRemains
  /\ SessionsFollowPassword /\ InviteMakesOne

LEMMA AccountsInvHolds == AccountsSpec => []AccountsInv
<1>1. AccountsInit => AccountsInv
  BY ShapeInit, AccountsAssumption
     DEF AccountsInit, AccountsInv, FamilyIsOneChain, OnlyActiveHoldSessions, AdminRemains, ActiveAdmins,
         SessionsFollowPassword, InviteMakesOne, Active, NewUser, NoUser
<1>2. AccountsInv /\ [AccountsNext]_accVars => AccountsInv'
  BY ShapeStep, FamilyStep, HoldersStep, AdminStep, PasswordStep, InviteStep DEF AccountsInv
<1>3. QED  BY <1>1, <1>2, PTL DEF AccountsSpec

\* The last active administrator is never demoted, suspended or deleted, in whatever
\* order the handlers of users.py run and whoever they were admitted for.
THEOREM AccountsKeepAnAdmin == AccountsSpec => []AdminRemains
  BY AccountsInvHolds, PTL DEF AccountsInv

\* The refresh tokens of a login are one chain, burnt as a whole (store.py rotate).
THEOREM AccountsFamilies == AccountsSpec => []FamilyIsOneChain
  BY AccountsInvHolds, PTL DEF AccountsInv

\* No session that is not revoked is left to a suspended or deleted account.
THEOREM AccountsHolders == AccountsSpec => []OnlyActiveHoldSessions
  BY AccountsInvHolds, PTL DEF AccountsInv

\* A session that is still refreshed was opened with the present password, or one of the
\* three exceptions of auth.py and account.py holds for it.
THEOREM AccountsPasswords == AccountsSpec => []SessionsFollowPassword
  BY AccountsInvHolds, PTL DEF AccountsInv

\* However it is resent, revoked, lapsed and accepted, and wherever accepting it is cut,
\* an invite makes one account at most (store.py accept_invite).
THEOREM AccountsInvitations == AccountsSpec => []InviteMakesOne
  BY AccountsInvHolds, PTL DEF AccountsInv

=============================================================================
