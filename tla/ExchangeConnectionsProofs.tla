--------------------- MODULE ExchangeConnectionsProofs ---------------------
(***************************************************************************)
(* The promises of the exchange connections and their live gate, for any   *)
(* number of connections, credentials, overlapping tests and processes.    *)
(***************************************************************************)
EXTENDS ExchangeConnections, TLAPS

\* A row marked as tested has credentials that passed a probe, or were rotated in
\* while a test was in progress: what the live gate relies on.
TestedIsVetted ==
    \A c \in Conns : row[c].test = "ok" => <<c, row[c].secret>> \in vetted \cup crossed

\* A test in progress probes the credentials of the row, unless those were rotated
\* in meanwhile.  This is what makes TestedIsVetted inductive: it says whose the
\* outcome is that record_test will write.
ProbeIsCurrent ==
    \A t \in Probes : probe[t] # None =>
        LET c == probe[t].conn
        IN  row[c].secret = probe[t].secret \/ <<c, row[c].secret>> \in crossed

\* What is tested exists.
ProbedExists == \A t \in Probes : probe[t] # None => row[probe[t].conn].st # "none"

Gate == TestedIsVetted /\ ProbeIsCurrent /\ LiveIsVetted
Inv  == TypeOK /\ ProbedExists /\ OneActive /\ Gate

-----------------------------------------------------------------------------
LEMMA TypeInit == Init => TypeOK
  BY DEF Init, TypeOK, NoRow, Row, Off, Client

LEMMA TypeStep == TypeOK /\ ProbedExists /\ [Next]_vars => TypeOK'
<1> SUFFICES ASSUME TypeOK, ProbedExists, [Next]_vars PROVE TypeOK'
  OBVIOUS
<1> USE ConnectionAssumption DEF TypeOK, histVars
<1>1. ASSUME NEW c \in Conns, NEW sc \in {"read", "trade"}, NEW s \in Secrets, Create(c, sc, s)
      PROVE  TypeOK'
  <2>1. [NoRow EXCEPT !.st = "added", !.scope = sc, !.secret = s] \in Row
    BY DEF NoRow, Row
  <2>2. QED  BY <1>1, <2>1 DEF Create, Added, NoRow
<1>2. ASSUME NEW t \in Probes, NEW c \in Conns, TestStart(t, c) PROVE TypeOK'
  BY <1>2 DEF TestStart, Usable
<1>3. ASSUME NEW t \in Probes, TestDone(t) PROVE TypeOK'
  <2>1. probe[t] \in [conn : Conns, secret : Secrets]
    BY <1>3 DEF TestDone
  <2>2. PICK ok \in BOOLEAN :
           /\ row' = [row EXCEPT ![probe[t].conn].test = IF ok THEN "ok" ELSE "failed"]
           /\ vetted' = IF ok THEN vetted \cup {<<probe[t].conn, probe[t].secret>>}
                              ELSE vetted
    BY <1>3 DEF TestDone
  <2>3. row[probe[t].conn].st # "none"
    BY <1>3 DEF TestDone, ProbedExists
  <2>4. row' \in [Conns -> Row]
    BY <2>1, <2>2 DEF Row
  <2>5. \A c \in Conns : IF row'[c].st = "none" THEN ~row'[c].active /\ row'[c].test = "none"
                                                ELSE row'[c].secret \in Secrets
    BY <2>1, <2>2, <2>3 DEF Row
  <2>6. QED  BY <1>3, <2>1, <2>2, <2>4, <2>5 DEF TestDone
<1>4. ASSUME NEW c \in Conns, NEW s \in Secrets, Rotate(c, s) PROVE TypeOK'
  <2>1. row[c] \in Row /\ row[c].st # "none"
    BY <1>4 DEF Rotate, Rotated, Usable
  <2>2. [row[c] EXCEPT !.secret = s, !.test = "none"] \in Row
    BY <2>1 DEF Row
  <2>3. row' = [row EXCEPT ![c] = [row[c] EXCEPT !.secret = s, !.test = "none"]]
    BY <1>4 DEF Rotate, Rotated
  <2>4. [row[c] EXCEPT !.secret = s, !.test = "none"].secret = s
    BY <2>1 DEF Row
  <2>5. [row[c] EXCEPT !.secret = s, !.test = "none"].st # "none"
    BY <2>1 DEF Row
  <2>6. QED  BY <1>4, <2>1, <2>2, <2>3, <2>4, <2>5 DEF Rotate, Rotated
<1>5. ASSUME NEW c \in Conns, Activate(c) PROVE TypeOK'
  <2>1. row' = [d \in Conns |-> [row[d] EXCEPT !.active = (d = c)]]
    BY <1>5 DEF Activate, Activated
  <2>2. \A r \in Row, b \in BOOLEAN : /\ [r EXCEPT !.active = b] \in Row
                                      /\ [r EXCEPT !.active = b].active = b
                                      /\ [r EXCEPT !.active = b].st = r.st
                                      /\ [r EXCEPT !.active = b].test = r.test
                                      /\ [r EXCEPT !.active = b].secret = r.secret
    BY DEF Row
  <2>3. \A d \in Conns : row[d] \in Row /\ (d = c) \in BOOLEAN
    OBVIOUS
  <2>4. row' \in [Conns -> Row]
    BY <2>1, <2>2, <2>3
  <2>5. \A d \in Conns : /\ row'[d].st = row[d].st /\ row'[d].test = row[d].test
                         /\ row'[d].secret = row[d].secret
                         /\ row'[d].active => d = c
    <3>1. TAKE d \in Conns
    <3>2. CASE d = c
      BY ZenonT(60), <2>1, <2>2, <2>3, <3>2
    <3>3. CASE d # c
      <4>1. row'[d] = [row[d] EXCEPT !.active = FALSE]
        BY <2>1, <3>3
      <4>2. QED  BY <2>2, <2>3, <4>1
    <3>4. QED  BY <3>2, <3>3
  <2>6. ASSUME NEW d \in Conns
        PROVE  IF row'[d].st = "none" THEN ~row'[d].active /\ row'[d].test = "none"
                                      ELSE row'[d].secret \in Secrets
    <3>1. row'[d].st = "none" => d # c
      BY <1>5, <2>5 DEF Activate, Activated, Usable
    <3>2. QED  BY <2>5, <3>1
  <2>7. QED  BY <1>5, <2>4, <2>6 DEF Activate, Activated
<1>6. ASSUME NEW c \in Conns, Revoke(c) PROVE TypeOK'
  <2>1. row[c] \in Row /\ row[c].st # "none"
    BY <1>6 DEF Revoke, Revoked, Usable
  <2> DEFINE r == [row[c] EXCEPT !.st = "revoked", !.active = FALSE]
  <2>2. r \in Row /\ r.st # "none" /\ r.secret = row[c].secret
    BY <2>1 DEF Row
  <2>3. row' = [row EXCEPT ![c] = r]
    BY <1>6 DEF Revoke, Revoked
  <2> HIDE DEF r
  <2>4. QED  BY <1>6, <2>1, <2>2, <2>3 DEF Revoke, Revoked
<1>7. ASSUME NEW p \in Process, BuildLive(p) PROVE TypeOK'
  <2>1. \A c \in Conns : IsActive(c) => LiveOn(c) \in Client
    BY DEF IsActive, Usable, Row, LiveOn, Live, Client
  <2>2. QED  BY <1>7, <2>1 DEF BuildLive
<1>8. ASSUME NEW p \in Process, BuildPaper(p) PROVE TypeOK'
  BY <1>8 DEF BuildPaper, Paper, Client
<1>9. ASSUME NEW p \in Process, Stop(p) PROVE TypeOK'
  BY <1>9 DEF Stop, Client
<1>10. CASE UNCHANGED vars
  BY <1>10 DEF vars
<1>11. QED
  BY <1>1, <1>2, <1>3, <1>4, <1>5, <1>6, <1>7, <1>8, <1>9, <1>10 DEF Next

-----------------------------------------------------------------------------
LEMMA ConnectionsStep == TypeOK /\ ProbedExists /\ OneActive /\ [Next]_vars
                            => (ProbedExists /\ OneActive)'
<1> SUFFICES ASSUME TypeOK, ProbedExists, OneActive, [Next]_vars
             PROVE  ProbedExists' /\ OneActive'
  OBVIOUS
<1> USE ConnectionAssumption DEF TypeOK, ProbedExists, OneActive, Usable
<1>1. ASSUME NEW c \in Conns, NEW sc \in {"read", "trade"}, NEW s \in Secrets, Create(c, sc, s)
      PROVE  ProbedExists' /\ OneActive'
  <2>1. /\ row'[c].st = "added" /\ ~row'[c].active
        /\ \A d \in Conns \ {c} : row'[d] = row[d]
    BY <1>1 DEF Create, Added, NoRow
  <2>2. probe' = probe
    BY <1>1 DEF Create, Added
  <2>3. ProbedExists'
    BY <2>1, <2>2
  <2>4. OneActive'
    BY <2>1
  <2>5. QED  BY <2>3, <2>4
<1>2. ASSUME NEW t \in Probes, NEW c \in Conns, TestStart(t, c)
      PROVE  ProbedExists' /\ OneActive'
  BY <1>2 DEF TestStart
<1>3. ASSUME NEW t \in Probes, TestDone(t) PROVE ProbedExists' /\ OneActive'
  <2>1. \A c \in Conns : row'[c].st = row[c].st /\ row'[c].active = row[c].active
    BY <1>3 DEF TestDone
  <2>2. probe' = [probe EXCEPT ![t] = None]
    BY <1>3 DEF TestDone
  <2>3. ProbedExists'
    BY <2>1, <2>2
  <2>4. OneActive'
    BY <2>1
  <2>5. QED  BY <2>3, <2>4
<1>4. ASSUME NEW c \in Conns, NEW s \in Secrets, Rotate(c, s)
      PROVE  ProbedExists' /\ OneActive'
  <2>1. \A d \in Conns : row'[d].st = row[d].st /\ row'[d].active = row[d].active
    BY <1>4 DEF Rotate, Rotated
  <2>2. QED  BY <1>4, <2>1 DEF Rotate, Rotated
<1>5. ASSUME NEW c \in Conns, Activate(c) PROVE ProbedExists' /\ OneActive'
  <2>1. \A d \in Conns : row'[d].st = row[d].st /\ row'[d].active = (d = c)
    BY <1>5 DEF Activate, Activated, Row
  <2>2. row[c].st = "added" /\ probe' = probe
    BY <1>5 DEF Activate, Activated
  <2>3. ProbedExists'
    BY <2>1, <2>2
  <2>4. \A d, e \in Conns : row'[d].active /\ row'[e].active => d = e
    BY <2>1
  <2>5. \A d \in Conns : row'[d].active => row'[d].st = "added"
    <3> SUFFICES ASSUME NEW d \in Conns, row'[d].active PROVE row'[d].st = "added"
      OBVIOUS
    <3>1. d = c
      BY <2>1
    <3>2. QED  BY <3>1, <2>1, <2>2
  <2>6. OneActive'
    BY <2>4, <2>5
  <2>7. QED  BY <2>3, <2>6
<1>6. ASSUME NEW c \in Conns, Revoke(c) PROVE ProbedExists' /\ OneActive'
  <2>1. /\ row'[c].st = "revoked" /\ ~row'[c].active
        /\ \A d \in Conns \ {c} : row'[d] = row[d]
    BY <1>6 DEF Revoke, Revoked, Row
  <2>2. probe' = probe
    BY <1>6 DEF Revoke, Revoked
  <2>3. ProbedExists'
    BY <2>1, <2>2
  <2>4. OneActive'
    BY <2>1
  <2>5. QED  BY <2>3, <2>4
<1>7. ASSUME NEW p \in Process, BuildLive(p) \/ BuildPaper(p) \/ Stop(p)
      PROVE  ProbedExists' /\ OneActive'
  <2>1. row' = row /\ \A t \in Probes : probe'[t] \in {None, probe[t]}
    BY <1>7 DEF BuildLive, BuildPaper, Stop
  <2>2. QED  BY <2>1
<1>8. CASE UNCHANGED vars
  BY <1>8 DEF vars
<1>9. QED
  BY <1>1, <1>2, <1>3, <1>4, <1>5, <1>6, <1>7, <1>8 DEF Next

-----------------------------------------------------------------------------
\* What the gate rests on survives every step; the late outcome of a test is the
\* case that matters.
LEMMA GateStep == TypeOK /\ ProbedExists /\ Gate /\ [Next]_vars => Gate'
<1> SUFFICES ASSUME TypeOK, ProbedExists, Gate, [Next]_vars PROVE Gate'
  OBVIOUS
<1> USE ConnectionAssumption DEF TypeOK, Gate, TestedIsVetted, ProbeIsCurrent, histVars
<1>1. ASSUME client' = client, vetted \subseteq vetted', crossed \subseteq crossed'
      PROVE  LiveIsVetted'
  BY <1>1 DEF Gate, LiveIsVetted
<1>2. ASSUME NEW c \in Conns, NEW sc \in {"read", "trade"}, NEW s \in Secrets, Create(c, sc, s)
      PROVE  Gate'
  <2>1. /\ row'[c].test = "none" /\ row[c].st = "none"
        /\ \A d \in Conns \ {c} : row'[d] = row[d]
    BY <1>2 DEF Create, Added, NoRow
  <2>2. UNCHANGED <<probe, client, vetted, crossed>>
    BY <1>2 DEF Create, Added
  <2>3. TestedIsVetted'
    BY <2>1, <2>2
  <2>4. ProbeIsCurrent'
    BY <2>1, <2>2 DEF ProbedExists
  <2>5. QED  BY <1>1, <2>2, <2>3, <2>4
<1>3. ASSUME NEW t \in Probes, NEW c \in Conns, TestStart(t, c) PROVE Gate'
  <2>1. UNCHANGED <<row, client, vetted, crossed>>
    BY <1>3 DEF TestStart
  <2>2. ProbeIsCurrent'
    BY <1>3, <2>1 DEF TestStart
  <2>3. QED  BY <1>1, <2>1, <2>2
<1>4. ASSUME NEW t \in Probes, TestDone(t) PROVE Gate'
  <2> DEFINE c == probe[t].conn
  <2>1. PICK ok \in BOOLEAN :
           /\ row' = [row EXCEPT ![c].test = IF ok THEN "ok" ELSE "failed"]
           /\ vetted' = IF ok THEN vetted \cup {<<c, probe[t].secret>>} ELSE vetted
    BY <1>4 DEF TestDone
  <2>2. /\ probe[t] # None /\ probe' = [probe EXCEPT ![t] = None]
        /\ UNCHANGED <<client, crossed>> /\ vetted \subseteq vetted'
    BY <1>4, <2>1 DEF TestDone
  <2>3. \A d \in Conns : row'[d].secret = row[d].secret
    BY <2>1
  <2>4. ProbeIsCurrent'
    BY <2>2, <2>3
  <2>5. \A d \in Conns \ {c} : row'[d] = row[d]
    BY <2>1
  <2>6. row'[c].test = "ok" => <<c, row'[c].secret>> \in vetted' \cup crossed'
    <3>1. ASSUME row'[c].test = "ok" PROVE ok
      BY <2>1, <2>2, <3>1 DEF Row, NoRow
    <3>2. QED  BY <2>1, <2>2, <2>3, <3>1
  <2>7. TestedIsVetted'
    BY <2>2, <2>5, <2>6
  <2>8. QED  BY <1>1, <2>2, <2>4, <2>7
<1>5. ASSUME NEW c \in Conns, NEW s \in Secrets, Rotate(c, s) PROVE Gate'
  <2>1. /\ row[c] \in Row
        /\ row' = [row EXCEPT ![c].secret = s, ![c].test = "none"]
        /\ UNCHANGED <<probe, client, vetted>> /\ crossed \subseteq crossed'
    BY <1>5 DEF Rotate, Rotated, Usable
  <2>2. /\ row'[c].secret = s /\ row'[c].test = "none"
        /\ \A d \in Conns \ {c} : row'[d] = row[d]
    BY <2>1 DEF Row
  <2>3. TestedIsVetted'
    BY <2>1, <2>2
  <2>4. ASSUME NEW t \in Probes, probe[t] # None, probe[t].conn = c, probe[t].secret # s
        PROVE  <<c, s>> \in crossed'
    BY <1>5, <2>4 DEF Rotate, Rotated, TestedMeanwhile
  <2>5. ProbeIsCurrent'
    BY <2>1, <2>2, <2>4
  <2>6. QED  BY <1>1, <2>1, <2>3, <2>5
<1>6. ASSUME NEW c \in Conns, Activate(c) \/ Revoke(c) PROVE Gate'
  <2>1. \A d \in Conns : row'[d].test = row[d].test /\ row'[d].secret = row[d].secret
    BY <1>6 DEF Activate, Activated, Revoke, Revoked, Row
  <2>2. UNCHANGED <<probe, client, vetted, crossed>>
    BY <1>6 DEF Activate, Activated, Revoke, Revoked
  <2>3. QED  BY <1>1, <2>1, <2>2
<1>7. ASSUME NEW p \in Process, BuildLive(p) PROVE Gate'
  <2>1. PICK c \in Conns : /\ row[c].scope = "trade" /\ row[c].test = "ok"
                           /\ client' = [client EXCEPT ![p] = LiveOn(c)]
    BY <1>7 DEF BuildLive
  <2>2. UNCHANGED <<row, probe, vetted, crossed>>
    BY <1>7 DEF BuildLive
  <2>3. LiveIsVetted'
    BY <2>1, <2>2 DEF LiveIsVetted, LiveOn, Live
  <2>4. QED  BY <2>2, <2>3
<1>8. ASSUME NEW p \in Process, BuildPaper(p) \/ Stop(p) PROVE Gate'
  <2>1. /\ UNCHANGED <<row, vetted, crossed>>
        /\ \A t \in Probes : probe'[t] \in {None, probe[t]}
    BY <1>8 DEF BuildPaper, Stop
  <2>2. \A q \in Process : client'[q].mode # "live" \/ client'[q] = client[q]
    BY <1>8 DEF BuildPaper, Stop, Paper, Off
  <2>3. LiveIsVetted'
    BY <2>1, <2>2 DEF LiveIsVetted
  <2>4. QED  BY <2>1, <2>3
<1>9. CASE UNCHANGED vars
  BY <1>1, <1>9 DEF vars
<1>10. QED
  BY <1>2, <1>3, <1>4, <1>5, <1>6, <1>7, <1>8, <1>9 DEF Next

-----------------------------------------------------------------------------
LEMMA InvInit == Init => Inv
  BY TypeInit, ConnectionAssumption
     DEF Init, Inv, ProbedExists, OneActive, Gate, TestedIsVetted, ProbeIsCurrent,
         LiveIsVetted, NoRow, Off

LEMMA Invariance == Spec => []Inv
<1>1. Inv /\ [Next]_vars => Inv'
  BY TypeStep, ConnectionsStep, GateStep DEF Inv
<1>2. QED  BY InvInit, <1>1, PTL DEF Spec

\* Every variable keeps its type, for any number of connections, credentials, tests and
\* processes.
THEOREM ConnectionsTypeCorrect == Spec => []TypeOK
  BY Invariance, PTL DEF Inv

\* One connection at most is active and no revoked one is: the LIMIT 1 of get_active
\* never chooses.
THEOREM ActiveIsUnique == Spec => []OneActive
  BY Invariance, PTL DEF Inv

\* The live gate of build_exchange_client admits only trade connections whose
\* credentials passed a probe or were rotated in while one was under way.
THEOREM LiveGateHolds == Spec => []LiveIsVetted
  BY Invariance, PTL DEF Inv, Gate

\* A revoked connection is never active or usable again.
THEOREM RevocationHolds == Spec => RevocationIsFinal
<1>1. TypeOK /\ OneActive /\ [Next]_vars
        => [\A c \in Conns : row[c].st = "revoked"
                => row'[c].st = "revoked" /\ ~row'[c].active]_row
  <2> SUFFICES ASSUME TypeOK, OneActive, Next, NEW c \in Conns, row[c].st = "revoked",
                      row' # row
               PROVE  row'[c].st = "revoked" /\ ~row'[c].active
    BY DEF vars
  <2> USE DEF TypeOK, OneActive, Usable
  <2>1. ~row[c].active
    BY DEF OneActive
  <2>2. ASSUME NEW d \in Conns, NEW sc \in {"read", "trade"}, NEW s \in Secrets,
               Create(d, sc, s)
        PROVE  row'[c] = row[c]
    BY <2>2 DEF Create, Added
  <2>3. ASSUME NEW t \in Probes, TestDone(t)
        PROVE  row'[c].st = row[c].st /\ row'[c].active = row[c].active
    BY <2>3 DEF TestDone
  <2>4. ASSUME NEW d \in Conns, NEW s \in Secrets, Rotate(d, s) PROVE row'[c] = row[c]
    BY <2>4 DEF Rotate, Rotated
  <2>5. ASSUME NEW d \in Conns, Activate(d) PROVE row'[c] = [row[c] EXCEPT !.active = FALSE]
    BY <2>5 DEF Activate, Activated
  <2>6. ASSUME NEW d \in Conns, Revoke(d) PROVE row'[c] = row[c]
    BY <2>6 DEF Revoke, Revoked
  <2>7. ASSUME NEW p \in Process, BuildLive(p) \/ BuildPaper(p) \/ Stop(p) PROVE FALSE
    BY <2>7 DEF BuildLive, BuildPaper, Stop
  <2>8. ASSUME NEW t \in Probes, NEW d \in Conns, TestStart(t, d) PROVE FALSE
    BY <2>8 DEF TestStart
  <2>9. row[c] \in Row
    BY DEF NoRow
  <2>10. QED
    BY <2>1, <2>2, <2>3, <2>4, <2>5, <2>6, <2>7, <2>8, <2>9 DEF Next, Row
<1>2. QED  BY Invariance, <1>1, PTL DEF Spec, Inv, RevocationIsFinal

=============================================================================
