------------------------ MODULE ExchangeConnections ------------------------
(***************************************************************************)
(* The exchange connections and the gate in front of live trading          *)
(* (src/exchanges/store.py and tester.py, src/api/routes/exchanges.py,     *)
(* src/core/exchange_factory.py).                                          *)
(*                                                                         *)
(* An administrator adds, tests, rotates, activates and revokes            *)
(* connections through the API, whose one worker runs each of these        *)
(* handlers without an await, and so in one action, but for the test: it   *)
(* reads the row, awaits a probe of the exchange for up to twelve seconds, *)
(* and then writes the outcome to the row of the connection, whatever      *)
(* became of it meanwhile.                                                 *)
(* The trading loop when it starts, and the API when it first needs a      *)
(* client, build it from the active connection; with ORDER_ROUTING=live    *)
(* they refuse any but a trade connection whose last test passed.          *)
(***************************************************************************)
EXTENDS FiniteSets

CONSTANTS
    Conns,     \* connection ids
    Secrets,   \* credentials
    Valid,     \* the credentials the exchange accepts
    Probes,    \* test requests that may be in progress together
    Process,   \* the processes that trade: the API and the trading loop
    Api,       \* the one that serves the requests
    None       \* no probe; no connection: credentials of the environment

ASSUME ConnectionAssumption ==
    /\ Valid \subseteq Secrets
    /\ None \notin Conns /\ None \notin Secrets
    /\ Api \in Process

NoRow == [st |-> "none", scope |-> "read", secret |-> None, active |-> FALSE, test |-> "none"]
Row   == [st : {"none", "added", "revoked"}, scope : {"read", "trade"},
          secret : Secrets \cup {None}, active : BOOLEAN, test : {"none", "ok", "failed"}]

\* The exchange client of a process.  Of a paper client, whose credentials only
\* read prices, the connection is all that is kept: None for the environment's.
Off      == [mode |-> "off"]
Paper(c) == [mode |-> "paper", conn |-> c]
Live(c, s, scope) == [mode |-> "live", conn |-> c, secret |-> s, scope |-> scope]
Client   == {Off} \cup {Paper(c) : c \in Conns \cup {None}}
                 \cup [mode : {"live"}, conn : Conns, secret : Secrets,
                       scope : {"read", "trade"}]

VARIABLES
    row,      \* the table exchange_connections
    probe,    \* what each test request in progress has read
    client,   \* the exchange client of each process
    vetted,   \* history: connections and credentials that passed a probe
    crossed   \* history: those rotated in while a test of others was in progress

histVars == <<vetted, crossed>>
vars == <<row, probe, client, histVars>>

Init ==
    /\ row = [c \in Conns |-> NoRow]
    /\ probe = [t \in Probes |-> None]
    /\ client = [p \in Process |-> Off]
    /\ vetted = {} /\ crossed = {}

Usable(c) == row[c].st = "added"

-----------------------------------------------------------------------------
\* What the store writes: ConnectionStore.create, rotate, activate (one transaction)
\* and revoke.
Added(c, scope, s) ==
    [row EXCEPT ![c] = [NoRow EXCEPT !.st = "added", !.scope = scope, !.secret = s]]
Rotated(c, s) == [row EXCEPT ![c].secret = s, ![c].test = "none"]
Activated(c)  == [d \in Conns |-> [row[d] EXCEPT !.active = (d = c)]]
Revoked(c)    == [row EXCEPT ![c].st = "revoked", ![c].active = FALSE]

\* POST /exchanges/connect.  The typed confirmation of the scope is left out.
Create(c, scope, s) ==
    /\ row[c].st = "none"
    /\ row' = Added(c, scope, s)
    /\ UNCHANGED <<probe, client, histVars>>

\* Mutant: no answer 404.
TestStart_AnyId(t, c) ==
    /\ probe[t] = None
    /\ probe' = [probe EXCEPT ![t] = [conn |-> c, secret |-> row[c].secret]]
    /\ UNCHANGED <<row, client, histVars>>

\* test_connection_route, up to its await.
TestStart(t, c) ==
    /\ probe[t] = None /\ Usable(c)
    /\ probe' = [probe EXCEPT ![t] = [conn |-> c, secret |-> row[c].secret]]
    /\ UNCHANGED <<row, client, histVars>>

\* The probe ends, with the exchange's verdict, an error or the timeout;
\* record_test writes the three test columns of the row.
TestDone(t) ==
    /\ probe[t] # None
    /\ LET c == probe[t].conn
           s == probe[t].secret
       IN  \E ok \in BOOLEAN :
              /\ ok => s \in Valid
              /\ row' = [row EXCEPT ![c].test = IF ok THEN "ok" ELSE "failed"]
              /\ vetted' = IF ok THEN vetted \cup {<<c, s>>} ELSE vetted
    /\ probe' = [probe EXCEPT ![t] = None]
    /\ UNCHANGED <<client, crossed>>

\* A test of other credentials of c is in progress.
TestedMeanwhile(c, s) == \E t \in Probes : probe[t] # None /\ probe[t].conn = c
                                                           /\ probe[t].secret # s

\* Mutant: the outcome of the last test stays.
Rotate_KeepsTest(c, s) ==
    /\ Usable(c)
    /\ row' = [row EXCEPT ![c].secret = s]
    /\ crossed' = IF TestedMeanwhile(c, s) THEN crossed \cup {<<c, s>>} ELSE crossed
    /\ UNCHANGED <<probe, client, vetted>>

\* Rotation swaps the credentials and resets the test.
Rotate(c, s) ==
    /\ Usable(c)
    /\ row' = Rotated(c, s)
    /\ crossed' = IF TestedMeanwhile(c, s) THEN crossed \cup {<<c, s>>} ELSE crossed
    /\ UNCHANGED <<probe, client, vetted>>

\* Mutant: the row that was active is not reset.
Activate_KeepsOthers(c) ==
    /\ Usable(c)
    /\ row' = [row EXCEPT ![c].active = TRUE]
    /\ UNCHANGED <<probe, client, histVars>>

\* Mutant: no look at revoked_at.
Activate_AnyRow(c) ==
    /\ row[c].st # "none"
    /\ row' = [d \in Conns |-> [row[d] EXCEPT !.active = (d = c)]]
    /\ UNCHANGED <<probe, client, histVars>>

\* Activation makes c the single active connection, in one transaction.
Activate(c) ==
    /\ Usable(c)
    /\ row' = Activated(c)
    /\ UNCHANGED <<probe, client, histVars>>

\* DELETE /exchanges/{id}.
Revoke(c) ==
    /\ Usable(c)
    /\ row' = Revoked(c)
    /\ UNCHANGED <<probe, client, histVars>>

-----------------------------------------------------------------------------
\* get_active.
IsActive(c) == row[c].active /\ Usable(c)

LiveOn(c) == Live(c, row[c].secret, row[c].scope)

\* build_exchange_client with ORDER_ROUTING=live.  Where this is not enabled it
\* raises: the loop does not start, the API answers an error.
BuildLive(p) ==
    /\ client[p] = Off
    /\ \E c \in Conns :
          /\ IsActive(c) /\ row[c].scope = "trade" /\ row[c].test = "ok"
          /\ client' = [client EXCEPT ![p] = LiveOn(c)]
    /\ UNCHANGED <<row, probe, histVars>>

\* With paper routing: the active connection, or the environment if there is none
\* or the table cannot be read.
BuildPaper(p) ==
    /\ client[p] = Off
    /\ \/ \E c \in Conns : IsActive(c) /\ client' = [client EXCEPT ![p] = Paper(c)]
       \/ client' = [client EXCEPT ![p] = Paper(None)]
    /\ UNCHANGED <<row, probe, histVars>>

\* The process stops; the tests in progress in the API are lost.
Stop(p) ==
    /\ client' = [client EXCEPT ![p] = Off]
    /\ probe' = IF p = Api THEN [t \in Probes |-> None] ELSE probe
    /\ UNCHANGED <<row, histVars>>

Next ==
    \/ \E c \in Conns, scope \in {"read", "trade"}, s \in Secrets : Create(c, scope, s)
    \/ \E t \in Probes, c \in Conns : TestStart(t, c)
    \/ \E t \in Probes : TestDone(t)
    \/ \E c \in Conns, s \in Secrets : Rotate(c, s)
    \/ \E c \in Conns : Activate(c) \/ Revoke(c)
    \/ \E p \in Process : BuildLive(p) \/ BuildPaper(p) \/ Stop(p)

Spec == Init /\ [][Next]_vars

-----------------------------------------------------------------------------
\* Every variable has its type.
TypeOK ==
    /\ row \in [Conns -> Row]
    /\ \A c \in Conns : IF row[c].st = "none" THEN ~row[c].active /\ row[c].test = "none"
                                             ELSE row[c].secret \in Secrets
    /\ probe \in [Probes -> [conn : Conns, secret : Secrets] \cup {None}]
    /\ client \in [Process -> Client]
    /\ vetted \subseteq Conns \X Secrets /\ crossed \subseteq Conns \X Secrets

\* get_active's LIMIT 1 hides no choice: one connection at most is active, and
\* none that was revoked, even when a test of it ends after other changes.
OneActive ==
    /\ \A c, d \in Conns : row[c].active /\ row[d].active => c = d
    /\ \A c \in Conns : row[c].active => Usable(c)

\* The live gate: what a process trades with is a trade connection, and its
\* credentials passed a probe, unless they were rotated in during a test.
LiveIsVetted ==
    \A p \in Process : client[p].mode = "live" =>
        /\ client[p].scope = "trade"
        /\ <<client[p].conn, client[p].secret>> \in vetted \cup crossed

\* A revocation is final, however late the result of a test begun before arrives.
RevocationIsFinal ==
    [][\A c \in Conns : row[c].st = "revoked" => row'[c].st = "revoked" /\ ~row'[c].active]_row

\* What rotate promises: "the live gate refuses to boot until the rotated connection
\* is re-tested"; the credentials of a live process passed a probe.
RotatedIsRetested ==
    \A p \in Process : client[p].mode = "live" => <<client[p].conn, client[p].secret>> \in vetted

=============================================================================
