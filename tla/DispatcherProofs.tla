-------------------------- MODULE DispatcherProofs --------------------------
(***************************************************************************)
(* The promises of the dispatcher, for any number of workers, channels,    *)
(* kinds of alerts, alerts and troubles.                                   *)
(***************************************************************************)
EXTENDS Dispatcher, FiniteSetTheorems, TLAPS

LEMMA Halves == \A n \in Nat : n \div 2 \in Nat /\ 2 * (n \div 2) <= n /\ n <= 2 * (n \div 2) + 1
  OBVIOUS

-----------------------------------------------------------------------------
(***************************************************************************)
(* Types.                                                                  *)
(***************************************************************************)
\* What Size and LinesEnd count is in the log.
LEMMA SizeType ==
    ASSUME TypeOK
    PROVE  /\ Size \in Nat
           /\ \A w \in Workers : /\ LinesEnd(w) \in Nat
                                 /\ base + LinesEnd(w) \div 2 \in 0 .. written
<1> USE DispatcherAssumption
<1>1. base \in Nat /\ written \in Nat /\ base <= written /\ torn \in {0, 1}
  BY DEF TypeOK
<1>2. Size \in Nat /\ Size <= 2 * (written - base) + 1
  BY <1>1 DEF Size
<1>3. ASSUME NEW w \in Workers
      PROVE  LinesEnd(w) \in Nat /\ base + LinesEnd(w) \div 2 \in 0 .. written
  <2> DEFINE m == Less(size[w], Size)
             h == m \div 2
  <2>1. m \in Nat /\ m <= 2 * (written - base) + 1
    BY <1>2, <1>1 DEF Less, TypeOK
  <2>2. h \in Nat /\ 2 * h <= m
    BY <2>1, Halves
  <2> HIDE DEF h
  <2>3. h <= written - base
    BY <1>1, <2>1, <2>2
  <2>4. (2 * h) \div 2 = h
    BY <2>2
  <2>5. LinesEnd(w) = 2 * h
    BY DEF LinesEnd, h
  <2>6. QED  BY <1>1, <2>2, <2>3, <2>4, <2>5
<1>4. QED  BY <1>2, <1>3

\* The parts of TypeOK.
LogType ==
    /\ base \in 0 .. written /\ written \in 0 .. MaxAlerts /\ torn \in {0, 1}
    /\ cursor \in Nat \cup {NoCursor}

BatchType ==
    /\ size \in [Workers -> Nat] /\ pos \in [Workers -> Nat] /\ top \in [Workers -> Nat]
    /\ next \in [Workers -> Nat \ {0}] /\ last \in [Workers -> 0 .. MaxAlerts]

SendType ==
    /\ pc \in [Workers -> {"boot", "first", "idle", "sized", "reset", "claim", "route", "send"}]
    /\ chans \in [Workers -> SUBSET Channels]
    /\ chan \in [Workers -> Channels \cup {NoChannel}]
    /\ attempt \in [Workers -> 0 .. Attempts]

GroupType == group \in [Workers -> [Channels -> [Kinds -> BOOLEAN]]]
ReachType ==
    sent \in [Alert -> [Channels -> Nat]] /\ unsure \in [Alert -> [Channels -> Nat]]

HistType ==
    /\ booted \subseteq Workers /\ routed \subseteq Alert
    /\ start \in Nat /\ backs \in Nat
    /\ shrinks \in Nat /\ failures \in Nat

LEMMA TypeParts ==
    TypeOK <=> LogType /\ BatchType /\ SendType /\ GroupType /\ ReachType /\ HistType
  BY Zenon DEF TypeOK, LogType, BatchType, SendType, GroupType, ReachType, HistType

LEMMA TypePartsNext ==
    LogType' /\ BatchType' /\ SendType' /\ GroupType' /\ ReachType' /\ HistType' => TypeOK'
  BY Zenon DEF TypeOK, LogType, BatchType, SendType, GroupType, ReachType, HistType

LEMMA DoneType ==
    ASSUME SendType, NEW w \in Workers, ChannelDone(w)
    PROVE  SendType'
<1>1. attempt' \in [Workers -> 0 .. Attempts]
  BY DispatcherAssumption DEF SendType, ChannelDone
<1>2. QED  BY <1>1 DEF SendType, ChannelDone, Goto

LEMMA AgainType ==
    ASSUME SendType, NEW w \in Workers, attempt[w] < Attempts, Again(w)
    PROVE  SendType'
<1>1. attempt' \in [Workers -> 0 .. Attempts]
  BY DispatcherAssumption DEF SendType, Again
<1>2. QED  BY <1>1 DEF SendType, Again, Goto

LEMMA Counting ==
    ASSUME NEW f \in [Channels -> Nat], NEW c
    PROVE  [f EXCEPT ![c] = f[c] + 1] \in [Channels -> Nat]
<1>1. CASE c \in Channels
  <2>1. f[c] + 1 \in Nat
    BY <1>1
  <2>2. QED  BY <2>1
<1>2. CASE c \notin Channels
  BY <1>2
<1>3. QED  BY <1>1, <1>2

LEMMA CountedIsTyped ==
    ASSUME NEW f \in [Alert -> [Channels -> Nat]], NEW w \in Workers
    PROVE  Counted(f, w) \in [Alert -> [Channels -> Nat]]
<1> DEFINE a == At(w)
           c == chan[w]
<1>1. Counted(f, w) = [f EXCEPT ![a] = [f[a] EXCEPT ![c] = f[a][c] + 1]]
  BY DEF Counted
<1> HIDE DEF a, c
<1>2. ASSUME a \in Alert PROVE [f[a] EXCEPT ![c] = f[a][c] + 1] \in [Channels -> Nat]
  <2>1. f[a] \in [Channels -> Nat]
    BY <1>2
  <2>2. QED  BY <2>1, Counting
<1>3. QED  BY <1>1, <1>2

LEMMA TypeInit == Init => TypeOK
<1> SUFFICES ASSUME Init PROVE TypeOK
  OBVIOUS
<1> USE DispatcherAssumption DEF Init
<1>1. group \in [Workers -> [Channels -> [Kinds -> BOOLEAN]]]
  BY DEF NoGroups
<1>2. sent \in [Alert -> [Channels -> Nat]] /\ unsure \in [Alert -> [Channels -> Nat]]
  OBVIOUS
<1>3. size \in [Workers -> Nat] /\ last \in [Workers -> 0 .. MaxAlerts]
      /\ attempt \in [Workers -> 0 .. Attempts]
  OBVIOUS
<1>4. /\ chans \in [Workers -> SUBSET Channels] /\ chan \in [Workers -> Channels \cup {NoChannel}]
      /\ next \in [Workers -> Nat \ {0}]
  BY DEF NoChannel
<1>5. LogType
  BY DEF LogType, NoCursor
<1>6. BatchType
  BY <1>3, <1>4 DEF BatchType
<1>7. SendType
  BY <1>3, <1>4 DEF SendType
<1>8. QED  BY <1>1, <1>2, <1>5, <1>6, <1>7, TypeParts DEF GroupType, ReachType, HistType

\* Booted workers have a cursor to read, and a line that was begun has a number.
HasCursor ==
    /\ \A w \in Workers : pc[w] \notin {"boot", "first"} => cursor # NoCursor
    /\ torn = 1 => written < MaxAlerts

LEMMA EndLineType ==
    ASSUME TypeOK, HasCursor, EndLine
    PROVE  TypeOK'
<1> USE DEF EndLine, batchVars, sendVars, readVars, histVars, failVars, reachVars
<1>1. LogType'
  BY DispatcherAssumption DEF TypeOK, HasCursor, LogType
<1>2. BatchType' /\ SendType' /\ GroupType' /\ ReachType' /\ HistType'
  BY TypeParts DEF BatchType, SendType, GroupType, ReachType, HistType
<1>3. QED  BY <1>1, <1>2, TypePartsNext

LEMMA ClaimType ==
    ASSUME TypeOK, NEW w \in Workers, Claim(w)
    PROVE  TypeOK'
<1> USE DEF Claim, Claimed, LostRace, Goto, Forget, DropBatch, logVars, sendVars, batchVars,
            histVars, failVars, reachVars
<1>1. LogType'
  BY DEF TypeOK, LogType
<1>2. BatchType'
  BY DispatcherAssumption, TypeParts DEF BatchType
<1>3. SendType'
  BY TypeParts DEF SendType
<1>4. GroupType' /\ ReachType' /\ HistType'
  BY TypeParts DEF GroupType, ReachType, HistType
<1>5. QED  BY <1>1, <1>2, <1>3, <1>4, TypePartsNext

LEMMA ClaimKeepsCursor ==
    ASSUME TypeOK, HasCursor, NEW w \in Workers, Claim(w)
    PROVE  HasCursor'
<1>1. cursor # NoCursor
  BY DEF HasCursor, Claim
<1>2. top[w] # NoCursor
  BY DEF TypeOK, NoCursor
<1>3. cursor' # NoCursor
  BY <1>1, <1>2 DEF Claim
<1>4. QED  BY <1>3 DEF HasCursor, Claim, Claimed, LostRace, logVars

\* The end of an attempt, whatever its outcome.
LEMMA AttemptType ==
    ASSUME TypeOK, NEW w \in Workers, SendOk(w) \/ SendFails(w) \/ SentButFailed(w)
    PROVE  TypeOK'
<1> USE TypeParts DEF SendOk, SendFails, SentButFailed, AttemptFailed
<1>1. SendType'
  BY DoneType, AgainType
<1>2. ReachType'
  <2>1. /\ sent' \in {sent, Counted(sent, w)}
        /\ unsure' \in {unsure, Counted(unsure, w)}
    BY DEF reachVars
  <2>2. QED  BY <2>1, CountedIsTyped DEF ReachType
<1>3. LogType' /\ BatchType' /\ GroupType'
  BY DEF LogType, BatchType, GroupType, logVars, readVars, batchVars
<1>4. HistType'
  BY DEF HistType, histVars, failVars
<1>5. QED  BY <1>1, <1>2, <1>3, <1>4, TypePartsNext

LEMMA TypeStep == TypeOK /\ HasCursor /\ [Next]_vars => TypeOK' /\ HasCursor'
<1> SUFFICES ASSUME TypeOK, HasCursor, [Next]_vars PROVE TypeOK' /\ HasCursor'
  OBVIOUS
<1> USE DispatcherAssumption
    DEF TypeOK, HasCursor, logVars, readVars, batchVars, sendVars, failVars, histVars,
        reachVars, Goto, Forget, DropBatch, NoCursor
<1>1. CASE BeginLine
  BY <1>1 DEF BeginLine
<1>2. CASE EndLine
  <2>1. TypeOK'
    BY <1>2, EndLineType
  <2>2. HasCursor'
    BY <1>2 DEF EndLine
  <2>3. QED  BY <2>1, <2>2
<1>3. CASE Shrink
  BY <1>3 DEF Shrink
<1>4. ASSUME NEW w \in Workers, Boot(w) PROVE TypeOK' /\ HasCursor'
  <2>1. size' \in [Workers -> Nat]
    BY <1>4, SizeType DEF Boot
  <2>2. QED  BY ZenonT(60), <1>4, <2>1 DEF Boot
<1>5. ASSUME NEW w \in Workers, FirstBoot(w) PROVE TypeOK' /\ HasCursor'
  <2>1. (size[w] + 1) \div 2 \in Nat
    BY Halves
  <2>2. start' \in Nat
    BY <1>5, <2>1 DEF FirstBoot, More
  <2>3. QED  BY <1>5, <2>2 DEF FirstBoot, MoveCursor
<1>6. ASSUME NEW w \in Workers, Stat(w) PROVE TypeOK' /\ HasCursor'
  BY <1>6, SizeType DEF Stat
<1>7. ASSUME NEW w \in Workers, ReadCursor(w) PROVE TypeOK' /\ HasCursor'
  <2>1. CASE size[w] < cursor /\ Goto(w, "reset") /\ UNCHANGED <<readVars, batchVars>>
    BY <1>7, <2>1 DEF ReadCursor
  <2>2. CASE NothingNew(w)
    BY <1>7, <2>2 DEF ReadCursor, NothingNew
  <2>3. CASE ReadChunk(w, LinesEnd(w))
    <3>1. LinesEnd(w) \in Nat /\ base + LinesEnd(w) \div 2 \in 0 .. written
      BY SizeType
    <3>2. cursor \in Nat
      BY <1>7 DEF ReadCursor
    <3>3. base + LinesEnd(w) \div 2 \in 0 .. MaxAlerts
      <4>1. written \in 0 .. MaxAlerts
        OBVIOUS
      <4> HIDE DEF TypeOK
      <4>2. QED  BY <3>1, <4>1
    <3>4. base + (cursor + 1) \div 2 + 1 \in Nat \ {0}
      BY <3>2, Halves
    <3>5. QED  BY <1>7, <2>3, <3>1, <3>2, <3>3, <3>4 DEF ReadCursor, ReadChunk
  <2>4. QED  BY <1>7, <2>1, <2>2, <2>3 DEF ReadCursor
<1>8. ASSUME NEW w \in Workers, Reset(w) PROVE TypeOK' /\ HasCursor'
  BY <1>8 DEF Reset, MoveCursor
<1>9. ASSUME NEW w \in Workers, Claim(w) PROVE TypeOK' /\ HasCursor'
  <2>1. TypeOK'
    BY <1>9, ClaimType
  <2>2. HasCursor'
    BY <1>9, ClaimKeepsCursor
  <2>3. QED  BY <2>1, <2>2
<1>10. ASSUME NEW w \in Workers, Route(w) PROVE TypeOK' /\ HasCursor'
  <2>1. next[w] \in Alert
    BY <1>10 DEF Route, Alert
  <2>2. Rules[KindOf[next[w]]] \subseteq Channels
    BY <2>1
  <2>3. chans' \in [Workers -> SUBSET Channels]
    BY <1>10, <2>2 DEF Route
  <2>4. QED  BY <1>10, <2>1, <2>3 DEF Route
<1>11. ASSUME NEW w \in Workers, RouteDone(w) PROVE TypeOK' /\ HasCursor'
  BY <1>11 DEF RouteDone, Idle
<1>12. ASSUME NEW w \in Workers, NEW c \in Channels, Mute(w, c) PROVE TypeOK' /\ HasCursor'
  BY <1>12 DEF Mute
<1>13. ASSUME NEW w \in Workers, NEW c \in Channels, Begin(w, c) PROVE TypeOK' /\ HasCursor'
  <2>1. group' \in [Workers -> [Channels -> [Kinds -> BOOLEAN]]]
    BY <1>13 DEF Begin
  <2>2. attempt' \in [Workers -> 0 .. Attempts]
    BY <1>13 DEF Begin
  <2>3. QED  BY <1>13, <2>1, <2>2 DEF Begin
<1>14. ASSUME NEW w \in Workers, SendOk(w) \/ SendFails(w) \/ SentButFailed(w)
       PROVE  TypeOK' /\ HasCursor'
  <2>1. TypeOK'
    BY <1>14, AttemptType
  <2>2. HasCursor'
    BY <1>14 DEF SendOk, SendFails, SentButFailed, AttemptFailed, ChannelDone,
                   Again
  <2>3. QED  BY <2>1, <2>2
<1>17. ASSUME NEW w \in Workers, Abort(w) PROVE TypeOK' /\ HasCursor'
  BY <1>17 DEF Abort, DropPass, NoChannel
<1>18. ASSUME NEW w \in Workers, Restart(w) PROVE TypeOK' /\ HasCursor'
  BY <1>18 DEF Restart, DropPass, NoChannel, NoGroups
<1>19. ASSUME NEW w \in Workers, NEW c \in Channels, NEW k \in Kinds, WindowOver(w, c, k)
       PROVE  TypeOK' /\ HasCursor'
  BY <1>19 DEF WindowOver
<1>20. CASE UNCHANGED vars
  BY <1>20 DEF vars
<1>21. QED
  BY <1>1, <1>2, <1>3, <1>4, <1>5, <1>6, <1>7, <1>8, <1>9, <1>10, <1>11, <1>12, <1>13,
     <1>14, <1>17, <1>18, <1>19, <1>20 DEF Next, WorkerStep

\* Type correctness: no read, claim, restart or truncation leads a worker to an alert
\* that was not written, or to more attempts than the back-off allows.
THEOREM DispatcherTypeCorrect == Spec => []TypeOK
<1>1. Init => TypeOK /\ HasCursor
  BY TypeInit DEF Init, HasCursor
<1>2. QED  BY <1>1, TypeStep, PTL DEF Spec

-----------------------------------------------------------------------------
(***************************************************************************)
(* At most once.                                                           *)
(***************************************************************************)

\* Worker w may still deliver alert a to channel c.
ToSend(w, a, c) ==
    /\ pc[w] \in {"route", "send"}
    /\ a \in next[w] .. last[w] \/ (a = At(w) /\ c \in chans[w])

\* The attempts at it that worker w has behind it.
Tried(w, a, c) ==
    IF pc[w] = "send" /\ a = At(w) /\ c = chan[w] THEN attempt[w] - 1 ELSE 0

Reached(a, c) == sent[a][c] > 0 \/ unsure[a][c] > 0
Taken(a, c)   == Reached(a, c) \/ \E w \in Workers : ToSend(w, a, c)

\* No alert is where two deliveries, or more attempts than one has, would bring it.
Fits(a, c) == sent[a][c] <= 1 /\ sent[a][c] + unsure[a][c] <= Attempts

\* What is still to be delivered came only as often as the attempts made so far.
Pending(w, a, c) == ToSend(w, a, c) => sent[a][c] = 0 /\ unsure[a][c] <= Tried(w, a, c)

Undisturbed == backs = 0

\* Channels are left only of an alert that a worker is at.
AtWork ==
    \A w \in Workers :
        /\ chans[w] # {} => pc[w] \in {"route", "send"} /\ At(w) \in Alert
        /\ pc[w] = "send" => chan[w] \in chans[w]

\* A delivery that was made or is to come has one owner, and the cursor has passed it.
Owned ==
    \A a \in Alert, c \in Channels :
        /\ Fits(a, c)
        /\ \A w \in Workers : Pending(w, a, c)
        /\ \A w, v \in Workers : ToSend(w, a, c) /\ ToSend(v, a, c) => w = v
        /\ Taken(a, c) => 2 * (a - base) <= cursor

\* A claim that can succeed is for alerts nobody has taken, and moves the cursor past
\* them.  This is what the WHERE of advance_cursor is good for.
FreshClaim ==
    \A w \in Workers : pc[w] = "claim" =>
        /\ pos[w] <= cursor /\ pos[w] < top[w]
        /\ 2 * (last[w] - base) <= top[w]
        /\ pos[w] = cursor =>
               \A a \in Alert, c \in Channels : Taken(a, c) => a < next[w]

OnceInv == AtWork /\ (Undisturbed => Owned /\ FreshClaim)

LEMMA OnceInit == Init => OnceInv
<1> SUFFICES ASSUME Init PROVE OnceInv
  OBVIOUS
<1>1. AtWork
  BY DEF Init, AtWork
<1>2. \A w \in Workers : \A a, c : ~ToSend(w, a, c)
  BY DEF Init, ToSend
<1>3. \A a \in Alert, c \in Channels : sent[a][c] = 0 /\ unsure[a][c] = 0
  BY DEF Init
<1>4. Owned
  BY <1>2, <1>3, DispatcherAssumption DEF Owned, Taken, Reached, Fits, Pending
<1>5. FreshClaim
  BY DEF Init, FreshClaim
<1>6. QED  BY <1>1, <1>4, <1>5 DEF OnceInv

\* AtWork: only a worker in a batch has channels left.
LEMMA AtWorkStep == TypeOK /\ AtWork /\ [Next]_vars => AtWork'
<1> SUFFICES ASSUME TypeOK, AtWork, [Next]_vars PROVE AtWork'
  OBVIOUS
<1>1. /\ pc \in [Workers -> {"boot", "first", "idle", "sized", "reset", "claim", "route", "send"}]
      /\ next \in [Workers -> Nat \ {0}] /\ last \in [Workers -> 0 .. MaxAlerts]
      /\ chans \in [Workers -> SUBSET Channels]
      /\ chan \in [Workers -> Channels \cup {NoChannel}]
  BY DEF TypeOK
<1> USE DEF AtWork, At, Goto, batchVars, sendVars
<1>2. ASSUME UNCHANGED <<pc, batchVars, sendVars>> PROVE AtWork'
  BY <1>2
<1>3. ASSUME NEW w \in Workers, pc[w] \notin {"route", "send"},
             pc' = [pc EXCEPT ![w] = pc'[w]], pc'[w] # "send", UNCHANGED sendVars,
             \A v \in Workers \ {w} : next'[v] = next[v]
      PROVE  AtWork'
  BY <1>1, <1>3
<1>4. ASSUME NEW w \in Workers, Route(w) PROVE AtWork'
  <2>1. next[w] \in Alert /\ next'[w] - 1 = next[w] /\ pc[w] = "route"
    <3>1. next[w] \in Nat \ {0} /\ last[w] \in 0 .. MaxAlerts
      BY <1>1
    <3>2. next[w] <= last[w] /\ pc[w] = "route" /\ next'[w] = next[w] + 1
      BY <1>1, <1>4 DEF Route, Idle
    <3>3. QED  BY <3>1, <3>2, DispatcherAssumption DEF Alert
  <2>2. \A v \in Workers \ {w} : next'[v] = next[v] /\ chans'[v] = chans[v]
    BY <1>1, <1>4 DEF Route
  <2>3. pc' = pc /\ chan' = chan
    BY <1>4 DEF Route
  <2>4. QED  BY <1>1, <2>1, <2>2, <2>3
<1>5. ASSUME NEW w \in Workers, RouteDone(w) PROVE AtWork'
  BY <1>1, <1>5 DEF RouteDone, Idle, DropBatch
<1>6. ASSUME NEW w \in Workers, NEW c \in Channels, Mute(w, c) PROVE AtWork'
  BY <1>1, <1>6 DEF Mute
<1>7. ASSUME NEW w \in Workers, NEW c \in Channels, Begin(w, c) PROVE AtWork'
  BY <1>1, <1>7 DEF Begin
<1>8. ASSUME NEW w \in Workers, SendOk(w) \/ SendFails(w) \/ SentButFailed(w) PROVE AtWork'
  <2>1. pc[w] = "send" /\ UNCHANGED batchVars /\ (ChannelDone(w) \/ Again(w))
    BY <1>8 DEF SendOk, SendFails, SentButFailed, AttemptFailed
  <2>2. QED  BY <1>1, <2>1 DEF ChannelDone, Again
<1>9. ASSUME NEW w \in Workers, DropPass(w), pc' = [pc EXCEPT ![w] = pc'[w]],
             pc'[w] \in {"idle", "boot"}
      PROVE  AtWork'
  BY <1>1, <1>9 DEF DropPass, DropBatch
<1>10. ASSUME NEW w \in Workers, Claim(w) PROVE AtWork'
  BY <1>1, <1>3, <1>10 DEF Claim, Claimed, LostRace, DropBatch
<1>11. ASSUME NEW w \in Workers, ReadCursor(w) PROVE AtWork'
  BY <1>1, <1>3, <1>11 DEF ReadCursor, ReadChunk, NothingNew
<1>12. ASSUME NEW w \in Workers, Boot(w) \/ FirstBoot(w) \/ Stat(w) \/ Reset(w) PROVE AtWork'
  BY <1>1, <1>3, <1>12 DEF Boot, FirstBoot, Stat, Reset
<1>13. ASSUME NEW w \in Workers, Abort(w) \/ Restart(w) PROVE AtWork'
  BY <1>1, <1>9, <1>13 DEF Abort, Restart
<1>14. CASE BeginLine \/ EndLine \/ Shrink \/ UNCHANGED vars
  BY <1>2, <1>14 DEF BeginLine, EndLine, Shrink, vars
<1>15. ASSUME NEW w \in Workers, NEW c \in Channels, NEW k \in Kinds, WindowOver(w, c, k)
       PROVE  AtWork'
  BY <1>2, <1>15 DEF WindowOver
<1>16. QED
  BY <1>4, <1>5, <1>6, <1>7, <1>8, <1>10, <1>11, <1>12, <1>13, <1>14, <1>15
     DEF Next, WorkerStep

-----------------------------------------------------------------------------
\* The shape of most steps: nothing is delivered, no worker gets more to deliver, no
\* claim changes, and the cursor does not move back.
Same(w) ==
    /\ pos'[w] = pos[w] /\ top'[w] = top[w]
    /\ next'[w] = next[w] /\ last'[w] = last[w]

Still(w) == /\ pc'[w] = pc[w] /\ Same(w)
            /\ chans'[w] = chans[w] /\ chan'[w] = chan[w] /\ attempt'[w] = attempt[w]

NoMore(w) ==
    \A a \in Alert, c \in Channels :
        ToSend(w, a, c)' => ToSend(w, a, c) /\ Tried(w, a, c) <= Tried(w, a, c)'

NoNewWork ==
    /\ UNCHANGED reachVars /\ cursor <= cursor' /\ base <= base'
    /\ \A w \in Workers : NoMore(w)
    /\ \A w \in Workers : pc'[w] = "claim" => pc[w] = "claim" /\ Same(w)

LEMMA Numbers ==
    TypeOK => /\ cursor \in Int /\ base \in Nat
              /\ pos \in [Workers -> Nat] /\ top \in [Workers -> Nat]
              /\ next \in [Workers -> Nat] /\ last \in [Workers -> Nat]
              /\ \A a \in Alert : a \in Nat
              /\ \A a \in Alert, c \in Channels : sent[a][c] \in Nat /\ unsure[a][c] \in Nat
              /\ \A w \in Workers : attempt[w] \in 0 .. Attempts
              /\ backs \in Nat /\ Attempts \in Nat
  BY DispatcherAssumption DEF TypeOK, NoCursor, Alert

\* A worker outside a batch has nothing to deliver, one that keeps still nothing more,
\* and one that begins or ends a delivery no other that was tried.
LEMMA OutOfBatch ==
    ASSUME NEW w \in Workers, pc'[w] \notin {"route", "send"}
    PROVE  NoMore(w)
  BY DEF NoMore, ToSend

LEMMA StandsStill ==
    ASSUME TypeOK, NEW w \in Workers, Still(w)
    PROVE  NoMore(w)
<1>1. attempt[w] \in Int
  BY Numbers
<1>2. \A a \in Alert, c \in Channels :
          ToSend(w, a, c)' = ToSend(w, a, c) /\ Tried(w, a, c)' = Tried(w, a, c)
  BY DEF Still, Same, ToSend, Tried, At
<1>3. \A a \in Alert, c \in Channels : Tried(w, a, c) \in Int
  BY <1>1 DEF Tried
<1>4. QED  BY <1>2, <1>3 DEF NoMore

LEMMA NotYetTried ==
    ASSUME NEW w \in Workers, pc[w] # "send", pc'[w] = "send" => attempt'[w] = 1,
           \A a \in Alert, c \in Channels : ToSend(w, a, c)' => ToSend(w, a, c)
    PROVE  NoMore(w)
<1>1. \A a \in Alert, c \in Channels : Tried(w, a, c) = 0 /\ Tried(w, a, c)' = 0
  BY DEF Tried
<1>2. QED  BY <1>1 DEF NoMore

\* The end of an attempt of worker w: what it was at, c0 of a0, ends with it or goes on.
Attempted(w, a0, c0) ==
    /\ UNCHANGED <<cursor, base, written, torn, readVars, batchVars, backs>>
    /\ pc[w] = "send" /\ a0 = At(w) /\ c0 = chan[w] /\ ToSend(w, a0, c0)
    /\ \A v \in Workers \ {w} : Still(v)
    /\ \/ pc'[w] = "route" /\ chans'[w] = chans[w] \ {c0}
       \/ /\ pc'[w] = "send" /\ chans'[w] = chans[w] /\ chan'[w] = chan[w]
          /\ attempt'[w] = attempt[w] + 1

LEMMA AttemptEnds ==
    ASSUME TypeOK, AtWork, NEW w \in Workers, SendOk(w) \/ SendFails(w) \/ SentButFailed(w)
    PROVE  \E a0 \in Alert, c0 \in Channels :
               /\ Attempted(w, a0, c0)
               /\ SendOk(w) => pc'[w] = "route"
               /\ \A a \in Alert, c \in Channels :
                      LET one == IF a = a0 /\ c = c0 THEN 1 ELSE 0
                      IN  /\ sent'[a][c] = sent[a][c] + (IF SendOk(w) THEN one ELSE 0)
                          /\ unsure'[a][c] = unsure[a][c] + (IF SentButFailed(w) THEN one ELSE 0)
<1>0. pc[w] = "send"
  BY DEF SendOk, SendFails, SentButFailed
<1>1. At(w) \in Alert /\ chan[w] \in chans[w] /\ chan[w] \in Channels
  BY <1>0 DEF AtWork, TypeOK
<1>2. ToSend(w, At(w), chan[w])
  BY <1>0, <1>1 DEF ToSend
<1>3. UNCHANGED <<cursor, base, written, torn, readVars, batchVars, backs>>
  BY DEF SendOk, SendFails, SentButFailed, logVars, histVars
<1>4. ChannelDone(w) \/ Again(w)
  BY DEF SendOk, SendFails, SentButFailed, AttemptFailed
<1>5. SendOk(w) => pc'[w] = "route"
  BY DEF SendOk, ChannelDone, Goto, TypeOK
<1>6. \A v \in Workers \ {w} : Still(v)
  BY <1>3, <1>4 DEF ChannelDone, Again, Goto, Still, Same, readVars, batchVars, TypeOK
<1>7. \/ pc'[w] = "route" /\ chans'[w] = chans[w] \ {chan[w]}
      \/ /\ pc'[w] = "send" /\ chans'[w] = chans[w] /\ chan'[w] = chan[w]
         /\ attempt'[w] = attempt[w] + 1
  BY <1>4 DEF ChannelDone, Again, Goto, TypeOK
<1>8. Attempted(w, At(w), chan[w])
  BY <1>0, <1>2, <1>3, <1>6, <1>7 DEF Attempted
<1>9. /\ ~SendOk(w) => sent' = sent
      /\ SendOk(w) => sent' = Counted(sent, w)
      /\ ~SentButFailed(w) => unsure' = unsure
      /\ SentButFailed(w) => unsure' = Counted(unsure, w)
  BY DEF SendOk, SendFails, SentButFailed, reachVars
<1>10. ASSUME NEW f \in [Alert -> [Channels -> Nat]], NEW a \in Alert, NEW c \in Channels
       PROVE  /\ Counted(f, w)[a][c] =
                     f[a][c] + (IF a = At(w) /\ c = chan[w] THEN 1 ELSE 0)
              /\ f[a][c] = f[a][c] + 0
  <2>1. f[a][c] \in Nat
    OBVIOUS
  <2>2. QED  BY <2>1 DEF Counted
<1>11. ASSUME NEW a \in Alert, NEW c \in Channels
       PROVE  LET one == IF a = At(w) /\ c = chan[w] THEN 1 ELSE 0
              IN  /\ sent'[a][c] = sent[a][c] + (IF SendOk(w) THEN one ELSE 0)
                  /\ unsure'[a][c] = unsure[a][c] + (IF SentButFailed(w) THEN one ELSE 0)
  <2>1. sent \in [Alert -> [Channels -> Nat]] /\ unsure \in [Alert -> [Channels -> Nat]]
    BY DEF TypeOK
  <2>2. sent'[a][c] = sent[a][c] + (IF SendOk(w) /\ a = At(w) /\ c = chan[w] THEN 1 ELSE 0)
    BY <1>9, <1>10, <2>1
  <2>3. unsure'[a][c] =
            unsure[a][c] + (IF SentButFailed(w) /\ a = At(w) /\ c = chan[w] THEN 1 ELSE 0)
    BY <1>9, <1>10, <2>1
  <2>4. QED  BY <2>2, <2>3
<1>12. QED  BY <1>1, <1>5, <1>8, <1>11

\* What the end of an attempt leaves to be delivered was there before, and what has
\* come fits.
LEMMA AttemptKeeps ==
    ASSUME TypeOK, TypeOK', AtWork, NEW w \in Workers,
           SendOk(w) \/ SendFails(w) \/ SentButFailed(w),
           \A a \in Alert, c \in Channels : Fits(a, c) /\ Pending(w, a, c)
    PROVE  \A a \in Alert, c \in Channels :
               /\ Fits(a, c)' /\ Pending(w, a, c)'
               /\ \A v \in Workers : ToSend(v, a, c)' => ToSend(v, a, c)
               /\ Reached(a, c)' => Reached(a, c) \/ ToSend(w, a, c)
               /\ \A v \in Workers \ {w} :
                      Pending(v, a, c) /\ ~(ToSend(w, a, c) /\ ToSend(v, a, c))
                      => Pending(v, a, c)'
<1>1. PICK a0 \in Alert, c0 \in Channels :
          /\ Attempted(w, a0, c0)
          /\ SendOk(w) => pc'[w] = "route"
          /\ \A a \in Alert, c \in Channels :
                 LET one == IF a = a0 /\ c = c0 THEN 1 ELSE 0
                 IN  /\ sent'[a][c] = sent[a][c] + (IF SendOk(w) THEN one ELSE 0)
                     /\ unsure'[a][c] = unsure[a][c] + (IF SentButFailed(w) THEN one ELSE 0)
  BY AttemptEnds
<1> SUFFICES ASSUME NEW a \in Alert, NEW c \in Channels
             PROVE  /\ Fits(a, c)' /\ Pending(w, a, c)'
                    /\ \A v \in Workers : ToSend(v, a, c)' => ToSend(v, a, c)
                    /\ Reached(a, c)' => Reached(a, c) \/ ToSend(w, a, c)
                    /\ \A v \in Workers \ {w} :
                      Pending(v, a, c) /\ ~(ToSend(w, a, c) /\ ToSend(v, a, c))
                      => Pending(v, a, c)'
  OBVIOUS
<1>2. /\ sent[a][c] \in Nat /\ unsure[a][c] \in Nat /\ Attempts \in Nat
      /\ sent'[a][c] \in Nat /\ unsure'[a][c] \in Nat
      /\ attempt[w] \in 0 .. Attempts /\ attempt'[w] \in 0 .. Attempts
  BY Numbers, DispatcherAssumption DEF TypeOK
<1>3. \A v \in Workers \ {w} : /\ ToSend(v, a, c)' = ToSend(v, a, c)
                               /\ Tried(v, a, c)' = Tried(v, a, c)
  BY <1>1 DEF Attempted, Still, Same, ToSend, Tried, At
<1>4. ToSend(w, a, c)' => ToSend(w, a, c)
  BY <1>1 DEF Attempted, ToSend, At, batchVars
<1>5. ASSUME ~(a = a0 /\ c = c0)
      PROVE  /\ sent'[a][c] = sent[a][c] /\ unsure'[a][c] = unsure[a][c]
             /\ Tried(w, a, c) = 0 /\ Tried(w, a, c)' = 0
  <2>1. sent'[a][c] = sent[a][c] /\ unsure'[a][c] = unsure[a][c]
    BY <1>1, <1>2, <1>5
  <2>2. Tried(w, a, c) = 0 /\ Tried(w, a, c)' = 0
    BY <1>1, <1>5 DEF Attempted, Tried, At, batchVars
  <2>3. QED  BY <2>1, <2>2
<1>6. ASSUME a = a0, c = c0
      PROVE  /\ ToSend(w, a, c) /\ sent[a][c] = 0 /\ unsure[a][c] <= attempt[w] - 1
             /\ sent'[a][c] + unsure'[a][c] <= attempt[w] /\ sent'[a][c] <= 1
             /\ SendOk(w) \/ sent'[a][c] = 0
             /\ unsure'[a][c] <= attempt[w]
  <2>1. ToSend(w, a, c) /\ Tried(w, a, c) = attempt[w] - 1
    BY <1>1, <1>6 DEF Attempted, Tried
  <2>2. sent[a][c] = 0 /\ unsure[a][c] <= attempt[w] - 1
    BY <2>1 DEF Pending
  <2>3. ~(SendOk(w) /\ SentButFailed(w))
    <3>1. SendOk(w) => sent' = Counted(sent, w) /\ unsure' = unsure
      BY DEF SendOk
    <3>2. SentButFailed(w) => sent' = sent
      BY DEF SentButFailed
    <3>3. SendOk(w) => sent'[a][c] = sent[a][c] + 1
      BY <1>1, <1>6
    <3>4. QED  BY <1>2, <3>2, <3>3
  <2>4. /\ sent'[a][c] = sent[a][c] + (IF SendOk(w) THEN 1 ELSE 0)
        /\ unsure'[a][c] = unsure[a][c] + (IF SentButFailed(w) THEN 1 ELSE 0)
    BY <1>1, <1>6
  <2>5. QED  BY <1>2, <2>1, <2>2, <2>3, <2>4
<1>7. ASSUME a = a0, c = c0, ToSend(w, a, c)'
      PROVE  pc'[w] = "send" /\ Tried(w, a, c)' = attempt[w]
  <2>1. ToSend(w, a0, c0)'
    BY <1>7
  <2>2. a0 \notin next[w] .. last[w] /\ next' = next /\ last' = last
    BY <1>1, Numbers DEF Attempted, At, batchVars
  <2>3. pc'[w] # "route"
    BY <1>1, <2>1, <2>2 DEF Attempted, ToSend
  <2>4. pc'[w] = "send" /\ chan'[w] = c0 /\ attempt'[w] = attempt[w] + 1
    BY <1>1, <2>3 DEF Attempted
  <2>5. a0 = next'[w] - 1
    BY <1>1, <2>2 DEF Attempted, At
  <2>6. Tried(w, a, c)' = attempt'[w] - 1
    BY <1>7, <2>4, <2>5 DEF Tried, At
  <2>7. QED  BY <1>2, <2>4, <2>6
<1>8. Fits(a, c)'
  <2>1. CASE a = a0 /\ c = c0
    BY <1>2, <1>6, <2>1 DEF Fits
  <2>2. CASE ~(a = a0 /\ c = c0)
    BY <1>5, <2>2 DEF Fits
  <2>3. QED  BY <2>1, <2>2
<1>9. Pending(w, a, c)'
  <2>1. CASE a = a0 /\ c = c0
    <3>1. ASSUME ToSend(w, a, c)' PROVE sent'[a][c] = 0 /\ unsure'[a][c] <= Tried(w, a, c)'
      <4>1. ~SendOk(w)
        BY <1>1, <1>7, <2>1, <3>1
      <4>2. QED  BY <1>6, <1>7, <2>1, <3>1, <4>1
    <3>2. QED  BY <3>1 DEF Pending
  <2>2. CASE ~(a = a0 /\ c = c0)
    BY <1>4, <1>5, <2>2 DEF Pending
  <2>3. QED  BY <2>1, <2>2
<1>10. Reached(a, c)' => Reached(a, c) \/ ToSend(w, a, c)
  BY <1>5, <1>6 DEF Reached
<1>11. ASSUME NEW v \in Workers \ {w}, Pending(v, a, c),
              ~(ToSend(w, a, c) /\ ToSend(v, a, c))
       PROVE  Pending(v, a, c)'
  <2>1. ToSend(v, a, c) => sent'[a][c] = sent[a][c] /\ unsure'[a][c] = unsure[a][c]
    BY <1>5, <1>6, <1>11
  <2>2. QED  BY <1>3, <1>11, <2>1 DEF Pending
<1>12. QED  BY <1>3, <1>4, <1>8, <1>9, <1>10, <1>11

LEMMA Passed ==
    \A a, b, c, d, e \in Int : 2 * (a - b) <= c /\ c <= d /\ b <= e => 2 * (a - e) <= d
  OBVIOUS

LEMMA PendingKept ==
    ASSUME TypeOK, TypeOK', UNCHANGED reachVars, NEW w \in Workers, NoMore(w),
           NEW a \in Alert, NEW c \in Channels, Pending(w, a, c)
    PROVE  Pending(w, a, c)' /\ (ToSend(w, a, c)' => ToSend(w, a, c))
<1>1. Tried(w, a, c) \in Int /\ Tried(w, a, c)' \in Int /\ unsure[a][c] \in Nat
  <2>1. attempt[w] \in Int /\ attempt'[w] \in Int
    BY DispatcherAssumption DEF TypeOK
  <2>2. QED  BY <2>1, Numbers DEF Tried
<1>2. ASSUME ToSend(w, a, c)'
      PROVE  sent'[a][c] = 0 /\ unsure'[a][c] <= Tried(w, a, c)'
  <2>1. ToSend(w, a, c) /\ Tried(w, a, c) <= Tried(w, a, c)'
    BY <1>2 DEF NoMore
  <2>2. sent[a][c] = 0 /\ unsure[a][c] <= Tried(w, a, c)
    BY <2>1 DEF Pending
  <2>3. QED  BY <1>1, <2>1, <2>2 DEF reachVars
<1>3. QED  BY <1>2 DEF Pending, NoMore

LEMMA QuietStep ==
    ASSUME TypeOK, TypeOK', Owned, FreshClaim, NoNewWork
    PROVE  Owned' /\ FreshClaim'
<1>1. \A a \in Alert, c \in Channels :
          /\ \A w \in Workers : ToSend(w, a, c)' => ToSend(w, a, c)
          /\ Fits(a, c)' = Fits(a, c) /\ (Taken(a, c)' => Taken(a, c))
  BY DEF NoNewWork, NoMore, Taken, Reached, Fits, reachVars
<1>2. cursor \in Int /\ cursor' \in Int /\ base \in Int /\ base' \in Int
  BY Numbers DEF TypeOK, NoCursor
<1>3. Owned'
  <2> SUFFICES ASSUME NEW a \in Alert, NEW c \in Channels
               PROVE  /\ Fits(a, c)'
                      /\ \A w \in Workers : Pending(w, a, c)'
                      /\ \A w, v \in Workers : ToSend(w, a, c)' /\ ToSend(v, a, c)' => w = v
                      /\ Taken(a, c)' => 2 * (a - base') <= cursor'
    BY DEF Owned
  <2>1. Taken(a, c)' => 2 * (a - base') <= cursor'
    <3> SUFFICES ASSUME Taken(a, c)' PROVE 2 * (a - base') <= cursor'
      OBVIOUS
    <3>1. 2 * (a - base) <= cursor
      BY <1>1 DEF Owned
    <3>2. a \in Int /\ cursor <= cursor' /\ base <= base'
      BY Numbers DEF NoNewWork
    <3>3. QED  BY <3>1, <3>2, <1>2, Passed
  <2>2. ASSUME NEW w \in Workers PROVE Pending(w, a, c)'
    <3>1. Pending(w, a, c) /\ NoMore(w) /\ UNCHANGED reachVars
      BY DEF Owned, NoNewWork
    <3>2. QED  BY <3>1, PendingKept
  <2>3. QED  BY <1>1, <2>1, <2>2 DEF Owned
<1>4. FreshClaim'
  <2> SUFFICES ASSUME NEW w \in Workers, pc'[w] = "claim"
               PROVE  /\ pos'[w] <= cursor' /\ pos'[w] < top'[w]
                      /\ 2 * (last'[w] - base') <= top'[w]
                      /\ pos'[w] = cursor' =>
                             \A a \in Alert, c \in Channels : Taken(a, c)' => a < next'[w]
    BY DEF FreshClaim
  <2>1. pc[w] = "claim" /\ Same(w) /\ cursor <= cursor' /\ base <= base'
    BY DEF NoNewWork
  <2>2. /\ pos[w] <= cursor /\ pos[w] < top[w] /\ 2 * (last[w] - base) <= top[w]
        /\ pos[w] = cursor => \A a \in Alert, c \in Channels : Taken(a, c) => a < next[w]
    BY <2>1 DEF FreshClaim
  <2>3. pos[w] \in Int /\ top[w] \in Int /\ last[w] \in Int
    BY Numbers
  <2>4. pos[w] <= cursor' /\ 2 * (last[w] - base') <= top[w]
    BY <1>2, <2>1, <2>2, <2>3
  <2>5. pos[w] = cursor' => pos[w] = cursor
    BY <1>2, <2>1, <2>2, <2>3
  <2>6. QED  BY <1>1, <2>1, <2>2, <2>4, <2>5 DEF Same
<1>5. QED  BY <1>3, <1>4

\* ReadCursor: the alerts of the chunk begin where the cursor is.
LEMMA ReadStep ==
    ASSUME TypeOK, TypeOK', AtWork, Owned, FreshClaim, NEW w \in Workers, ReadCursor(w)
    PROVE  Owned' /\ FreshClaim'
<1>1. UNCHANGED reachVars /\ cursor' = cursor /\ base' = base /\ UNCHANGED sendVars
  BY DEF ReadCursor, logVars
<1>2. \A v \in Workers \ {w} : Still(v)
  BY DEF ReadCursor, ReadChunk, NothingNew, Goto, Forget, readVars, batchVars, sendVars, Same,
         Still, TypeOK
<1>3. pc[w] = "sized" /\ pc'[w] \in {"reset", "idle", "claim"}
  BY DEF ReadCursor, ReadChunk, NothingNew, Goto, TypeOK
<1>4. \A v \in Workers : NoMore(v)
  BY <1>2, <1>3, OutOfBatch, StandsStill
<1>5. CASE pc'[w] # "claim"
  <2>1. NoNewWork
    BY <1>1, <1>2, <1>4, <1>5, Numbers DEF NoNewWork, Still
  <2>2. QED  BY <2>1, QuietStep
<1>6. CASE pc'[w] = "claim"
  <2>1. ReadChunk(w, LinesEnd(w)) /\ LinesEnd(w) > cursor
    BY <1>6 DEF ReadCursor, NothingNew, Goto, TypeOK
  <2>2. /\ pos'[w] = cursor /\ top'[w] = LinesEnd(w)
        /\ next'[w] = base + (cursor + 1) \div 2 + 1
        /\ last'[w] = base + LinesEnd(w) \div 2
    BY <2>1 DEF ReadChunk, TypeOK
  <2>3. Owned' /\ \A a \in Alert, c \in Channels : Taken(a, c)' => Taken(a, c)
    <3>1. \A a \in Alert, c \in Channels : \A v \in Workers :
              /\ ToSend(v, a, c)' => ToSend(v, a, c)
              /\ Pending(v, a, c) => Pending(v, a, c)'
      BY <1>1, <1>4, PendingKept DEF NoMore
    <3>2. \A a \in Alert, c \in Channels :
              /\ Fits(a, c) = Fits(a, c)' /\ (Taken(a, c)' => Taken(a, c))
      BY <1>1, <3>1 DEF Taken, Reached, Fits, reachVars
    <3>3. ASSUME NEW a \in Alert, NEW c \in Channels
          PROVE  /\ Fits(a, c)'
                 /\ \A v \in Workers : Pending(v, a, c)'
                 /\ \A v, u \in Workers : ToSend(v, a, c)' /\ ToSend(u, a, c)' => v = u
                 /\ Taken(a, c)' => 2 * (a - base') <= cursor'
      <4>1. /\ Fits(a, c) /\ \A v \in Workers : Pending(v, a, c)
            /\ \A v, u \in Workers : ToSend(v, a, c) /\ ToSend(u, a, c) => v = u
            /\ Taken(a, c) => 2 * (a - base) <= cursor
        BY DEF Owned
      <4>2. QED  BY <1>1, <3>1, <3>2, <4>1
    <3>4. QED  BY <3>2, <3>3 DEF Owned
  <2>4. \A a \in Alert, c \in Channels : Taken(a, c)' => a < next'[w]
    <3> SUFFICES ASSUME NEW a \in Alert, NEW c \in Channels, Taken(a, c) PROVE a < next'[w]
      BY <2>3
    <3>1. 2 * (a - base) <= cursor
      BY DEF Owned
    <3>2. a \in Nat /\ base \in Nat /\ cursor \in Int /\ cursor + 1 \in Nat
      BY Numbers DEF TypeOK, NoCursor
    <3> DEFINE h == (cursor + 1) \div 2
    <3>3. h \in Nat /\ cursor + 1 <= 2 * h + 1
      BY <3>2, Halves
    <3> HIDE DEF h
    <3>4. a <= base + h
      BY <3>1, <3>2, <3>3
    <3>5. next'[w] = base + h + 1
      BY <2>2 DEF h
    <3>6. QED  BY <3>2, <3>3, <3>4, <3>5
  <2>5. 2 * (last'[w] - base) <= top'[w]
    <3> DEFINE h == LinesEnd(w) \div 2
    <3>1. h \in Nat /\ 2 * h <= LinesEnd(w)
      BY SizeType, Halves
    <3>2. last'[w] = base + h
      BY <2>2 DEF h
    <3> HIDE DEF h
    <3>3. QED  BY <2>2, <3>1, <3>2, Numbers
  <2>6. \A v \in Workers \ {w} : pc'[v] = "claim" =>
            /\ pos'[v] <= cursor' /\ pos'[v] < top'[v]
            /\ 2 * (last'[v] - base') <= top'[v]
            /\ pos'[v] = cursor' =>
                   \A a \in Alert, c \in Channels : Taken(a, c)' => a < next'[v]
    BY <1>1, <1>2, <2>3 DEF FreshClaim, Same, Still
  <2>7. pos'[w] <= cursor' /\ pos'[w] < top'[w]
    BY <1>1, <2>1, <2>2, Numbers
  <2>8. FreshClaim'
    BY <1>1, <2>4, <2>5, <2>6, <2>7 DEF FreshClaim
  <2>9. QED  BY <2>3, <2>8
<1>7. QED  BY <1>5, <1>6

\* Claim: the UPDATE hits only if no other claim came since the cursor was read, so
\* that nobody has taken an alert of the chunk; and whoever read it too comes too late.
LEMMA ClaimStep ==
    ASSUME TypeOK, TypeOK', AtWork, Owned, FreshClaim, NEW w \in Workers, Claim(w)
    PROVE  Owned' /\ FreshClaim'
<1>1. UNCHANGED reachVars /\ base' = base /\ UNCHANGED sendVars /\ pc[w] = "claim"
  BY DEF Claim, logVars
<1>2. \A v \in Workers \ {w} : Still(v)
  BY DEF Claim, Claimed, LostRace, Goto, Forget, DropBatch, batchVars, sendVars, Same, Still, TypeOK
<1>3. chans[w] = {}
  BY <1>1 DEF AtWork
<1>4. CASE cursor # pos[w]
  <2>1. pc'[w] = "idle" /\ cursor' = cursor
    BY <1>4 DEF Claim, LostRace, Goto, TypeOK
  <2>2. \A v \in Workers : NoMore(v)
    BY <1>2, <2>1, OutOfBatch, StandsStill
  <2>3. NoNewWork
    BY <1>1, <1>2, <2>1, <2>2, Numbers DEF NoNewWork, Still
  <2>4. QED  BY <2>3, QuietStep
<1>5. CASE cursor = pos[w]
  <2>1. pc'[w] = "route" /\ cursor' = top[w] /\ next'[w] = next[w] /\ last'[w] = last[w]
    BY <1>5 DEF Claim, Claimed, Goto, batchVars, TypeOK
  <2>2. /\ pos[w] < top[w] /\ 2 * (last[w] - base) <= top[w]
        /\ \A a \in Alert, c \in Channels : Taken(a, c) => a < next[w]
    BY <1>1, <1>5 DEF FreshClaim
  <2>3. /\ cursor \in Int /\ top[w] \in Int /\ last[w] \in Int /\ next[w] \in Int /\ base \in Int
        /\ \A a \in Alert : a \in Int
    BY Numbers
  <2>4. \A v \in Workers \ {w} : \A a, c : /\ ToSend(v, a, c)' <=> ToSend(v, a, c)
                                           /\ Tried(v, a, c)' = Tried(v, a, c)
    BY <1>2 DEF ToSend, Tried, Same, Still, At
  <2>5. \A a, c : ToSend(w, a, c)' <=> a \in next[w] .. last[w]
    BY <1>1, <1>3, <2>1 DEF ToSend, At, sendVars
  <2>6. \A a, c : ~ToSend(w, a, c)
    BY <1>1 DEF ToSend
  <2>7. Owned'
    <3> SUFFICES ASSUME NEW a \in Alert, NEW c \in Channels
                 PROVE  /\ Fits(a, c)'
                        /\ \A v \in Workers : Pending(v, a, c)'
                        /\ \A v, u \in Workers : ToSend(v, a, c)' /\ ToSend(u, a, c)' => v = u
                        /\ Taken(a, c)' => 2 * (a - base') <= cursor'
      BY DEF Owned
    <3>1. sent[a][c] \in Nat /\ unsure[a][c] \in Nat /\ sent' = sent /\ unsure' = unsure
      BY <1>1 DEF TypeOK, reachVars
    <3>2. ASSUME a \in next[w] .. last[w]
          PROVE  ~Taken(a, c) /\ 2 * (a - base) <= top[w]
      <4>1. next[w] <= a /\ a <= last[w] /\ a \in Int
        BY <3>2, <2>3
      <4>2. ~Taken(a, c)
        BY <2>2, <2>3, <4>1
      <4>3. 2 * (a - base) <= top[w]
        BY <2>2, <2>3, <4>1
      <4>4. QED  BY <4>2, <4>3
    <3>3. ASSUME Taken(a, c) PROVE 2 * (a - base) <= top[w]
      <4>1. 2 * (a - base) <= cursor
        BY <3>3 DEF Owned
      <4>2. QED  BY <4>1, <1>5, <2>2, <2>3
    <3>4. Taken(a, c)' => Taken(a, c) \/ a \in next[w] .. last[w]
      BY <1>1, <2>4, <2>5 DEF Taken, Reached, reachVars
    <3>5. CASE a \in next[w] .. last[w]
      <4>1. /\ sent[a][c] = 0 /\ unsure[a][c] = 0
            /\ \A v \in Workers : ~ToSend(v, a, c)
        BY <3>1, <3>2, <3>5 DEF Taken, Reached
      <4>2. Fits(a, c)' /\ Tried(w, a, c)' = 0
        BY <2>1, <3>1, <4>1, DispatcherAssumption DEF Fits, Tried
      <4>3. \A v \in Workers : Pending(v, a, c)'
        BY <2>4, <3>1, <4>1, <4>2 DEF Pending
      <4>4. QED  BY <1>1, <2>1, <2>4, <3>2, <3>5, <4>1, <4>2, <4>3
    <3>6. CASE a \notin next[w] .. last[w]
      <4>1. ~ToSend(w, a, c)'
        BY <2>5, <3>6
      <4>2. Fits(a, c)' /\ \A v \in Workers : Pending(v, a, c)'
        BY <2>4, <3>1, <4>1 DEF Owned, Fits, Pending
      <4>3. QED  BY <1>1, <2>1, <2>4, <3>3, <3>4, <3>6, <4>1, <4>2 DEF Owned
    <3>7. QED  BY <3>5, <3>6
  <2>8. FreshClaim'
    <3> SUFFICES ASSUME NEW v \in Workers, pc'[v] = "claim"
                 PROVE  /\ pos'[v] <= cursor' /\ pos'[v] < top'[v]
                        /\ 2 * (last'[v] - base') <= top'[v]
                        /\ pos'[v] # cursor'
      BY DEF FreshClaim
    <3>1. v # w /\ pc[v] = "claim" /\ Same(v)
      BY <1>2, <2>1 DEF Still
    <3>2. pos[v] <= cursor /\ pos[v] < top[v] /\ 2 * (last[v] - base) <= top[v]
      BY <3>1 DEF FreshClaim
    <3>3. pos[v] \in Int
      BY Numbers
    <3>4. pos[v] < top[w]
      BY <1>5, <2>2, <2>3, <3>2, <3>3
    <3>5. QED  BY <1>1, <2>1, <2>3, <3>1, <3>2, <3>3, <3>4 DEF Same
  <2>9. QED  BY <2>7, <2>8
<1>6. QED  BY <1>4, <1>5

\* The end of an attempt: what came was to be delivered, and is not again.
LEMMA AttemptStep ==
    ASSUME TypeOK, TypeOK', AtWork, Owned, FreshClaim, NEW w \in Workers,
           SendOk(w) \/ SendFails(w) \/ SentButFailed(w)
    PROVE  Owned' /\ FreshClaim'
<1>1. /\ cursor' = cursor /\ base' = base
      /\ \A v \in Workers : pc'[v] = "claim" => pc[v] = "claim" /\ Same(v)
  BY AttemptEnds DEF Attempted, Still
<1>2. \A a \in Alert, c \in Channels :
          /\ Fits(a, c) /\ \A v \in Workers : Pending(v, a, c)
          /\ \A v \in Workers \ {w} : ~(ToSend(w, a, c) /\ ToSend(v, a, c))
  BY DEF Owned
<1>3. \A a \in Alert, c \in Channels :
          /\ Fits(a, c)' /\ Pending(w, a, c)'
          /\ \A v \in Workers : ToSend(v, a, c)' => ToSend(v, a, c)
          /\ Reached(a, c)' => Reached(a, c) \/ ToSend(w, a, c)
          /\ \A v \in Workers \ {w} : Pending(v, a, c)'
  BY <1>2, AttemptKeeps
<1>4. \A a \in Alert, c \in Channels : Taken(a, c)' => Taken(a, c)
  BY <1>3 DEF Taken
<1>5. Owned'
  BY <1>1, <1>3, <1>4 DEF Owned
<1>6. FreshClaim'
  BY <1>1, <1>4 DEF FreshClaim, Same
<1>7. QED  BY <1>5, <1>6

\* Every other step is quiet, unless it moves the cursor back.
LEMMA OnceStep ==
    TypeOK /\ TypeOK' /\ OnceInv /\ [Next]_vars => OnceInv'
<1> SUFFICES ASSUME TypeOK, TypeOK', OnceInv, [Next]_vars PROVE OnceInv'
  OBVIOUS
<1>1. AtWork /\ AtWork'
  BY AtWorkStep DEF OnceInv
<1> SUFFICES ASSUME Undisturbed' PROVE Owned' /\ FreshClaim'
  BY <1>1 DEF OnceInv
<1> DEFINE Done == Owned' /\ FreshClaim'
           Calm == UNCHANGED <<cursor, base, reachVars, readVars, batchVars, backs>>
<1>2. /\ backs \in Nat /\ cursor \in Int /\ base \in Nat
      /\ backs' = 0
  BY Numbers DEF Undisturbed
<1>3. ASSUME backs = 0 PROVE Owned /\ FreshClaim
  BY <1>3 DEF OnceInv, Undisturbed
<1>4. ASSUME backs = 0, NoNewWork PROVE Done
  BY <1>3, <1>4, QuietStep
<1>5. ASSUME Calm, UNCHANGED <<pc, sendVars>> PROVE Done
  <2>1. \A w \in Workers : Still(w)
    BY <1>5 DEF Still, Same, readVars, batchVars, sendVars
  <2>2. NoNewWork
    BY <1>2, <1>5, <2>1, StandsStill DEF NoNewWork, Still
  <2>3. QED  BY <1>2, <1>4, <1>5, <2>2
\* Outside a batch a worker has nothing to deliver, before and after.
<1>6. ASSUME NEW w \in Workers, UNCHANGED <<base, reachVars>>, cursor <= cursor',
             backs = 0, pc'[w] \in {"boot", "first", "idle", "sized", "reset"},
             \A v \in Workers \ {w} : Still(v)
      PROVE  Done
  <2>1. \A v \in Workers : NoMore(v)
    BY <1>6, OutOfBatch, StandsStill
  <2>2. NoNewWork
    BY <1>2, <1>6, <2>1 DEF NoNewWork, Still
  <2>3. QED  BY <1>2, <1>4, <1>6, <2>2
<1>7. ASSUME NEW w \in Workers, FirstBoot(w) \/ Reset(w) PROVE Done
  <2>1. backs = 0 /\ cursor <= cursor'
    BY <1>2, <1>7, Numbers DEF FirstBoot, Reset, MoveCursor, TypeOK
  <2>2. /\ UNCHANGED <<base, reachVars>> /\ pc'[w] = "idle"
        /\ \A v \in Workers \ {w} : Still(v)
    BY <1>7 DEF FirstBoot, Reset, Goto, Forget, logVars, batchVars, sendVars, Same,
                Still, TypeOK
  <2>3. QED  BY <1>6, <2>1, <2>2
<1>8. ASSUME NEW w \in Workers, Boot(w) \/ Stat(w) PROVE Done
  <2>1. /\ UNCHANGED <<base, cursor, reachVars, backs>>
        /\ pc'[w] \in {"first", "idle", "sized"}
        /\ \A v \in Workers \ {w} : Still(v)
    BY <1>8 DEF Boot, Stat, Goto, logVars, batchVars, sendVars, histVars, Same, Still,
                TypeOK
  <2>2. QED  BY <1>2, <1>6, <2>1
<1>9. ASSUME NEW w \in Workers, RouteDone(w) PROVE Done
  <2>1. /\ UNCHANGED <<base, cursor, reachVars, backs>> /\ pc'[w] = "idle"
        /\ \A v \in Workers \ {w} : Still(v)
    BY <1>9 DEF RouteDone, Goto, DropBatch, logVars, readVars, sendVars, failVars, histVars, Same,
                Still, TypeOK
  <2>2. QED  BY <1>2, <1>6, <2>1
<1>10. ASSUME NEW w \in Workers, Abort(w) \/ Restart(w) PROVE Done
  <2>1. /\ UNCHANGED <<base, cursor, reachVars, backs>> /\ pc'[w] \in {"idle", "boot"}
        /\ \A v \in Workers \ {w} : Still(v)
    BY <1>10 DEF Abort, Restart, DropPass, Goto, Forget, DropBatch, logVars, histVars, Same, Still,
                TypeOK
  <2>2. QED  BY <1>2, <1>6, <2>1
<1>11. ASSUME NEW w \in Workers, ReadCursor(w) PROVE Done
  <2>1. backs = 0
    BY <1>2, <1>11 DEF ReadCursor, histVars
  <2>2. QED  BY <1>1, <1>3, <1>11, <2>1, ReadStep
<1>12. ASSUME NEW w \in Workers, Claim(w) PROVE Done
  <2>1. backs = 0
    BY <1>2, <1>12 DEF Claim, histVars
  <2>2. QED  BY <1>1, <1>3, <1>12, <2>1, ClaimStep
<1>13. ASSUME NEW w \in Workers, SendOk(w) \/ SendFails(w) \/ SentButFailed(w) PROVE Done
  <2>1. backs = 0
    BY <1>1, <1>2, <1>13, AttemptEnds DEF Attempted
  <2>2. QED  BY <1>1, <1>3, <1>13, <2>1, AttemptStep
\* Within a batch the rest of it only gets smaller.
<1>15. ASSUME NEW w \in Workers, UNCHANGED <<cursor, base, reachVars, backs, readVars>>,
              pc[w] = "route", pc'[w] \in {"route", "send"}, pc'[w] = "send" => attempt'[w] = 1,
              \A a, c : ToSend(w, a, c)' => ToSend(w, a, c),
              \A v \in Workers \ {w} : Still(v)
       PROVE  Done
  <2>1. \A v \in Workers : NoMore(v)
    BY <1>15, NotYetTried, StandsStill
  <2>2. NoNewWork
    BY <1>2, <1>15, <2>1 DEF NoNewWork, Still
  <2>3. QED  BY <1>2, <1>4, <1>15, <2>2
<1>16. ASSUME NEW w \in Workers, Route(w) PROVE Done
  <2>1. /\ UNCHANGED <<cursor, base, reachVars, backs, readVars>>
        /\ pc'[w] = "route" /\ pc[w] = "route"
        /\ \A v \in Workers \ {w} : Still(v)
    BY <1>16 DEF Route, Idle, logVars, readVars, Same, Still, TypeOK
  <2>2. next[w] <= last[w] /\ next'[w] = next[w] + 1 /\ last'[w] = last[w]
    BY <1>16 DEF Route, TypeOK
  <2>3. next[w] \in Nat /\ last[w] \in Nat
    BY Numbers
  <2>4. \A a : a \in next'[w] .. last'[w] \/ a = next'[w] - 1 => a \in next[w] .. last[w]
    BY <2>2, <2>3
  <2>5. \A a, c : ToSend(w, a, c)' => ToSend(w, a, c)
    BY <2>1, <2>4 DEF ToSend, At
  <2>6. QED  BY <1>15, <2>1, <2>5
<1>17. ASSUME NEW w \in Workers, NEW c \in Channels, Mute(w, c) \/ Begin(w, c) PROVE Done
  <2>1. /\ UNCHANGED <<cursor, base, reachVars, backs, readVars, batchVars>>
        /\ pc[w] = "route" /\ pc'[w] \in {"route", "send"} /\ chans'[w] \subseteq chans[w]
        /\ pc'[w] = "send" => attempt'[w] = 1
    BY <1>17 DEF Mute, Begin, Goto, logVars, histVars, TypeOK
  <2>2. \A v \in Workers \ {w} : Still(v)
    BY <1>17 DEF Mute, Begin, Goto, readVars, batchVars, sendVars, Same, Still, TypeOK
  <2>3. \A a, d : ToSend(w, a, d)' => ToSend(w, a, d)
    BY <2>1 DEF ToSend, At, batchVars
  <2>4. QED  BY <1>15, <2>1, <2>2, <2>3
<1>19. ASSUME NEW w \in Workers, NEW c \in Channels, NEW k \in Kinds, WindowOver(w, c, k)
       PROVE  Done
  BY <1>5, <1>19 DEF WindowOver, logVars, failVars, histVars
<1>20. CASE BeginLine \/ EndLine \/ UNCHANGED vars
  BY <1>5, <1>20 DEF BeginLine, EndLine, vars, logVars, failVars, histVars
\* Truncation: the same offset now stands for later alerts.
<1>21. CASE Shrink
  <2>1. /\ UNCHANGED <<cursor, reachVars, pc, readVars, batchVars, sendVars, backs>>
        /\ base' = written /\ base < written
    BY <1>21 DEF Shrink, histVars
  <2>2. \A w \in Workers : Still(w)
    BY <2>1 DEF Still, Same, readVars, batchVars, sendVars
  <2>3. base <= base'
    BY <2>1 DEF TypeOK
  <2>4. NoNewWork
    BY <1>2, <2>1, <2>2, <2>3, StandsStill DEF NoNewWork, Still
  <2>5. QED  BY <1>2, <1>4, <2>1, <2>4
<1>22. QED
  BY <1>7, <1>8, <1>9, <1>10, <1>11, <1>12, <1>13, <1>16, <1>17, <1>19, <1>20, <1>21
     DEF Next, WorkerStep

\* The promise of the claim: whatever the number of workers, their interleaving, their
\* restarts, aborted passes and the truncations of the log, the delivery of an alert to a
\* channel is made by one worker, succeeds once at most and brings the alert there once
\* per attempt at most, unless the cursor was moved back.
THEOREM DeliveryIsAtMostOnce == Spec => []AtMostOnce
<1>1. Init => TypeOK /\ HasCursor /\ OnceInv
  BY TypeInit, OnceInit DEF Init, HasCursor
<1>2. TypeOK /\ HasCursor /\ OnceInv /\ [Next]_vars => TypeOK' /\ HasCursor' /\ OnceInv'
  BY TypeStep, OnceStep
<1>3. OnceInv => AtMostOnce
  BY DEF OnceInv, Undisturbed, Owned, Fits, AtMostOnce, Once
<1>4. QED  BY <1>1, <1>2, <1>3, PTL DEF Spec

-----------------------------------------------------------------------------
(***************************************************************************)
(* A single worker.                                                        *)
(***************************************************************************)
Sole(w) == booted \subseteq {w}

TakenBy(w, a, c) == Reached(a, c) \/ ToSend(w, a, c)

\* What was taken is no longer in the log, or the cursor has passed it and stands in
\* the log; and then no size read shows a log that ends before the cursor.
Behind(w) ==
    \A a \in Alert, c \in Channels : TakenBy(w, a, c) =>
        \/ a <= base
        \/ /\ 2 * (a - base) <= cursor /\ cursor <= Size
           /\ pc[w] \in {"sized", "reset"} => cursor <= size[w]

\* A claim cannot fail, is for alerts that come after all that was taken, and leaves
\* them behind too.
NextClaim(w) == pc[w] = "claim" =>
    /\ pos[w] = cursor
    /\ \A a \in Alert, c \in Channels : TakenBy(w, a, c) => a < next[w]
    /\ \/ 2 * (last[w] - base) <= top[w] /\ top[w] <= Size /\ pos[w] < top[w]
       \/ last[w] <= base /\ \A a \in Alert, c \in Channels : TakenBy(w, a, c) => a <= base

AloneFor(w) ==
    /\ \A a \in Alert, c \in Channels : /\ Fits(a, c) /\ Pending(w, a, c)
                                        /\ cursor = NoCursor => ~TakenBy(w, a, c)
    /\ pc[w] = "first" => cursor = NoCursor
    /\ pc[w] = "reset" => size[w] < cursor
    /\ Behind(w) /\ NextClaim(w)

\* Who never ran does nothing.
Absent ==
    /\ IsFiniteSet(booted)
    /\ \A w \in Workers : w \notin booted => pc[w] = "boot"
    /\ booted = {} => \A a \in Alert, c \in Channels : sent[a][c] = 0 /\ unsure[a][c] = 0

AloneInv == Absent /\ \A w \in Workers : Sole(w) => AloneFor(w)

LEMMA AloneInit == Init => AloneInv
<1> SUFFICES ASSUME Init PROVE AloneInv
  OBVIOUS
<1>1. Absent
  BY FS_EmptySet DEF Init, Absent
<1>2. ASSUME NEW w \in Workers PROVE AloneFor(w)
  <2>1. pc[w] = "boot" /\ \A a \in Alert, c \in Channels : sent[a][c] = 0 /\ unsure[a][c] = 0
    BY DEF Init
  <2>2. \A a \in Alert, c \in Channels : Fits(a, c) /\ ~Reached(a, c)
    BY <2>1, DispatcherAssumption DEF Fits, Reached
  <2>3. \A a \in Alert, c \in Channels : ~ToSend(w, a, c)
    BY <2>1 DEF ToSend
  <2>4. QED  BY <2>1, <2>2, <2>3 DEF AloneFor, Behind, NextClaim, TakenBy, Pending
<1>3. QED  BY <1>1, <1>2 DEF AloneInv

LEMMA AbsentStep == TypeOK /\ AtWork /\ Absent /\ [Next]_vars => Absent'
<1> SUFFICES ASSUME TypeOK, AtWork, Absent, [Next]_vars PROVE Absent'
  OBVIOUS
<1>0. /\ pc \in [Workers -> {"boot", "first", "idle", "sized", "reset", "claim", "route", "send"}]
      /\ booted \subseteq Workers
  BY DEF TypeOK
<1>1. ASSUME NEW w \in Workers, Boot(w) PROVE Absent'
  <2>1. booted' = booted \cup {w} /\ \A v \in Workers \ {w} : pc'[v] = pc[v]
    BY <1>0, <1>1 DEF Boot, Goto
  <2>2. IsFiniteSet(booted')
    BY <2>1, FS_AddElement DEF Absent
  <2>3. QED  BY <2>1, <2>2 DEF Absent
<1>2. ASSUME NEW w \in Workers, pc[w] # "boot", booted' = booted,
             \A v \in Workers \ {w} : pc'[v] = pc[v]
      PROVE  Absent'
  BY <1>2 DEF Absent
<1>3. ASSUME UNCHANGED <<booted, pc, reachVars>> PROVE Absent'
  BY <1>3 DEF Absent, reachVars
<1>4. ASSUME NEW w \in Workers, ~Boot(w), WorkerStep(w) PROVE Absent'
  <2>1. pc[w] # "boot" /\ booted' = booted
    BY <1>4 DEF WorkerStep, Boot, FirstBoot, Stat, ReadCursor, Reset, Claim, Route, RouteDone, Idle,
                Mute, Begin, SendOk, SendFails, SentButFailed, histVars
  <2>2. pc' = pc \/ \E p : Goto(w, p)
    BY <1>4 DEF WorkerStep, Boot, FirstBoot, Stat, ReadCursor, ReadChunk, NothingNew, Reset, Claim,
                Claimed, LostRace, Route, RouteDone, Mute, Begin, SendOk, SendFails, SentButFailed,
                AttemptFailed, ChannelDone, Again
  <2>3. \A v \in Workers \ {w} : pc'[v] = pc[v]
    BY <1>0, <2>2 DEF Goto
  <2>4. QED  BY <1>2, <2>1, <2>3
<1>5. ASSUME NEW w \in Workers, Abort(w) \/ Restart(w) PROVE Absent'
  BY <1>0, <1>2, <1>5 DEF Abort, Restart, Goto, histVars
<1>6. CASE BeginLine \/ EndLine \/ Shrink \/ UNCHANGED vars
  BY <1>3, <1>6 DEF BeginLine, EndLine, Shrink, vars, histVars
<1>7. ASSUME NEW w \in Workers, NEW c \in Channels, NEW k \in Kinds, WindowOver(w, c, k)
      PROVE  Absent'
  BY <1>3, <1>7 DEF WindowOver, histVars
<1>8. QED  BY <1>1, <1>4, <1>5, <1>6, <1>7 DEF Next

\* As long as w is the only one that ran, every step is its own or one of the log.
LEMMA StepIsOwn ==
    ASSUME TypeOK, Absent, NEW w \in Workers, [Next]_vars, Sole(w)'
    PROVE  /\ Sole(w)
           /\ \/ BeginLine \/ EndLine \/ Shrink \/ UNCHANGED vars
              \/ WorkerStep(w) \/ Abort(w) \/ Restart(w)
              \/ \E c \in Channels, k \in Kinds : WindowOver(w, c, k)
<1>1. booted \subseteq booted'
  <2>1. ASSUME NEW v \in Workers, WorkerStep(v) PROVE booted \subseteq booted'
    BY <2>1 DEF WorkerStep, Boot, FirstBoot, Stat, ReadCursor, Reset, Claim, Route, RouteDone,
                Mute, Begin, SendOk, SendFails, SentButFailed, histVars
  <2>2. CASE BeginLine \/ EndLine \/ Shrink \/ UNCHANGED vars
             \/ \E v \in Workers : Abort(v) \/ Restart(v)
    BY <2>2 DEF BeginLine, EndLine, Shrink, vars, Abort, Restart, histVars
  <2>3. ASSUME NEW v \in Workers, NEW c \in Channels, NEW k \in Kinds, WindowOver(v, c, k)
        PROVE  booted' = booted
    BY <2>3 DEF WindowOver, histVars
  <2>4. QED  BY <2>1, <2>2, <2>3 DEF Next
<1>2. Sole(w)
  BY <1>1 DEF Sole
<1>3. ASSUME NEW v \in Workers, v # w PROVE ~WorkerStep(v) /\ ~Abort(v) /\ ~Restart(v)
  <2>1. v \notin booted /\ v \notin booted' /\ pc[v] = "boot"
    BY <1>1, <1>3 DEF Sole, Absent
  <2>2. ~Boot(v)
    BY <2>1 DEF Boot
  <2>3. QED
    BY <2>1, <2>2 DEF WorkerStep, FirstBoot, Stat, ReadCursor, Reset, Claim, Route, RouteDone,
                      Idle, Mute, Begin, SendOk, SendFails, SentButFailed, Abort, Restart
<1>4. ASSUME NEW v \in Workers, v # w, NEW c \in Channels, NEW k \in Kinds PROVE ~WindowOver(v, c, k)
  <2>1. pc[v] = "boot"
    BY <1>2, <1>4 DEF Sole, Absent
  <2>2. QED  BY <2>1 DEF WindowOver
<1>5. QED  BY <1>2, <1>3, <1>4 DEF Next

LEMMA AloneNumbers ==
    ASSUME TypeOK, NEW w \in Workers
    PROVE  /\ cursor \in Int /\ base \in Nat /\ written \in Nat /\ base <= written /\ Size \in Nat
           /\ size[w] \in Nat /\ pos[w] \in Nat /\ top[w] \in Nat
           /\ next[w] \in Nat /\ last[w] \in Nat
           /\ \A a \in Alert : a \in Nat
           /\ pc \in [Workers -> {"boot", "first", "idle", "sized", "reset", "claim", "route", "send"}]
  BY Numbers, SizeType DEF TypeOK

LEMMA SizeOf ==
    ASSUME NEW b \in Nat, NEW n \in Nat, NEW t \in Nat, b <= n
    PROVE  2 * (n - b) + t \in Nat
  OBVIOUS

LEMMA SizeNext == ASSUME TypeOK' PROVE Size' \in Nat
<1>1. base' \in Nat /\ written' \in Nat /\ torn' \in Nat /\ base' <= written'
  BY DispatcherAssumption DEF TypeOK
<1>2. 2 * (written' - base') + torn' \in Nat
  BY <1>1, SizeOf
<1>3. QED  BY <1>2 DEF Size

\* The shape of most steps: nothing new is taken, the cursor stays, the log only grows.
LEMMA QuietAlone ==
    ASSUME TypeOK, TypeOK', NEW w \in Workers, AloneFor(w),
           UNCHANGED <<cursor, base, reachVars>>, Size <= Size', NoMore(w),
           pc'[w] = "first" => cursor = NoCursor,
           pc'[w] = "reset" => size'[w] < cursor,
           pc'[w] \in {"sized", "reset"} /\ cursor <= Size =>
               cursor <= size'[w] \/ (pc[w] \in {"sized", "reset"} /\ size'[w] = size[w]),
           pc'[w] = "claim" => pc[w] = "claim" /\ Same(w)
    PROVE  AloneFor(w)'
<1>0. cursor \in Int /\ Size \in Nat /\ Size' \in Nat /\ top[w] \in Nat
  BY SizeNext, AloneNumbers
<1>1. \A a \in Alert, c \in Channels : /\ TakenBy(w, a, c)' => TakenBy(w, a, c)
                                      /\ Fits(a, c)' /\ Pending(w, a, c)'
  <2> SUFFICES ASSUME NEW a \in Alert, NEW c \in Channels
               PROVE  /\ TakenBy(w, a, c)' => TakenBy(w, a, c)
                      /\ Fits(a, c)' /\ Pending(w, a, c)'
    OBVIOUS
  <2>1. Fits(a, c) /\ Pending(w, a, c)
    BY DEF AloneFor
  <2>2. Pending(w, a, c)' /\ (ToSend(w, a, c)' => ToSend(w, a, c))
    BY <2>1, PendingKept
  <2>3. QED  BY <2>1, <2>2 DEF TakenBy, Reached, Fits, reachVars
<1>2. Behind(w)'
  <2> SUFFICES ASSUME NEW a \in Alert, NEW c \in Channels, TakenBy(w, a, c), ~(a <= base)
               PROVE  /\ 2 * (a - base) <= cursor /\ cursor <= Size'
                      /\ pc'[w] \in {"sized", "reset"} => cursor <= size'[w]
    BY <1>1 DEF Behind
  <2>1. /\ 2 * (a - base) <= cursor /\ cursor <= Size
        /\ pc[w] \in {"sized", "reset"} => cursor <= size[w]
    BY DEF AloneFor, Behind
  <2>2. cursor <= Size'
    BY <1>0, <2>1
  <2>3. QED  BY <2>1, <2>2
<1>3. NextClaim(w)'
  <2> SUFFICES ASSUME pc'[w] = "claim"
               PROVE  /\ pos'[w] = cursor
                      /\ \A a \in Alert, c \in Channels : TakenBy(w, a, c)' => a < next'[w]
                      /\ \/ 2 * (last'[w] - base) <= top'[w] /\ top'[w] <= Size' /\ pos'[w] < top'[w]
                         \/ /\ last'[w] <= base
                            /\ \A a \in Alert, c \in Channels : TakenBy(w, a, c)' => a <= base
    BY DEF NextClaim
  <2>1. /\ pos[w] = cursor
        /\ \A a \in Alert, c \in Channels : TakenBy(w, a, c) => a < next[w]
        /\ \/ 2 * (last[w] - base) <= top[w] /\ top[w] <= Size /\ pos[w] < top[w]
           \/ last[w] <= base /\ \A a \in Alert, c \in Channels : TakenBy(w, a, c) => a <= base
    BY DEF AloneFor, NextClaim
  <2>2. top[w] <= Size => top[w] <= Size'
    BY <1>0
  <2>3. QED  BY <1>1, <2>1, <2>2 DEF Same
<1>4. QED  BY <1>1, <1>2, <1>3 DEF AloneFor

\* ReadCursor: the cursor is at, or behind, the end that was read, unless the log was
\* truncated since it was set.
LEMMA ReadAlone ==
    ASSUME TypeOK, TypeOK', NEW w \in Workers, AloneFor(w), ReadCursor(w)
    PROVE  AloneFor(w)'
<1>0. /\ cursor \in Int /\ base \in Nat /\ Size \in Nat /\ size[w] \in Nat
      /\ \A a \in Alert : a \in Nat
      /\ pc \in [Workers -> {"boot", "first", "idle", "sized", "reset", "claim", "route", "send"}]
  BY AloneNumbers
<1>1. /\ UNCHANGED <<cursor, base, reachVars, chans, written, torn>> /\ Size' = Size
      /\ pc[w] = "sized"
      /\ pc'[w] \in {"reset", "idle", "claim"}
  BY <1>0 DEF ReadCursor, ReadChunk, NothingNew, Goto, logVars, sendVars, Size
<1>2. \A a, c : ~ToSend(w, a, c)'
  BY <1>1 DEF ToSend
<1>3. CASE pc'[w] # "claim"
  <2>1. pc'[w] = "reset" => size[w] < cursor /\ size'[w] = size[w]
    BY <1>0 DEF ReadCursor, ReadChunk, NothingNew, Goto, readVars
  <2>2. QED  BY <1>0, <1>1, <1>3, <2>1, OutOfBatch, QuietAlone
<1>4. CASE pc'[w] = "claim"
  <2>1. ReadChunk(w, LinesEnd(w)) /\ LinesEnd(w) > cursor
    BY <1>0, <1>4 DEF ReadCursor, NothingNew, Goto
  <2>2. /\ pos'[w] = cursor /\ top'[w] = LinesEnd(w)
        /\ next'[w] = base + (cursor + 1) \div 2 + 1
        /\ last'[w] = base + LinesEnd(w) \div 2
    BY <2>1 DEF ReadChunk, TypeOK
  <2>3. \A a \in Alert, c \in Channels : /\ TakenBy(w, a, c)' => TakenBy(w, a, c)
                                        /\ Fits(a, c)' /\ Pending(w, a, c)'
    BY <1>1, <1>2 DEF TakenBy, Reached, Pending, Fits, AloneFor, reachVars
  <2>4. ASSUME NEW a \in Alert, NEW c \in Channels, TakenBy(w, a, c) PROVE a < next'[w]
    <3>1. a <= base \/ 2 * (a - base) <= cursor
      BY <2>4 DEF AloneFor, Behind
    <3>2. cursor + 1 \in Nat
      BY <1>0 DEF TypeOK, NoCursor
    <3> DEFINE h == (cursor + 1) \div 2
    <3>3. h \in Nat /\ cursor + 1 <= 2 * h + 1
      BY <3>2, Halves
    <3>4. next'[w] = base + h + 1
      BY <2>2
    <3> HIDE DEF h
    <3>5. a <= base + h
      BY <1>0, <3>1, <3>3
    <3>6. QED  BY <1>0, <3>3, <3>4, <3>5
  <2>5. /\ 2 * (last'[w] - base) <= top'[w] /\ top'[w] <= Size /\ pos'[w] < top'[w]
    <3> DEFINE l == LinesEnd(w) \div 2
               m == Less(size[w], Size)
    <3>1. m \in Nat /\ m <= Size /\ LinesEnd(w) = 2 * (m \div 2)
      BY <1>0 DEF Less, LinesEnd
    <3>2. m \div 2 \in Nat /\ 2 * (m \div 2) <= m
      BY <3>1, Halves
    <3>3. l = m \div 2 /\ last'[w] = base + l
      BY <2>2, <3>1, <3>2
    <3> HIDE DEF l, m
    <3>4. LinesEnd(w) \in Nat /\ LinesEnd(w) <= Size
      BY <1>0, <3>1, <3>2
    <3>5. QED  BY <1>0, <2>1, <2>2, <3>1, <3>2, <3>3, <3>4
  <2>6. NextClaim(w)'
    BY <1>1, <2>2, <2>3, <2>4, <2>5 DEF NextClaim
  <2>7. Behind(w)'
    BY <1>1, <1>4, <2>3 DEF AloneFor, Behind
  <2>8. QED  BY <1>1, <1>2, <1>4, <2>3, <2>6, <2>7 DEF AloneFor
<1>5. QED  BY <1>3, <1>4

\* Claim: the cursor is where it was read, and the batch is new.
LEMMA ClaimAlone ==
    ASSUME TypeOK, TypeOK', AtWork, NEW w \in Workers, AloneFor(w), Claim(w)
    PROVE  AloneFor(w)'
<1>0. /\ cursor \in Int /\ base \in Nat /\ Size \in Nat /\ top[w] \in Nat /\ pos[w] \in Nat
      /\ next[w] \in Nat /\ last[w] \in Nat /\ \A a \in Alert : a \in Nat
      /\ pc \in [Workers -> {"boot", "first", "idle", "sized", "reset", "claim", "route", "send"}]
  BY AloneNumbers
<1>1. pc[w] = "claim" /\ chans[w] = {} /\ pos[w] = cursor
  BY DEF Claim, AtWork, AloneFor, NextClaim
<1>2. /\ UNCHANGED <<base, reachVars, chans>> /\ Size' = Size /\ cursor' = top[w] /\ pc'[w] = "route"
      /\ next'[w] = next[w] /\ last'[w] = last[w]
  BY <1>0, <1>1 DEF Claim, Claimed, Goto, logVars, sendVars, batchVars, Size
<1>3. \A a, c : ToSend(w, a, c)' <=> a \in next[w] .. last[w]
  BY <1>1, <1>2 DEF ToSend, At
<1>4. /\ \A a \in Alert, c \in Channels : TakenBy(w, a, c) => a < next[w]
      /\ \/ 2 * (last[w] - base) <= top[w] /\ top[w] <= Size /\ pos[w] < top[w]
         \/ last[w] <= base /\ \A a \in Alert, c \in Channels : TakenBy(w, a, c) => a <= base
  BY <1>1 DEF AloneFor, NextClaim
<1>5. ASSUME NEW a \in Alert, NEW c \in Channels
      PROVE  Fits(a, c)' /\ Pending(w, a, c)'
  <2>1. sent[a][c] \in Nat /\ unsure[a][c] \in Nat /\ Fits(a, c)
    BY DEF TypeOK, AloneFor
  <2>2. ASSUME a \in next[w] .. last[w] PROVE sent[a][c] = 0 /\ unsure[a][c] = 0
    <3>1. ~(a < next[w])
      BY <1>0, <2>2
    <3>2. ~Reached(a, c)
      BY <1>4, <3>1 DEF TakenBy
    <3>3. QED  BY <2>1, <3>2 DEF Reached
  <2>3. Tried(w, a, c)' = 0 /\ sent' = sent /\ unsure' = unsure
    BY <1>2 DEF Tried, reachVars
  <2>4. QED  BY <1>3, <2>1, <2>2, <2>3 DEF Fits, Pending
<1>6. ASSUME NEW a \in Alert, NEW c \in Channels, TakenBy(w, a, c)', ~(a <= base)
      PROVE  2 * (a - base) <= top[w] /\ top[w] <= Size
  <2>1. CASE a \in next[w] .. last[w]
    BY <1>0, <1>4, <1>6, <2>1
  <2>2. CASE a \notin next[w] .. last[w]
    <3>1. TakenBy(w, a, c)
      BY <1>2, <1>3, <1>6, <2>2 DEF TakenBy, Reached, reachVars
    <3>2. 2 * (a - base) <= cursor
      BY <1>6, <3>1 DEF AloneFor, Behind
    <3>3. QED  BY <1>0, <1>1, <1>4, <1>6, <3>1, <3>2
  <2>3. QED  BY <2>1, <2>2
<1>7. Behind(w)'
  BY <1>2, <1>6 DEF Behind
<1>8. cursor' # NoCursor
  BY <1>0, <1>2 DEF NoCursor
<1>9. QED  BY <1>2, <1>5, <1>7, <1>8 DEF AloneFor, NextClaim

\* Truncation: all that was taken goes with the log.
LEMMA ShrinkAlone ==
    ASSUME TypeOK, TypeOK', NEW w \in Workers, AloneFor(w), Shrink
    PROVE  AloneFor(w)'
<1>0. /\ cursor \in Int /\ base \in Nat /\ written \in Nat /\ base <= written
      /\ last[w] \in Nat /\ top[w] \in Nat /\ \A a \in Alert : a \in Nat
  BY AloneNumbers
<1>1. /\ UNCHANGED <<written, cursor, pc, readVars, batchVars, sendVars, reachVars>>
      /\ base' = written /\ Size = 2 * (written - base)
  BY <1>0 DEF Shrink, Size
<1>2. \A a, c : /\ ToSend(w, a, c)' <=> ToSend(w, a, c)
                /\ TakenBy(w, a, c)' <=> TakenBy(w, a, c)
                /\ Fits(a, c)' <=> Fits(a, c)
                /\ Pending(w, a, c)' <=> Pending(w, a, c)
  BY <1>1 DEF TakenBy, Reached, Fits, Pending, ToSend, Tried, At, batchVars, sendVars, reachVars
<1>3. ASSUME NEW a \in Alert, NEW c \in Channels, TakenBy(w, a, c) PROVE a <= written
  <2>1. a <= base \/ (2 * (a - base) <= cursor /\ cursor <= Size)
    BY <1>3 DEF AloneFor, Behind
  <2>2. QED  BY <1>0, <1>1, <2>1
<1>4. Behind(w)'
  BY <1>1, <1>2, <1>3 DEF Behind
<1>5. NextClaim(w)'
  <2> SUFFICES ASSUME pc[w] = "claim"
               PROVE  /\ pos[w] = cursor
                      /\ \A a \in Alert, c \in Channels : TakenBy(w, a, c) => a < next[w]
                      /\ last[w] <= written
    BY <1>1, <1>2, <1>3 DEF NextClaim, readVars, batchVars
  <2>1. /\ pos[w] = cursor
        /\ \A a \in Alert, c \in Channels : TakenBy(w, a, c) => a < next[w]
        /\ (2 * (last[w] - base) <= top[w] /\ top[w] <= Size) \/ last[w] <= base
    BY DEF AloneFor, NextClaim
  <2>2. last[w] <= written
    BY <1>0, <1>1, <2>1
  <2>3. QED  BY <2>1, <2>2
<1>6. QED  BY <1>1, <1>2, <1>4, <1>5 DEF AloneFor, readVars

\* The end of an attempt: what came was to be delivered.
LEMMA AttemptAlone ==
    ASSUME TypeOK, TypeOK', AtWork, NEW w \in Workers, AloneFor(w),
           SendOk(w) \/ SendFails(w) \/ SentButFailed(w)
    PROVE  AloneFor(w)'
<1>1. /\ UNCHANGED <<cursor, base, written, torn>> /\ pc'[w] \in {"route", "send"}
  BY AttemptEnds DEF Attempted
<1>2. \A a \in Alert, c \in Channels : Fits(a, c) /\ Pending(w, a, c)
  BY DEF AloneFor
<1>3. \A a \in Alert, c \in Channels :
          /\ Fits(a, c)' /\ Pending(w, a, c)'
          /\ ToSend(w, a, c)' => ToSend(w, a, c)
          /\ Reached(a, c)' => Reached(a, c) \/ ToSend(w, a, c)
  BY <1>2, AttemptKeeps
<1>4. \A a \in Alert, c \in Channels : TakenBy(w, a, c)' => TakenBy(w, a, c)
  BY <1>3 DEF TakenBy
<1>5. Size' = Size
  BY <1>1 DEF Size
<1>6. Behind(w)'
  BY <1>1, <1>4, <1>5 DEF AloneFor, Behind
<1>7. QED  BY <1>1, <1>3, <1>4, <1>6 DEF AloneFor, NextClaim

LEMMA WorkerAlone ==
    ASSUME TypeOK, TypeOK', AtWork, NEW w \in Workers, AloneFor(w), WorkerStep(w)
    PROVE  AloneFor(w)'
<1>0. /\ cursor \in Int /\ base \in Nat /\ Size \in Nat /\ size[w] \in Nat /\ next[w] \in Nat
      /\ last[w] \in Nat
      /\ pc \in [Workers -> {"boot", "first", "idle", "sized", "reset", "claim", "route", "send"}]
  BY AloneNumbers DEF TypeOK
\* Outside a batch w has nothing to deliver, before and after.
<1>1. ASSUME UNCHANGED <<cursor, base, written, torn, reachVars>>,
             pc'[w] \in {"boot", "idle", "first"}, pc'[w] = "first" => cursor = NoCursor
      PROVE  AloneFor(w)'
  <2>1. Size' = Size
    BY <1>1 DEF Size
  <2>2. QED  BY <1>0, <1>1, <2>1, OutOfBatch, QuietAlone
<1>2. CASE Boot(w)
  BY <1>0, <1>1, <1>2 DEF Boot, Goto, logVars
\* A cursor that FirstBoot or Reset sets passes over nothing that was taken and is
\* still in the log.
<1>3. ASSUME UNCHANGED <<base, reachVars>>, cursor' = size[w], pc'[w] = "idle",
             \A a \in Alert, c \in Channels : TakenBy(w, a, c) => a <= base
      PROVE  AloneFor(w)'
  <2>1. \A a, c : ~ToSend(w, a, c)'
    BY <1>3 DEF ToSend
  <2>2. \A a \in Alert, c \in Channels : /\ TakenBy(w, a, c)' => TakenBy(w, a, c)
                                        /\ Fits(a, c)' /\ Pending(w, a, c)'
    BY <1>3, <2>1 DEF TakenBy, Reached, Fits, Pending, AloneFor, reachVars
  <2>3. cursor' # NoCursor
    BY <1>0, <1>3 DEF NoCursor
  <2>4. QED  BY <1>3, <2>1, <2>2, <2>3 DEF AloneFor, Behind, NextClaim
<1>4. CASE FirstBoot(w)
  <2>1. \A a \in Alert, c \in Channels : ~TakenBy(w, a, c)
    BY <1>4 DEF FirstBoot, AloneFor
  <2>2. UNCHANGED <<base, reachVars>> /\ cursor' = size[w] /\ pc'[w] = "idle"
    BY <1>0, <1>4 DEF FirstBoot, MoveCursor, Goto, logVars
  <2>3. QED  BY <1>3, <2>1, <2>2
<1>5. CASE Reset(w)
  <2>1. pc[w] = "reset" /\ size[w] < cursor
    BY <1>5 DEF Reset, AloneFor
  <2>2. \A a \in Alert, c \in Channels : TakenBy(w, a, c) => a <= base
    BY <1>0, <2>1 DEF AloneFor, Behind
  <2>3. UNCHANGED <<base, reachVars>> /\ cursor' = size[w] /\ pc'[w] = "idle"
    BY <1>0, <1>5 DEF Reset, MoveCursor, Goto, logVars
  <2>4. QED  BY <1>3, <2>2, <2>3
<1>6. CASE Stat(w)
  <2>1. UNCHANGED <<cursor, base, written, torn, reachVars>> /\ pc'[w] = "sized" /\ size'[w] = Size
    BY <1>0, <1>6 DEF Stat, Goto, logVars, TypeOK
  <2>2. Size' = Size
    BY <2>1 DEF Size
  <2>3. QED  BY <1>0, <2>1, <2>2, OutOfBatch, QuietAlone
<1>7. CASE ReadCursor(w) \/ Claim(w)
  BY <1>7, ReadAlone, ClaimAlone
<1>8. CASE SendOk(w) \/ SendFails(w) \/ SentButFailed(w)
  BY <1>8, AttemptAlone
\* Within a batch the rest of it only gets smaller.
<1>9. ASSUME UNCHANGED <<cursor, base, written, torn, reachVars>>, pc[w] = "route",
             pc'[w] \in {"route", "send"}, pc'[w] = "send" => attempt'[w] = 1,
             \A a, c : ToSend(w, a, c)' => ToSend(w, a, c)
      PROVE  AloneFor(w)'
  <2>1. Size' = Size
    BY <1>9 DEF Size
  <2>2. QED  BY <1>0, <1>9, <2>1, NotYetTried, QuietAlone
<1>10. CASE Route(w)
  <2>1. UNCHANGED <<cursor, base, written, torn, reachVars, last>>
        /\ pc[w] = "route" /\ pc'[w] = "route"
    BY <1>10 DEF Route, Idle, logVars
  <2>2. next[w] <= last[w] /\ next'[w] = next[w] + 1
    BY <1>10 DEF Route, TypeOK
  <2>3. \A a : a \in next'[w] .. last'[w] \/ a = next'[w] - 1 => a \in next[w] .. last[w]
    BY <1>0, <2>1, <2>2
  <2>4. \A a, c : ToSend(w, a, c)' => ToSend(w, a, c)
    BY <2>1, <2>3 DEF ToSend, At
  <2>5. QED  BY <1>9, <2>1, <2>4
<1>11. CASE RouteDone(w)
  BY <1>0, <1>1, <1>11 DEF RouteDone, Goto, logVars
<1>12. ASSUME NEW c \in Channels, Mute(w, c) \/ Begin(w, c) PROVE AloneFor(w)'
  <2>1. /\ UNCHANGED <<cursor, base, written, torn, reachVars, batchVars>>
        /\ pc[w] = "route" /\ pc'[w] \in {"route", "send"} /\ chans'[w] \subseteq chans[w]
        /\ pc'[w] = "send" => attempt'[w] = 1
    BY <1>0, <1>12 DEF Mute, Begin, Goto, logVars, TypeOK
  <2>2. \A a, d : ToSend(w, a, d)' => ToSend(w, a, d)
    BY <2>1 DEF ToSend, At, batchVars
  <2>3. QED  BY <1>9, <2>1, <2>2
<1>14. QED
  BY <1>2, <1>4, <1>5, <1>6, <1>7, <1>8, <1>10, <1>11, <1>12 DEF WorkerStep

LEMMA AloneStep == TypeOK /\ TypeOK' /\ AtWork /\ AloneInv /\ [Next]_vars => AloneInv'
<1> SUFFICES ASSUME TypeOK, TypeOK', AtWork, AloneInv, [Next]_vars PROVE AloneInv'
  OBVIOUS
<1>1. Absent'
  BY AbsentStep DEF AloneInv
<1>2. ASSUME NEW w \in Workers, Sole(w)' PROVE AloneFor(w)'
  <2>0. /\ cursor \in Int /\ base \in Nat /\ written \in Nat /\ Size \in Nat
        /\ pc \in [Workers -> {"boot", "first", "idle", "sized", "reset", "claim", "route", "send"}]
    BY AloneNumbers
  <2>1. Sole(w) /\ (\/ BeginLine \/ EndLine \/ Shrink \/ UNCHANGED vars
                    \/ WorkerStep(w) \/ Abort(w) \/ Restart(w)
                    \/ \E c \in Channels, k \in Kinds : WindowOver(w, c, k))
    BY <1>2, StepIsOwn DEF AloneInv
  <2>2. AloneFor(w)
    BY <2>1 DEF AloneInv
  <2>3. ASSUME UNCHANGED <<cursor, base, reachVars, pc, readVars, batchVars, sendVars>>,
               Size <= Size'
        PROVE  AloneFor(w)'
    <3>1. NoMore(w)
      BY <2>3, StandsStill DEF Still, Same, readVars, batchVars, sendVars
    <3>2. /\ pc'[w] = "first" => cursor = NoCursor
          /\ pc'[w] = "reset" => size'[w] < cursor
      BY <2>2, <2>3 DEF AloneFor, readVars
    <3>3. Same(w) /\ size' = size
      BY <2>3 DEF Same, readVars, batchVars
    <3>4. QED  BY <2>2, <2>3, <3>1, <3>2, <3>3, QuietAlone
  <2>4. CASE BeginLine \/ EndLine
    <3>1. Size <= Size'
      BY <2>0, <2>4 DEF BeginLine, EndLine, Size
    <3>2. QED  BY <2>3, <2>4, <3>1 DEF BeginLine, EndLine
  <2>5. CASE UNCHANGED vars \/ \E c \in Channels, k \in Kinds : WindowOver(w, c, k)
    <3>1. UNCHANGED <<logVars, cursor, reachVars, pc, readVars, batchVars, sendVars>>
      BY <2>5 DEF vars, WindowOver
    <3>2. Size <= Size'
      BY <2>0, <3>1 DEF logVars, Size
    <3>3. QED  BY <2>3, <3>1, <3>2 DEF logVars
  <2>6. CASE Shrink
    BY <2>2, <2>6, ShrinkAlone
  <2>7. CASE WorkerStep(w)
    BY <2>2, <2>7, WorkerAlone
  <2>8. CASE Abort(w) \/ Restart(w)
    <3>1. UNCHANGED <<logVars, cursor, reachVars>> /\ pc'[w] \in {"idle", "boot"}
      BY <2>0, <2>8 DEF Abort, Restart, Goto
    <3>2. NoMore(w)
      BY <3>1, OutOfBatch
    <3>3. Size <= Size'
      BY <2>0, <3>1 DEF logVars, Size
    <3>4. QED  BY <2>2, <3>1, <3>2, <3>3, QuietAlone DEF logVars
  <2>9. QED  BY <2>1, <2>4, <2>5, <2>6, <2>7, <2>8
<1>3. QED  BY <1>1, <1>2 DEF AloneInv

LEMMA AloneIsOnce == TypeOK /\ AloneInv => (Cardinality(booted) <= 1 => Once)
<1> SUFFICES ASSUME TypeOK, AloneInv, Cardinality(booted) <= 1,
                    NEW a \in Alert, NEW c \in Channels
             PROVE  Fits(a, c)
  BY DEF Once, Fits
<1>1. CASE booted = {}
  BY <1>1, DispatcherAssumption DEF AloneInv, Absent, Fits
<1>2. CASE booted # {}
  <2>1. PICK w \in booted : TRUE
    BY <1>2
  <2>2. booted \subseteq {w}
    <3>1. IsFiniteSet(booted) /\ Cardinality(booted) \in Nat
      BY FS_CardinalityType DEF AloneInv, Absent
    <3>2. IsFiniteSet(booted \ {w}) /\ Cardinality(booted \ {w}) = Cardinality(booted) - 1
      BY <2>1, <3>1, FS_RemoveElement
    <3>3. Cardinality(booted \ {w}) \in Nat
      BY <3>2, FS_CardinalityType
    <3>4. Cardinality(booted \ {w}) = 0
      BY <3>1, <3>2, <3>3
    <3>5. booted \ {w} = {}
      BY <3>2, <3>4, FS_EmptySet
    <3>6. QED  BY <3>5
  <2>3. w \in Workers
    BY DEF TypeOK
  <2>4. QED  BY <2>2, <2>3 DEF AloneInv, Sole, AloneFor
<1>3. QED  BY <1>1, <1>2

-----------------------------------------------------------------------------
(***************************************************************************)
(* Nothing is skipped.                                                     *)
(***************************************************************************)
Whole == failures = 0 /\ shrinks = 0

Covered(a) == a \in routed \/ \E w \in Workers : InBatch(w, a)

\* A cursor at p would leave nothing behind.  An alert p lies within counts as passed:
\* the next chunk begins after it.
CoveredTo(p) == \A a \in Alert : start < a /\ 2 * a <= p + 1 => Covered(a)

\* Beyond the cursor as it is, a reset that is due moves it to a place that was passed
\* before, and a claim that is due takes all there is between its two ends.
Followed ==
    /\ base = 0 /\ CoveredTo(cursor)
    /\ \A w \in Workers : pc[w] = "reset" => CoveredTo(size[w])
    /\ \A w \in Workers : pc[w] = "claim" => /\ 2 * (next[w] - 1) <= pos[w] + 1
                                             /\ top[w] = 2 * last[w]

\* While nothing fails, what is covered stays so: an alert leaves a batch by being routed.
LEMMA CoverGrows ==
    ASSUME TypeOK, TypeOK', [Next]_vars, Whole'
    PROVE  start <= start' /\ \A a \in Alert : Covered(a) => Covered(a)'
<1>0. start \in Nat /\ failures \in Nat /\ next \in [Workers -> Nat] /\ last \in [Workers -> Nat]
      /\ pc \in [Workers -> {"boot", "first", "idle", "sized", "reset", "claim", "route", "send"}]
      /\ \A a \in Alert : a \in Nat
  BY Numbers DEF TypeOK
<1> DEFINE Done == start <= start' /\ \A a \in Alert : Covered(a) => Covered(a)'
           Others(w) == \A v \in Workers \ {w} : pc'[v] = pc[v] /\ next'[v] = next[v] /\ last'[v] = last[v]
<1>1. ASSUME UNCHANGED <<start, routed, batchVars>>,
             \A w \in Workers : pc[w] \in {"route", "send"} => pc'[w] \in {"route", "send"}
      PROVE  Done
  <2>1. \A w \in Workers : \A a : InBatch(w, a) => InBatch(w, a)'
    BY <1>1 DEF InBatch, batchVars
  <2>2. QED  BY <1>0, <1>1, <2>1 DEF Covered
<1>2. ASSUME NEW w \in Workers, pc[w] \notin {"route", "send"}, UNCHANGED routed,
             start <= start', Others(w)
      PROVE  Done
  <2>1. \A v \in Workers : \A a : InBatch(v, a) => InBatch(v, a)'
    BY <1>2 DEF InBatch
  <2>2. QED  BY <1>2, <2>1 DEF Covered
<1>3. ASSUME NEW w \in Workers, Boot(w) \/ Stat(w) \/ ReadCursor(w) \/ Reset(w) \/ Claim(w)
      PROVE  Done
  <2>1. pc[w] \notin {"route", "send"} /\ UNCHANGED <<routed, start>> /\ Others(w)
    BY <1>0, <1>3 DEF Boot, Stat, ReadCursor, ReadChunk, NothingNew, Reset, Claim, Claimed, LostRace,
                      Goto, DropBatch, batchVars, histVars
  <2>2. QED  BY <1>0, <1>2, <2>1
<1>4. ASSUME NEW w \in Workers, FirstBoot(w) PROVE Done
  <2>1. pc[w] \notin {"route", "send"} /\ UNCHANGED routed /\ Others(w)
        /\ start' = More(start, base + (size[w] + 1) \div 2)
    BY <1>0, <1>4 DEF FirstBoot, Goto, batchVars
  <2>2. start <= start'
    BY <1>0, <2>1, Numbers, Halves DEF More, TypeOK
  <2>3. QED  BY <1>2, <2>1, <2>2
<1>5. ASSUME NEW w \in Workers, Route(w) PROVE Done
  <2>1. UNCHANGED <<pc, last, start>> /\ routed' = routed \cup {next[w]}
        /\ next' = [next EXCEPT ![w] = next[w] + 1]
    BY <1>5 DEF Route
  <2>2. ASSUME NEW a \in Alert, NEW v \in Workers, InBatch(v, a) PROVE a \in routed' \/ InBatch(v, a)'
    <3>1. CASE v # w
      BY <1>0, <2>1, <2>2, <3>1 DEF InBatch
    <3>2. CASE v = w /\ a # next[w]
      BY <1>0, <2>1, <2>2, <3>2 DEF InBatch
    <3>3. QED  BY <2>1, <3>1, <3>2
  <2>3. QED  BY <1>0, <2>1, <2>2 DEF Covered
<1>6. ASSUME NEW w \in Workers, RouteDone(w) PROVE Done
  <2>1. Others(w) /\ UNCHANGED <<routed, start>> /\ next[w] > last[w]
    BY <1>0, <1>6 DEF RouteDone, Goto, DropBatch, histVars
  <2>2. \A a \in Alert : ~InBatch(w, a)
    BY <1>0, <2>1 DEF InBatch
  <2>3. \A v \in Workers \ {w} : \A a : InBatch(v, a) => InBatch(v, a)'
    BY <2>1 DEF InBatch
  <2>4. QED  BY <1>0, <2>1, <2>2, <2>3 DEF Covered
<1>7. ASSUME NEW w \in Workers, NEW c \in Channels, Mute(w, c) \/ Begin(w, c) PROVE Done
  BY <1>0, <1>1, <1>7 DEF Mute, Begin, Goto, histVars
<1>8. ASSUME NEW w \in Workers, SendOk(w) \/ SendFails(w) \/ SentButFailed(w) PROVE Done
  <2>1. UNCHANGED <<start, routed, batchVars>> /\ (ChannelDone(w) \/ Again(w))
    BY <1>8 DEF SendOk, SendFails, SentButFailed, AttemptFailed, histVars
  <2>2. QED  BY <1>0, <1>1, <2>1 DEF ChannelDone, Again, Goto
<1>9. ASSUME NEW w \in Workers, Abort(w) \/ Restart(w) PROVE FALSE
  BY <1>0, <1>9 DEF Abort, Restart, Whole
<1>10. CASE BeginLine \/ EndLine \/ Shrink \/ UNCHANGED vars
  BY <1>1, <1>10 DEF BeginLine, EndLine, Shrink, vars, histVars
<1>11. ASSUME NEW w \in Workers, NEW c \in Channels, NEW k \in Kinds, WindowOver(w, c, k)
       PROVE  Done
  BY <1>1, <1>11 DEF WindowOver, histVars
<1>12. QED
  BY <1>3, <1>4, <1>5, <1>6, <1>7, <1>8, <1>9, <1>10, <1>11 DEF Next, WorkerStep

\* ReadCursor: the chunk begins where the cursor is, or an earlier place is looked back to.
LEMMA ReadFollows ==
    ASSUME TypeOK, TypeOK', Followed, CoveredTo(cursor)', NEW w \in Workers, ReadCursor(w),
           \A a \in Alert : Covered(a) => Covered(a)'
    PROVE  Followed'
<1>0. cursor \in Int /\ (pc[w] = "sized" => size[w] \in Nat)
      /\ pc \in [Workers -> {"boot", "first", "idle", "sized", "reset", "claim", "route", "send"}]
      /\ \A a \in Alert : a \in Nat
  BY Numbers DEF TypeOK
<1>1. base' = base /\ cursor' = cursor /\ start' = start /\ pc[w] = "sized"
  BY DEF ReadCursor, logVars, histVars
<1>2. \A v \in Workers \ {w} : pc'[v] = pc[v] /\ size'[v] = size[v] /\ Same(v)
  BY DEF ReadCursor, ReadChunk, NothingNew, Goto, Forget, readVars, batchVars, Same, TypeOK
<1>3. ASSUME pc'[w] = "reset" PROVE CoveredTo(size[w])' /\ size' = size
  <2>1. size[w] < cursor /\ size' = size
    BY <1>0, <1>3 DEF ReadCursor, ReadChunk, NothingNew, Goto, readVars
  <2>2. \A a \in Alert : 2 * a <= size[w] + 1 => 2 * a <= cursor + 1
    BY <1>0, <1>1, <2>1
  <2>3. QED  BY <1>1, <2>1, <2>2 DEF CoveredTo
<1>4. ASSUME pc'[w] = "claim"
      PROVE  2 * (next'[w] - 1) <= pos'[w] + 1 /\ top'[w] = 2 * last'[w]
  <2>1. ReadChunk(w, LinesEnd(w)) /\ LinesEnd(w) > cursor
    BY <1>0, <1>4 DEF ReadCursor, NothingNew, Goto
  <2>2. /\ pos'[w] = cursor /\ top'[w] = LinesEnd(w)
        /\ next'[w] = base + (cursor + 1) \div 2 + 1
        /\ last'[w] = base + LinesEnd(w) \div 2
    BY <2>1 DEF ReadChunk, TypeOK
  <2>3. base = 0 /\ cursor + 1 \in Nat
    BY <1>0 DEF Followed, TypeOK, NoCursor
  <2> DEFINE h == (cursor + 1) \div 2
             l == Less(size[w], Size) \div 2
  <2>4. h \in Nat /\ 2 * h <= cursor + 1
    BY <2>3, Halves
  <2>5. l \in Nat /\ LinesEnd(w) = 2 * l
    <3>1. Less(size[w], Size) \in Nat
      BY <1>0, <1>1, SizeType DEF Less
    <3>2. QED  BY <3>1, Halves DEF LinesEnd
  <2>6. next'[w] = h + 1
    BY <2>2, <2>3, <2>4
  <2> HIDE DEF h, l
  <2>7. LinesEnd(w) \div 2 = l
    BY <2>5
  <2>8. QED  BY <2>2, <2>3, <2>4, <2>5, <2>6, <2>7
<1>5. ASSUME NEW v \in Workers \ {w}, pc'[v] = "reset" PROVE CoveredTo(size[v])'
  <2>1. CoveredTo(size[v]) /\ size'[v] = size[v]
    BY <1>2, <1>5 DEF Followed
  <2>2. QED  BY <1>1, <2>1 DEF CoveredTo
<1>6. \A v \in Workers \ {w} : pc'[v] = "claim" => /\ 2 * (next'[v] - 1) <= pos'[v] + 1
                                                   /\ top'[v] = 2 * last'[v]
  BY <1>2 DEF Followed, Same
<1>7. QED  BY <1>1, <1>3, <1>4, <1>5, <1>6 DEF Followed

LEMMA QuietFollows ==
    ASSUME TypeOK, TypeOK', Followed, CoveredTo(cursor)', base' = base, start <= start',
           \A a \in Alert : Covered(a) => Covered(a)',
           \A w \in Workers : pc'[w] = "reset" => pc[w] = "reset" /\ size'[w] = size[w],
           \A w \in Workers : pc'[w] = "claim" => pc[w] = "claim" /\ Same(w)
    PROVE  Followed'
<1>0. start \in Nat /\ start' \in Nat /\ \A a \in Alert : a \in Nat
  BY Numbers DEF TypeOK
<1>1. ASSUME NEW w \in Workers, pc'[w] = "reset" PROVE CoveredTo(size[w])'
  <2>1. CoveredTo(size[w]) /\ size'[w] = size[w]
    BY <1>1 DEF Followed
  <2>2. QED  BY <1>0, <2>1 DEF CoveredTo
<1>2. \A w \in Workers : pc'[w] = "claim" => /\ 2 * (next'[w] - 1) <= pos'[w] + 1
                                             /\ top'[w] = 2 * last'[w]
  BY DEF Followed, Same
<1>3. QED  BY <1>1, <1>2 DEF Followed

\* Claim: what is between the old end and the new one is in the batch.
LEMMA ClaimCovers ==
    ASSUME TypeOK, TypeOK', Followed, NEW w \in Workers, Claim(w), cursor = pos[w],
           \A a \in Alert : Covered(a) => Covered(a)'
    PROVE  CoveredTo(cursor)'
<1>1. /\ next[w] \in Nat /\ last[w] \in Nat /\ pos[w] \in Nat /\ top[w] \in Nat
      /\ pc \in [Workers -> {"boot", "first", "idle", "sized", "reset", "claim", "route", "send"}]
      /\ \A a \in Alert : a \in Nat
  BY Numbers DEF TypeOK
<1>2. /\ cursor' = top[w] /\ pc'[w] = "route" /\ next' = next /\ last' = last /\ start' = start
      /\ pc[w] = "claim"
  BY <1>1 DEF Claim, Claimed, Goto, batchVars, histVars
<1>3. 2 * (next[w] - 1) <= pos[w] + 1 /\ top[w] = 2 * last[w] /\ CoveredTo(pos[w])
  BY <1>2 DEF Followed
<1>4. SUFFICES ASSUME NEW a \in Alert, start < a, 2 * a <= top[w] + 1 PROVE Covered(a)'
  BY <1>2 DEF CoveredTo
<1>5. a \in Nat /\ a <= last[w]
  BY <1>1, <1>3, <1>4
<1>6. CASE next[w] <= a
  <2>1. InBatch(w, a)'
    BY <1>1, <1>2, <1>5, <1>6 DEF InBatch
  <2>2. QED  BY <2>1 DEF Covered
<1>7. CASE ~(next[w] <= a)
  <2>1. 2 * a <= pos[w] + 1
    BY <1>1, <1>3, <1>5, <1>7
  <2>2. QED  BY <1>3, <1>4, <2>1 DEF CoveredTo
<1>8. QED  BY <1>6, <1>7

LEMMA FollowedStep == TypeOK /\ TypeOK' /\ (Whole => Followed) /\ [Next]_vars => (Whole' => Followed')
<1> SUFFICES ASSUME TypeOK, TypeOK', Whole => Followed, [Next]_vars, Whole' PROVE Followed'
  OBVIOUS
<1>0. /\ cursor \in Int /\ start \in Nat /\ start' \in Nat /\ base \in Nat
      /\ failures \in Nat /\ shrinks \in Nat /\ size \in [Workers -> Nat]
      /\ pc \in [Workers -> {"boot", "first", "idle", "sized", "reset", "claim", "route", "send"}]
      /\ \A a \in Alert : a \in Nat
  BY Numbers DEF TypeOK
<1>1. start <= start' /\ \A a \in Alert : Covered(a) => Covered(a)'
  BY CoverGrows
<1>2. Whole
  <2>1. ASSUME NEW w \in Workers, WorkerStep(w) PROVE UNCHANGED <<failures, shrinks>>
    BY <2>1 DEF WorkerStep, failVars, Boot, FirstBoot, Stat, ReadCursor, Reset, Claim, Route,
                RouteDone, Mute, Begin, SendOk, SendFails, SentButFailed, AttemptFailed
  <2>2. CASE Shrink \/ \E w \in Workers : Abort(w) \/ Restart(w)
    BY <1>0, <2>2 DEF Shrink, Abort, Restart, Whole
  <2>3. CASE BeginLine \/ EndLine \/ UNCHANGED vars
    BY <2>3 DEF BeginLine, EndLine, vars, failVars, Whole
  <2>4. ASSUME NEW w \in Workers, NEW c \in Channels, NEW k \in Kinds, WindowOver(w, c, k)
        PROVE  Whole
    BY <2>4 DEF WindowOver, failVars, Whole
  <2>5. QED  BY <2>1, <2>2, <2>3, <2>4 DEF Next, Whole
<1>3. Followed
  BY <1>2
\* Most steps neither move the cursor nor bring a worker before a reset or a claim.
<1>4. ASSUME UNCHANGED <<base, cursor>>,
             \A w \in Workers : pc'[w] = "reset" => pc[w] = "reset" /\ size'[w] = size[w],
             \A w \in Workers : pc'[w] = "claim" => pc[w] = "claim" /\ Same(w)
      PROVE  Followed'
  <2>1. CoveredTo(cursor)'
    BY <1>0, <1>1, <1>3, <1>4 DEF Followed, CoveredTo
  <2>2. QED  BY <1>1, <1>3, <1>4, <2>1, QuietFollows
<1>5. ASSUME NEW w \in Workers, UNCHANGED <<base, cursor>>, pc'[w] \notin {"reset", "claim"},
             \A v \in Workers \ {w} : pc'[v] = pc[v] /\ size'[v] = size[v] /\ Same(v)
      PROVE  Followed'
  BY <1>4, <1>5
<1>6. ASSUME NEW w \in Workers, Boot(w) \/ Stat(w) PROVE Followed'
  <2>1. /\ UNCHANGED <<base, cursor>> /\ pc'[w] \notin {"reset", "claim"}
        /\ \A v \in Workers \ {w} : pc'[v] = pc[v] /\ size'[v] = size[v] /\ Same(v)
    BY <1>0, <1>6 DEF Boot, Stat, Goto, logVars, batchVars, Same
  <2>2. QED  BY <1>5, <2>1
<1>7. ASSUME NEW w \in Workers, FirstBoot(w) PROVE Followed'
  <2>1. /\ base' = base /\ pc'[w] = "idle" /\ cursor' = size[w]
        /\ start' = More(start, base + (size[w] + 1) \div 2)
        /\ \A v \in Workers \ {w} : pc'[v] = pc[v] /\ size'[v] = size[v] /\ Same(v)
    BY <1>0, <1>7 DEF FirstBoot, MoveCursor, Goto, Forget, logVars, batchVars, Same, TypeOK
  <2>2. size[w] <= 2 * start'
    <3> DEFINE h == (size[w] + 1) \div 2
    <3>1. h \in Nat /\ size[w] + 1 <= 2 * h + 1
      BY <1>0, Halves
    <3>2. start' = More(start, base + h)
      BY <2>1
    <3> HIDE DEF h
    <3>3. QED  BY <1>0, <3>1, <3>2 DEF More
  <2>3. CoveredTo(cursor)'
    <3>1. \A a \in Alert : start' < a => ~(2 * a <= size[w] + 1)
      BY <1>0, <2>2
    <3>2. QED  BY <2>1, <3>1 DEF CoveredTo
  <2>4. QED  BY <1>1, <1>3, <2>1, <2>3, QuietFollows
<1>8. ASSUME NEW w \in Workers, ReadCursor(w) PROVE Followed'
  <2>1. UNCHANGED <<cursor, start>>
    BY <1>8 DEF ReadCursor, histVars
  <2>2. CoveredTo(cursor)'
    BY <1>1, <1>3, <2>1 DEF Followed, CoveredTo
  <2>3. QED  BY <1>1, <1>3, <1>8, <2>2, ReadFollows
<1>9. ASSUME NEW w \in Workers, Reset(w) PROVE Followed'
  <2>1. /\ UNCHANGED <<base, start>> /\ pc[w] = "reset" /\ pc'[w] = "idle" /\ cursor' = size[w]
        /\ \A v \in Workers \ {w} : pc'[v] = pc[v] /\ size'[v] = size[v] /\ Same(v)
    BY <1>0, <1>9 DEF Reset, MoveCursor, Goto, Forget, logVars, batchVars, Same, TypeOK
  <2>2. CoveredTo(cursor)'
    BY <1>1, <1>3, <2>1 DEF Followed, CoveredTo
  <2>3. QED  BY <1>1, <1>3, <2>1, <2>2, QuietFollows
<1>10. ASSUME NEW w \in Workers, Claim(w) PROVE Followed'
  <2>1. /\ UNCHANGED <<base, start>> /\ pc'[w] \in {"route", "idle"}
        /\ \A v \in Workers \ {w} : pc'[v] = pc[v] /\ size'[v] = size[v] /\ Same(v)
    BY <1>0, <1>10 DEF Claim, Claimed, LostRace, Goto, Forget, DropBatch, logVars, batchVars, histVars,
                       Same, TypeOK
  <2>2. CASE cursor = pos[w]
    <3>1. CoveredTo(cursor)'
      BY <1>1, <1>3, <1>10, <2>2, ClaimCovers
    <3>2. QED  BY <1>1, <1>3, <2>1, <3>1, QuietFollows
  <2>3. CASE cursor # pos[w]
    <3>1. cursor' = cursor
      BY <1>10, <2>3 DEF Claim
    <3>2. QED  BY <1>5, <2>1, <3>1
  <2>4. QED  BY <2>2, <2>3
<1>11. ASSUME NEW w \in Workers, Route(w) \/ RouteDone(w) PROVE Followed'
  <2>1. /\ UNCHANGED <<base, cursor>> /\ pc'[w] \notin {"reset", "claim"}
        /\ \A v \in Workers \ {w} : pc'[v] = pc[v] /\ size'[v] = size[v] /\ Same(v)
    BY <1>0, <1>11 DEF Route, RouteDone, Idle, Goto, DropBatch, logVars, readVars, Same, TypeOK
  <2>2. QED  BY <1>5, <2>1
<1>12. ASSUME NEW w \in Workers, NEW c \in Channels, Mute(w, c) \/ Begin(w, c) PROVE Followed'
  <2>1. /\ UNCHANGED <<base, cursor>> /\ pc'[w] \notin {"reset", "claim"}
        /\ \A v \in Workers \ {w} : pc'[v] = pc[v] /\ size'[v] = size[v] /\ Same(v)
    BY <1>0, <1>12 DEF Mute, Begin, Goto, logVars, readVars, batchVars, Same
  <2>2. QED  BY <1>5, <2>1
<1>13. ASSUME NEW w \in Workers, SendOk(w) \/ SendFails(w) \/ SentButFailed(w) PROVE Followed'
  <2>1. UNCHANGED <<base, cursor, readVars, batchVars>> /\ (ChannelDone(w) \/ Again(w))
    BY <1>13 DEF SendOk, SendFails, SentButFailed, AttemptFailed, logVars
  <2>2. /\ pc'[w] \notin {"reset", "claim"}
        /\ \A v \in Workers \ {w} : pc'[v] = pc[v] /\ size'[v] = size[v] /\ Same(v)
    BY <1>0, <2>1 DEF ChannelDone, Again, Goto, readVars, batchVars, Same
  <2>3. QED  BY <1>5, <2>1, <2>2
<1>14. CASE Shrink \/ \E w \in Workers : Abort(w) \/ Restart(w)
  BY <1>0, <1>14 DEF Shrink, Abort, Restart, Whole
<1>15. CASE BeginLine \/ EndLine \/ UNCHANGED vars
  BY <1>4, <1>15 DEF BeginLine, EndLine, vars, logVars, readVars, batchVars, Same
<1>16. ASSUME NEW w \in Workers, NEW c \in Channels, NEW k \in Kinds, WindowOver(w, c, k)
       PROVE  Followed'
  BY <1>4, <1>16 DEF WindowOver, logVars, readVars, batchVars, Same
<1>17. QED
  BY <1>6, <1>7, <1>8, <1>9, <1>10, <1>11, <1>12, <1>13, <1>14, <1>15, <1>16 DEF Next, WorkerStep

LEMMA FollowedInit == Init => Followed
<1> SUFFICES ASSUME Init PROVE Followed
  OBVIOUS
<1>1. \A a \in Alert : a \in Nat /\ a > 0
  BY DispatcherAssumption DEF Alert
<1>2. CoveredTo(cursor)
  BY <1>1 DEF Init, NoCursor, CoveredTo
<1>3. QED  BY <1>2 DEF Init, Followed

LEMMA FollowedIsEnough ==
    ASSUME TypeOK, Whole => Followed
    PROVE  failures = 0 /\ shrinks = 0 =>
               \A a \in start + 1 .. written : 2 * (a - base) <= cursor => Covered(a)
<1> SUFFICES ASSUME Followed, NEW a \in start + 1 .. written, 2 * (a - base) <= cursor
             PROVE  Covered(a)
  BY DEF Whole
<1>1. base = 0 /\ CoveredTo(cursor) /\ cursor \in Int /\ start \in Nat
  BY Numbers DEF Followed, TypeOK
<1>2. written \in Nat /\ written <= MaxAlerts /\ MaxAlerts \in Nat
  BY DispatcherAssumption DEF TypeOK
<1>3. a \in Alert /\ start < a /\ 2 * a <= cursor + 1
  BY <1>1, <1>2 DEF Alert
<1>4. QED  BY <1>1, <1>3 DEF CoveredTo

\* The log is followed: a single worker, as deployed, makes no delivery twice, whatever
\* restarts, aborted passes, truncations and moves of the cursor happen; and any number of
\* workers skip nothing that was written after the first boot, as long as no pass fails
\* and the log is not truncated.
THEOREM DeliveryFollowsLog == Spec => []LogIsFollowed
<1> DEFINE Inv == TypeOK /\ HasCursor /\ AtWork /\ AloneInv /\ (Whole => Followed)
<1>1. Init => Inv
  BY TypeInit, OnceInit, AloneInit, FollowedInit DEF Init, HasCursor, OnceInv
<1>2. Inv /\ [Next]_vars => Inv'
  BY TypeStep, AtWorkStep, AloneStep, FollowedStep
<1>3. Inv => LogIsFollowed
  BY AloneIsOnce, FollowedIsEnough DEF LogIsFollowed, Covered
<1>4. QED  BY <1>1, <1>2, <1>3, PTL DEF Spec

=============================================================================
