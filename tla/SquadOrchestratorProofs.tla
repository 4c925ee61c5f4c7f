---------------------- MODULE SquadOrchestratorProofs ----------------------
(***************************************************************************)
(* What SquadOrchestrator guarantees for any pairs, any number of fills    *)
(* and of failures, any quantities and any limits.                         *)
(***************************************************************************)
EXTENDS SquadOrchestrator, FiniteSetTheorems, TLAPS

\* A lot, in memory or on disk, is the residue of a buy.
Lots ==
    \A f \in Fill : book[f] > 0 \/ disk[f] > 0 => f <= Len(fills) /\ fills[f].side = "buy"

\* Where a close can be: the lot of a whole one is out of the book, the lot of a
\* partial one is larger than what is closed.
Closing ==
    /\ pc = "exits" => \A f \in hit : book[f] > 0
    /\ pc = "net" => Len(fills) > 0
    /\ step # "pick" => /\ pc = "exits" \/ (pc = "net" /\ Current.side = "sell")
                        /\ lot \in 1 .. Len(fills) /\ fills[lot].side = "buy"
                        /\ book[lot] = 0 \/ (pc = "net" /\ amt < book[lot])
    /\ step = "shrink" => pc = "net" /\ amt < book[lot]

IInv == TypeOK /\ Lots /\ Closing

\* What a close in progress has still to bring to the account of lot f: a whole one
\* is out of the book before it is in the ledger, a partial one the other way round.
Due(f) ==
    IF step = "pick" \/ f # lot THEN 0
    ELSE IF step = "log" THEN (IF book[f] = 0 THEN amt ELSE 0)
    ELSE (IF book[f] = 0 THEN 0 ELSE -amt)

\* The account of a bought lot, the one of the fill being netted apart.
Account(f) ==
    IF pc = "net" /\ f = Len(fills)
      THEN book[f] = 0 /\ closed[f] = 0 /\ rem = fills[f].qty
      ELSE book[f] + closed[f] + Due(f) = fills[f].qty

Accounts ==
    /\ \A f \in Fill : f > Len(fills) => closed[f] = 0
    /\ crashes = 0 /\ ledgerErrors = 0 => \A f \in Bought : Account(f)

-----------------------------------------------------------------------------
(***************************************************************************)
(* What the helpers of the actions do to the book and its mirror.          *)
(***************************************************************************)

\* The actions that change the ledger or the lots.
Books ==
    \/ ExitLot \/ LogClose \/ ShrinkLot \/ NetOldest \/ OpenResidue
    \/ Crash \/ CrashUnreadable
    \/ \E side \in Side, q \in 1 .. MaxQty : ExecuteOrder(side, q)

LEMMA OthersKeepTheBook == [Next]_vars => Books \/ UNCHANGED <<fills, book, disk, closed>>
  BY DEF Next, CycleStep, Books, CycleBlocked, CycleStart, ExitsDone, LogCloseError,
     FeedBreaker, CycleEnd, Cooldown, vars

LEMMA MirrorWrite ==
  ASSUME BookType, NEW f \in Fill, NEW q \in 0 .. MaxQty, WriteDisk(f, q)
  PROVE  /\ disk' \in [Fill -> 0 .. MaxQty]
         /\ \A g \in Fill : disk'[g] = disk[g] \/ (g = f /\ disk'[g] = q)
<1>1. disk \in [Fill -> 0 .. MaxQty]
  BY DEF BookType
<1>2. disk' = [disk EXCEPT ![f] = q] \/ disk' = disk
  BY DEF WriteDisk
<1>3. CASE disk' = [disk EXCEPT ![f] = q]
  BY <1>1, <1>3
<1>4. CASE disk' = disk
  BY <1>1, <1>4
<1>5. QED
  BY <1>2, <1>3, <1>4

LEMMA WholeClose ==
  ASSUME BookType, NEW f \in Fill, CloseWhole(f)
  PROVE  /\ book' = [book EXCEPT ![f] = 0] /\ book' \in [Fill -> 0 .. MaxQty]
         /\ disk' \in [Fill -> 0 .. MaxQty]
         /\ \A g \in Fill : book'[g] > 0 => book[g] > 0
         /\ \A g \in Fill : disk'[g] > 0 => disk[g] > 0
         /\ lot' = f /\ amt' = book[f] /\ amt' \in 0 .. MaxQty
<1>1. WriteDisk(f, 0) /\ 0 \in 0 .. MaxQty
  BY DeskAssumption DEF CloseWhole
<1>2. book' = [book EXCEPT ![f] = 0] /\ lot' = f /\ amt' = book[f]
  BY DEF CloseWhole
<1>3. book' \in [Fill -> 0 .. MaxQty] /\ amt' \in 0 .. MaxQty
  BY <1>1, <1>2 DEF BookType
<1>4. \A g \in Fill : book'[g] > 0 => book[g] > 0
  BY <1>2 DEF BookType
<1>5. disk' \in [Fill -> 0 .. MaxQty] /\ \A g \in Fill : disk'[g] > 0 => disk[g] > 0
  BY <1>1, MirrorWrite
<1>6. QED
  BY <1>2, <1>3, <1>4, <1>5

\* The lot that netting takes is the residue of a buy, the fill is a sell.
LEMMA Netting ==
  ASSUME IInv, NetOldest
  PROVE  \E f \in Fill :
            /\ f <= Len(fills) /\ fills[f].side = "buy" /\ Current.side = "sell"
            /\ book[f] > 0 /\ CloseOf(f, Minimum(rem, book[f]))
            /\ Minimum(rem, book[f]) \in 1 .. MaxQty
            /\ Minimum(rem, book[f]) <= book[f] /\ Minimum(rem, book[f]) <= rem
<1>1. PICK f \in Candidates : CloseOf(f, Minimum(rem, book[f]))
  BY DEF NetOldest
<1>2. f \in Fill /\ book[f] > 0 /\ fills[f].side = Opposite(Current.side)
  BY <1>1 DEF Candidates, LotsOf, OpenLots
<1>3. f <= Len(fills) /\ fills[f].side = "buy"
  BY <1>2 DEF IInv, Lots
<1>4. Current.side = "sell"
  BY <1>2, <1>3 DEF Opposite
<1>5. book[f] \in 1 .. MaxQty /\ rem \in 1 .. MaxQty
  BY <1>2, DeskAssumption DEF NetOldest, IInv, TypeOK, BookType, CycleType
<1>6. QED
  BY <1>1, <1>2, <1>3, <1>4, <1>5, DeskAssumption DEF Minimum

\* What remains of a buy is booked as the lot of that fill.
LEMMA Residue ==
  ASSUME IInv, OpenResidue
  PROVE  \/ UNCHANGED <<book, disk>>
         \/ /\ Len(fills) \in Fill /\ Current.side = "buy" /\ rem > 0
            /\ book' = [book EXCEPT ![Len(fills)] = rem] /\ WriteDisk(Len(fills), rem)
  BY DeskAssumption DEF OpenResidue, IInv, TypeOK, BookType, Closing, Fill

LEMMA NewFill ==
  ASSUME IInv, NEW side \in Side, NEW q \in 1 .. MaxQty, ExecuteOrder(side, q)
  PROVE  /\ fills' \in Seq(Trade) /\ Len(fills') = Len(fills) + 1 /\ Len(fills') <= MaxFills
         /\ \A f \in 1 .. Len(fills) : fills'[f] = fills[f]
         /\ fills'[Len(fills')] = [symbol |-> symbol, side |-> side, qty |-> q]
<1>1. [symbol |-> symbol, side |-> side, qty |-> q] \in Trade
  BY DEF Trade, IInv, TypeOK, CycleType
<1>2. QED
  BY <1>1, DeskAssumption DEF ExecuteOrder, IInv, TypeOK, BookType

-----------------------------------------------------------------------------
(***************************************************************************)
(* Types.                                                                  *)
(***************************************************************************)

LEMMA IInvInit == Init => IInv
  BY DeskAssumption DEF Init, IInv, Lots, Closing, TypeOK, BookType, CycleType,
     BreakerType, CountType, Fill, Side, Trade, Trip, Breaker, NoBreach

LEMMA BookTypeStep == IInv /\ [Next]_vars => BookType'
<1> SUFFICES ASSUME IInv, [Next]_vars PROVE BookType'
  OBVIOUS
<1>0. BookType /\ CycleType /\ lot \in Fill \cup {0}
  BY DEF IInv, TypeOK, CycleType
<1> USE DeskAssumption
<1>1. CASE UNCHANGED <<fills, book, disk, closed>>
  BY <1>0, <1>1 DEF BookType
<1>2. CASE ExitLot
  <2>1. PICK f \in hit : CloseWhole(f)
    BY <1>2 DEF ExitLot
  <2>2. QED
    BY <1>0, <1>2, <2>1, WholeClose DEF ExitLot, BookType, CycleType
<1>3. CASE LogClose
  <2>1. lot \in Fill
    BY <1>3 DEF LogClose, IInv, Closing, TypeOK, BookType, Fill
  <2>2. QED
    BY <1>0, <1>3, <2>1 DEF LogClose, BookType, CycleType
<1>4. CASE ShrinkLot
  <2>0. lot \in Fill /\ amt < book[lot]
    BY <1>4 DEF ShrinkLot, IInv, Closing, TypeOK, BookType, Fill
  <2>1. lot \in Fill /\ book[lot] - amt \in 0 .. MaxQty
    <3>1. book[lot] \in 0 .. MaxQty /\ amt \in 0 .. MaxQty
      BY <1>0, <2>0 DEF BookType, CycleType
    <3>2. QED
      BY <2>0, <3>1
  <2>2. book' = [book EXCEPT ![lot] = @ - amt] /\ book'[lot] = book[lot] - amt
    BY <1>0, <1>4, <2>1 DEF ShrinkLot, BookType
  <2>3. WriteDisk(lot, book[lot] - amt)
    BY <1>4, <2>2 DEF ShrinkLot
  <2>4. QED
    BY <1>0, <1>4, <2>1, <2>2, <2>3, MirrorWrite DEF ShrinkLot, BookType
<1>5. CASE NetOldest
  <2>1. PICK f \in Fill : CloseOf(f, Minimum(rem, book[f]))
    BY <1>5, Netting
  <2>2. QED
    BY <1>0, <1>5, <2>1, WholeClose DEF CloseOf, NetOldest, BookType
<1>6. CASE OpenResidue
  <2>1. fills' = fills /\ closed' = closed
    BY <1>6 DEF OpenResidue
  <2>2. rem \in 0 .. MaxQty
    BY <1>0 DEF CycleType
  <2>3. QED
    BY <1>0, <1>6, <2>1, <2>2, Residue, MirrorWrite DEF BookType
<1>7. CASE Crash \/ CrashUnreadable
  <2>1. disk \in [Fill -> 0 .. MaxQty] /\ [f \in Fill |-> 0] \in [Fill -> 0 .. MaxQty]
    BY <1>0 DEF BookType
  <2>2. UNCHANGED <<fills, disk, closed>> /\ book' \in {disk, [f \in Fill |-> 0]}
    BY <1>7 DEF Crash, CrashUnreadable
  <2>3. QED
    BY <1>0, <2>1, <2>2 DEF BookType
<1>8. ASSUME NEW side \in Side, NEW q \in 1 .. MaxQty, ExecuteOrder(side, q)
      PROVE BookType'
  BY <1>0, <1>8, NewFill DEF ExecuteOrder, BookType
<1>9. QED
  BY <1>1, <1>2, <1>3, <1>4, <1>5, <1>6, <1>7, <1>8, OthersKeepTheBook DEF Books

LEMMA CycleTypeStep == IInv /\ [Next]_vars => CycleType'
<1> SUFFICES ASSUME IInv, [Next]_vars PROVE CycleType'
  OBVIOUS
<1> USE DeskAssumption DEF CycleType
<1>0. BookType /\ CycleType
  BY DEF IInv, TypeOK
<1>1. ASSUME NEW s \in Symbols, NEW H \in SUBSET LotsOfPair(s),
             CycleBlocked(s, H) \/ CycleStart(s, H)
      PROVE  CycleType'
  BY <1>0, <1>1 DEF CycleBlocked, CycleStart, LotsOfPair, LotsOf, OpenLots
<1>2. CASE ExitLot
  <2>1. PICK f \in hit : CloseWhole(f)
    BY <1>2 DEF ExitLot
  <2>2. QED
    BY <1>0, <1>2, <2>1, WholeClose DEF ExitLot
<1>3. CASE LogClose
  BY <1>0, <1>3 DEF LogClose
<1>4. CASE EndCycle
  BY <1>0, <1>4 DEF EndCycle
<1>5. CASE ExitsDone \/ FeedBreaker \/ ShrinkLot \/ (LogCloseError /\ ~EndCycle)
  BY <1>0, <1>5 DEF ExitsDone, FeedBreaker, ShrinkLot, LogCloseError
<1>6. ASSUME NEW side \in Side, NEW q \in 1 .. MaxQty, ExecuteOrder(side, q)
      PROVE  CycleType'
  BY <1>0, <1>6 DEF ExecuteOrder
<1>7. CASE NetOldest
  <2>1. PICK f \in Fill : /\ CloseOf(f, Minimum(rem, book[f]))
                          /\ Minimum(rem, book[f]) \in 1 .. MaxQty
                          /\ Minimum(rem, book[f]) <= rem
    BY <1>7, Netting
  <2>2. rem' \in 0 .. MaxQty
    BY <1>0, <2>1 DEF CloseOf
  <2>3. lot' \in Fill /\ amt' \in 0 .. MaxQty
    BY <1>0, <2>1, WholeClose DEF CloseOf
  <2>4. QED
    BY <1>0, <1>7, <2>2, <2>3 DEF NetOldest
<1>8. CASE Cooldown \/ UNCHANGED vars
  BY <1>0, <1>8 DEF Cooldown, vars, cycleVars
<1>9. QED
  BY <1>1, <1>2, <1>3, <1>4, <1>5, <1>6, <1>7, <1>8
     DEF Next, CycleStep, CycleEnd, LogCloseError, OpenResidue, Crash, CrashUnreadable

LEMMA BreakerTypeStep == IInv /\ [Next]_vars => BreakerType'
<1> SUFFICES ASSUME IInv, [Next]_vars PROVE BreakerType'
  OBVIOUS
<1> USE DEF BreakerType, Breaker, Trip
<1>0. BreakerType /\ pnl \in Int
  BY DEF IInv, TypeOK, CycleType
<1>1. ASSUME NEW s \in Symbols, NEW H \in SUBSET LotsOfPair(s), CycleStart(s, H)
      PROVE  BreakerType'
  <2>1. CASE breaker.trip = "no"
    BY <1>0, <1>1, <2>1 DEF CycleStart
  <2>2. CASE breaker.trip # "no"
    <3>1. /\ breaker' = [breaker EXCEPT !.trip = "no", !.losses = 0]
          /\ saved' \in {saved, breaker'}
      BY <1>1, <2>2 DEF CycleStart, SaveBreaker
    <3>2. breaker' = [trip |-> "no", losses |-> 0, daily |-> breaker.daily]
      BY <1>0, <3>1
    <3>3. breaker' \in Breaker
      BY <1>0, <3>2
    <3>4. QED
      BY <1>0, <3>1, <3>3
  <2>3. QED
    BY <2>1, <2>2
<1>2. CASE FeedBreaker
  <2>1. Fed(breaker, pnl) \in Breaker
    BY <1>0 DEF Fed
  <2>2. breaker' = Fed(breaker, pnl) /\ saved' \in {saved, breaker'}
    BY <1>2 DEF FeedBreaker, SaveBreaker
  <2>3. QED
    BY <1>0, <2>1, <2>2
<1>3. CASE Crash \/ CrashUnreadable
  BY <1>0, <1>3 DEF Crash, CrashUnreadable, NoBreach
<1>4. CASE Cooldown
  BY <1>0, <1>4 DEF Cooldown, Cooled
<1>5. CASE UNCHANGED <<breaker, saved>>
  BY <1>0, <1>5
<1>6. QED
  BY <1>1, <1>2, <1>3, <1>4, <1>5 DEF Next, CycleStep, CycleBlocked, ExitLot, ExitsDone,
     LogClose, LogCloseError, ShrinkLot, CycleEnd, ExecuteOrder, NetOldest, OpenResidue, vars

LEMMA CountTypeStep == IInv /\ [Next]_vars => CountType'
<1> SUFFICES ASSUME IInv, [Next]_vars PROVE CountType'
  OBVIOUS
<1>0. CountType
  BY DEF IInv, TypeOK
<1> USE DEF CountType, nonDiskVars, failVars, histVars
<1>1. ASSUME NEW s \in Symbols, NEW H \in SUBSET LotsOfPair(s),
             CycleBlocked(s, H) \/ CycleStart(s, H)
      PROVE  CountType'
  BY <1>0, <1>1 DEF CycleBlocked, CycleStart, SaveBreaker
<1>2. CASE ExitLot
  BY <1>0, <1>2 DEF ExitLot, CloseWhole, WriteDisk
<1>3. CASE LogClose \/ LogCloseError \/ FeedBreaker
  BY <1>0, <1>3 DEF LogClose, LogCloseError, FeedBreaker, SaveBreaker
<1>4. CASE ShrinkLot
  BY <1>0, <1>4 DEF ShrinkLot, WriteDisk
<1>5. CASE NetOldest
  BY <1>0, <1>5 DEF NetOldest, CloseOf, CloseWhole, WriteDisk
<1>6. CASE OpenResidue
  BY <1>0, <1>6 DEF OpenResidue, WriteDisk
<1>7. CASE Crash \/ CrashUnreadable
  BY <1>0, <1>7 DEF Crash, CrashUnreadable
<1>8. CASE UNCHANGED <<failVars, histVars>>
  BY <1>0, <1>8
<1>9. QED
  BY <1>1, <1>2, <1>3, <1>4, <1>5, <1>6, <1>7, <1>8
     DEF Next, CycleStep, ExitsDone, CycleEnd, ExecuteOrder, Cooldown, vars

-----------------------------------------------------------------------------
(***************************************************************************)
(* Lots and closes.                                                        *)
(***************************************************************************)

LEMMA LotsStep == IInv /\ [Next]_vars => Lots'
<1> SUFFICES ASSUME IInv, [Next]_vars PROVE Lots'
  OBVIOUS
<1>0. BookType /\ Lots /\ lot \in Fill \cup {0}
  BY DEF IInv, TypeOK, CycleType
<1> USE DeskAssumption DEF Lots
<1>1. CASE UNCHANGED <<fills, book, disk>>
  BY <1>0, <1>1
<1>2. CASE ExitLot
  <2>1. PICK f \in hit : CloseWhole(f)
    BY <1>2 DEF ExitLot
  <2>2. f \in Fill
    BY <2>1 DEF IInv, TypeOK, CycleType
  <2>3. \A g \in Fill : (book'[g] > 0 => book[g] > 0) /\ (disk'[g] > 0 => disk[g] > 0)
    BY <1>0, <2>1, <2>2, WholeClose
  <2>4. QED
    BY <1>0, <1>2, <2>3 DEF ExitLot
<1>3. CASE ShrinkLot
  <2>1. lot \in Fill /\ amt < book[lot] /\ fills[lot].side = "buy" /\ lot <= Len(fills)
    BY <1>3 DEF ShrinkLot, IInv, Closing, TypeOK, BookType, Fill
  <2>2. fills' = fills /\ book' = [book EXCEPT ![lot] = @ - amt] /\ WriteDisk(lot, book'[lot])
    BY <1>3 DEF ShrinkLot
  <2>3. \A g \in Fill \ {lot} : book'[g] = book[g] /\ disk'[g] = disk[g]
    BY <1>0, <2>2 DEF WriteDisk, BookType
  <2>4. QED
    BY <1>0, <2>1, <2>2, <2>3
<1>4. CASE NetOldest
  <2>1. PICK f \in Fill : CloseOf(f, Minimum(rem, book[f]))
    BY <1>4, Netting
  <2>2. \A g \in Fill : (book'[g] > 0 => book[g] > 0) /\ (disk'[g] > 0 => disk[g] > 0)
    <3>1. CASE CloseWhole(f)
      BY <1>0, <3>1, WholeClose
    <3>2. CASE UNCHANGED <<book, disk>>
      BY <3>2
    <3>3. QED
      BY <2>1, <3>1, <3>2 DEF CloseOf
  <2>3. QED
    BY <1>0, <1>4, <2>2 DEF NetOldest
<1>5. CASE OpenResidue
  <2>1. fills' = fills
    BY <1>5 DEF OpenResidue
  <2>2. CASE UNCHANGED <<book, disk>>
    BY <1>0, <2>1, <2>2
  <2>3. CASE ~UNCHANGED <<book, disk>>
    <3>1. /\ Len(fills) \in Fill /\ Current.side = "buy"
          /\ book' = [book EXCEPT ![Len(fills)] = rem] /\ WriteDisk(Len(fills), rem)
      BY <1>5, <2>3, Residue
    <3>2. \A g \in Fill \ {Len(fills)} : book'[g] = book[g] /\ disk'[g] = disk[g]
      BY <1>0, <3>1 DEF WriteDisk, BookType
    <3>3. QED
      BY <1>0, <2>1, <3>1, <3>2 DEF Current, Fill
  <2>4. QED
    BY <2>2, <2>3
<1>6. CASE Crash \/ CrashUnreadable
  BY <1>0, <1>6 DEF Crash, CrashUnreadable
<1>7. ASSUME NEW side \in Side, NEW q \in 1 .. MaxQty, ExecuteOrder(side, q)
      PROVE  Lots'
  <2>1. UNCHANGED <<book, disk>>
    BY <1>7 DEF ExecuteOrder
  <2>2. ASSUME NEW f \in Fill, book[f] > 0 \/ disk[f] > 0
        PROVE  f <= Len(fills') /\ fills'[f].side = "buy"
    <3>1. f \in 1 .. Len(fills) /\ fills[f].side = "buy"
      BY <1>0, <2>2 DEF Fill, BookType
    <3>2. fills'[f] = fills[f] /\ Len(fills') = Len(fills) + 1
      BY <1>7, <3>1, NewFill
    <3>3. Len(fills) \in Nat
      BY <1>0 DEF BookType
    <3>4. QED
      BY <3>1, <3>2, <3>3
  <2>3. QED
    BY <2>1, <2>2
<1>8. QED
  BY <1>1, <1>2, <1>3, <1>4, <1>5, <1>6, <1>7, OthersKeepTheBook DEF Books, LogClose

LEMMA ClosingStep == IInv /\ [Next]_vars => Closing'
<1> SUFFICES ASSUME IInv, [Next]_vars PROVE Closing'
  OBVIOUS
<1>0. BookType /\ CycleType /\ Lots /\ Closing
  BY DEF IInv, TypeOK
<1> USE DeskAssumption DEF Closing
<1>1. ASSUME NEW s \in Symbols, NEW H \in SUBSET LotsOfPair(s),
             CycleBlocked(s, H) \/ CycleStart(s, H)
      PROVE  Closing'
  <2>1. step = "pick" /\ UNCHANGED <<step, book>> /\ hit' = H /\ pc' # "net"
    BY <1>0, <1>1 DEF CycleBlocked, CycleStart
  <2>2. \A f \in H : book[f] > 0
    BY DEF LotsOfPair, LotsOf, OpenLots
  <2>3. QED
    BY <2>1, <2>2
<1>2. CASE ExitLot
  <2>1. PICK f \in hit : CloseWhole(f) /\ hit' = hit \ {f}
    BY <1>2 DEF ExitLot
  <2>2. /\ pc = "exits" /\ pc' = "exits" /\ step' = "log" /\ fills' = fills
        /\ hit \subseteq Fill
    BY <1>0, <1>2 DEF ExitLot, CycleType
  <2>3. f \in Fill /\ book[f] > 0 /\ f \in 1 .. Len(fills) /\ fills[f].side = "buy"
    BY <1>0, <2>1, <2>2 DEF Lots, Fill
  <2>4. lot' = f /\ book' = [book EXCEPT ![f] = 0]
    BY <1>0, <2>1, <2>3, WholeClose
  <2>5. (\A g \in hit' : book'[g] > 0) /\ book'[f] = 0
    BY <1>0, <2>1, <2>2, <2>3, <2>4 DEF BookType
  <2>6. lot' \in 1 .. Len(fills') /\ fills'[lot'].side = "buy" /\ book'[lot'] = 0
    BY <2>2, <2>3, <2>4, <2>5
  <2>7. QED
    BY <2>2, <2>5, <2>6
<1>3. CASE LogClose
  BY <1>0, <1>3 DEF LogClose, Current
<1>4. CASE LogCloseError /\ pc = "exits"
  BY <1>0, <1>4 DEF LogCloseError
<1>5. CASE FeedBreaker
  <2>1. /\ step = "feed" /\ UNCHANGED <<fills, book, pc, hit, lot, amt>>
        /\ step' = IF book[lot] > 0 THEN "shrink" ELSE "pick"
    BY <1>5 DEF FeedBreaker
  <2>2. CASE book[lot] > 0
    BY <1>0, <2>1, <2>2 DEF Current
  <2>3. CASE ~(book[lot] > 0)
    BY <1>0, <2>1, <2>3 DEF Current
  <2>4. QED
    BY <2>2, <2>3
<1>6. CASE ShrinkLot
  <2>1. step' = "pick" /\ UNCHANGED <<fills, pc, hit>> /\ pc # "exits"
    BY <1>0, <1>6 DEF ShrinkLot
  <2>2. QED
    BY <1>0, <2>1
<1>7. CASE EndCycle
  BY <1>7 DEF EndCycle
<1>8. CASE ExitsDone \/ Cooldown \/ UNCHANGED vars
  BY <1>0, <1>8 DEF ExitsDone, Cooldown, vars, cycleVars, Current
<1>9. ASSUME NEW side \in Side, NEW q \in 1 .. MaxQty, ExecuteOrder(side, q)
      PROVE  Closing'
  <2>1. step = "pick" /\ step' = "pick" /\ pc' = "net"
    BY <1>0, <1>9 DEF ExecuteOrder
  <2>2. Len(fills') = Len(fills) + 1
    BY <1>9, NewFill
  <2>3. Len(fills) \in Nat
    BY <1>0 DEF BookType
  <2>4. QED
    BY <2>1, <2>2, <2>3
<1>10. CASE NetOldest
  <2>1. PICK f \in Fill :
            /\ f <= Len(fills) /\ fills[f].side = "buy" /\ Current.side = "sell"
            /\ book[f] > 0 /\ CloseOf(f, Minimum(rem, book[f]))
            /\ Minimum(rem, book[f]) <= book[f]
            /\ Minimum(rem, book[f]) \in 1 .. MaxQty
    BY <1>10, Netting
  <2>2. /\ step' = "log" /\ pc' = "net" /\ pc = "net" /\ fills' = fills /\ Current' = Current
    BY <1>10 DEF NetOldest, Current
  <2>3. lot' = f /\ (book'[f] = 0 \/ amt' < book'[f])
    BY <1>0, <2>1, WholeClose DEF CloseOf, BookType
  <2>4. lot' \in 1 .. Len(fills) /\ fills[lot'].side = "buy"
    BY <2>1, <2>3 DEF Fill
  <2>5. QED
    BY <1>0, <2>1, <2>2, <2>3, <2>4
<1>11. QED
  BY <1>1, <1>2, <1>3, <1>4, <1>5, <1>6, <1>7, <1>8, <1>9, <1>10
     DEF Next, CycleStep, CycleEnd, LogCloseError, OpenResidue, Crash, CrashUnreadable

LEMMA Invariance == Spec => []IInv
<1>1. IInv /\ [Next]_vars => IInv'
  <2>1. IInv /\ [Next]_vars => TypeOK'
    BY BookTypeStep, CycleTypeStep, BreakerTypeStep, CountTypeStep DEF TypeOK
  <2>2. QED
    BY <2>1, LotsStep, ClosingStep DEF IInv
<1>2. QED
  BY <1>1, IInvInit, PTL DEF Spec

\* Whatever fails and whenever the loop restarts, every variable keeps its type.  In
\* particular no quantity of _open_positions is ever negative or above an order's.
THEOREM DeskTypeCorrect == Spec => []TypeOK
<1>1. IInv => TypeOK
  BY DEF IInv
<1>2. QED
  BY <1>1, Invariance, PTL

\* The desk is long only: _match_or_open and the reload of the mirror never leave a
\* lot that a sell opened, in memory or on disk.
THEOREM LongOnly == Spec => []NoNakedShort
<1>1. IInv => NoNakedShort
  BY DEF IInv, Lots, NoNakedShort, OpenLots
<1>2. QED
  BY <1>1, Invariance, PTL

-----------------------------------------------------------------------------
(***************************************************************************)
(* The accounts of the lots, while no restart and no ledger error happens. *)
(***************************************************************************)

LEMMA AccountsInit == Init => Accounts
  BY DeskAssumption DEF Init, Accounts, Bought, Fill

LEMMA FailuresOnlyGrow ==
  ASSUME IInv, [Next]_vars, crashes' = 0 /\ ledgerErrors' = 0
  PROVE  /\ crashes = 0 /\ ledgerErrors = 0
         /\ ~(Crash \/ CrashUnreadable \/ LogCloseError)
<1>1. crashes \in Nat /\ ledgerErrors \in Nat
  BY DEF IInv, TypeOK, CountType
<1>2. crashes' \in {crashes, crashes + 1} /\ ledgerErrors' \in {ledgerErrors, ledgerErrors + 1}
  BY DEF Next, CycleStep, CycleBlocked, CycleStart, ExitLot, ExitsDone, LogClose, LogCloseError,
     FeedBreaker, ShrinkLot, CycleEnd, ExecuteOrder, NetOldest, OpenResidue, Crash,
     CrashUnreadable, Cooldown, vars, failVars, nonDiskVars
<1>3. ~(Crash \/ CrashUnreadable \/ LogCloseError)
  BY <1>1 DEF Crash, CrashUnreadable, LogCloseError
<1>4. QED
  BY <1>1, <1>2, <1>3

LEMMA UnusedAccountsStep ==
  ASSUME IInv, [Next]_vars, \A f \in Fill : f > Len(fills) => closed[f] = 0
  PROVE  \A f \in Fill : f > Len(fills') => closed'[f] = 0
<1>1. BookType
  BY DEF IInv, TypeOK
<1>2. CASE LogClose
  <2>1. lot \in 1 .. Len(fills) /\ UNCHANGED fills /\ closed' = [closed EXCEPT ![lot] = @ + amt]
    BY <1>2 DEF LogClose, IInv, Closing
  <2>2. QED
    BY <1>1, <2>1 DEF BookType
<1>3. ASSUME NEW side \in Side, NEW q \in 1 .. MaxQty, ExecuteOrder(side, q)
      PROVE  \A f \in Fill : f > Len(fills') => closed'[f] = 0
  <2>1. closed' = closed /\ Len(fills') = Len(fills) + 1
    BY <1>3, NewFill DEF ExecuteOrder
  <2>2. Len(fills) \in Nat
    BY <1>1 DEF BookType
  <2>3. QED
    BY <2>1, <2>2, DeskAssumption DEF Fill
<1>4. CASE UNCHANGED <<fills, closed>>
  BY <1>4
<1>5. QED
  BY <1>2, <1>3, <1>4, OthersKeepTheBook
     DEF Books, ExitLot, ShrinkLot, NetOldest, OpenResidue, Crash, CrashUnreadable

\* Without a restart or a ledger error, every step keeps the account of every lot.
LEMMA AccountStep ==
  ASSUME IInv, [Next]_vars, ~(Crash \/ CrashUnreadable \/ LogCloseError),
         \A g \in Fill : g > Len(fills) => closed[g] = 0,
         NEW f \in Bought', f \in Bought => Account(f)
  PROVE  Account(f)'
<1> USE DEF Account, Due
<1>2. ~(Crash \/ CrashUnreadable \/ LogCloseError)
  OBVIOUS
<1>3. BookType /\ CycleType /\ Closing
  BY DEF IInv, TypeOK
<1>4. Len(fills) \in Nat /\ Len(fills) <= MaxFills
  BY <1>3 DEF BookType
<1>5. ASSUME fills' = fills
      PROVE  /\ f \in Bought /\ Account(f) /\ f \in Fill /\ f \in 1 .. Len(fills)
             /\ book[f] \in 0 .. MaxQty /\ closed[f] \in Nat /\ fills[f].qty \in 1 .. MaxQty
             /\ fills[f].side = "buy"
  <2>1. f \in 1 .. Len(fills) /\ fills[f].side = "buy" /\ f \in Bought
    BY <1>5 DEF Bought
  <2>2. f \in Fill /\ fills[f] \in Trade
    BY SMTT(30), <1>3, <1>4, <2>1, DeskAssumption DEF Fill, BookType
  <2>3. book[f] \in 0 .. MaxQty /\ closed[f] \in Nat /\ fills[f].qty \in 1 .. MaxQty
    BY <1>3, <2>2 DEF BookType, Trade
  <2>4. Account(f)
    BY <2>1
  <2>5. QED
    BY <2>1, <2>2, <2>3, <2>4
<1>6. amt \in 0 .. MaxQty /\ rem \in 0 .. MaxQty
  BY <1>3 DEF CycleType
<1>7. CASE UNCHANGED <<fills, book, closed, rem, pc, step, lot, amt>>
  BY <1>5, <1>7
<1>8. CASE UNCHANGED <<fills, book, closed>> /\ pc # "net" /\ pc' # "net"
           /\ step = "pick" /\ step' = "pick"
  BY <1>5, <1>8
<1>9. CASE ExitLot
  <2>1. PICK g \in hit : CloseWhole(g)
    BY <1>9 DEF ExitLot
  <2>2. fills' = fills /\ closed' = closed /\ pc = "exits" /\ pc' = pc
        /\ step = "pick" /\ step' = "log" /\ g \in Fill
    BY <1>3, <1>9 DEF ExitLot, CycleType
  <2>3. book' = [book EXCEPT ![g] = 0] /\ lot' = g /\ amt' = book[g]
    BY <2>1 DEF CloseWhole
  <2>4. book[f] + closed[f] = fills[f].qty
    BY <1>5, <2>2
  <2>5. CASE f = g
    BY <1>3, <1>5, <2>2, <2>3, <2>4, <2>5 DEF BookType
  <2>6. CASE f # g
    BY <1>3, <1>5, <2>2, <2>3, <2>4, <2>6 DEF BookType
  <2>7. QED
    BY <2>5, <2>6
<1>10. CASE LogClose
  <2>1. /\ UNCHANGED <<fills, book, pc, lot, amt, rem>> /\ step = "log" /\ step' = "feed"
        /\ closed' = [closed EXCEPT ![lot] = @ + amt]
    BY <1>10 DEF LogClose
  <2>2. ~(pc = "net" /\ f = Len(fills))
    BY <1>3, <1>5, <2>1 DEF Closing, Current
  <2>3. CASE f # lot
    BY <1>3, <1>5, <2>1, <2>2, <2>3 DEF BookType
  <2>4. CASE f = lot
    <3>1. closed'[f] = closed[f] + amt
      BY <1>3, <1>5, <2>1, <2>4 DEF BookType
    <3>2. QED
      BY <1>5, <1>6, <2>1, <2>2, <2>4, <3>1
  <2>5. QED
    BY <2>3, <2>4
<1>11. CASE FeedBreaker
  <2>1. /\ UNCHANGED <<fills, book, closed, pc, lot, amt, rem>> /\ step = "feed"
        /\ step' = IF book[lot] > 0 THEN "shrink" ELSE "pick"
    BY <1>11 DEF FeedBreaker
  <2>2. ~(pc = "net" /\ f = Len(fills))
    BY <1>3, <1>5, <2>1 DEF Closing, Current
  <2>3. QED
    BY <1>5, <1>6, <2>1, <2>2
<1>12. CASE ShrinkLot
  <2>1. /\ UNCHANGED <<fills, closed, pc, lot, amt, rem>> /\ step = "shrink" /\ step' = "pick"
        /\ book' = [book EXCEPT ![lot] = @ - amt]
    BY <1>12 DEF ShrinkLot
  <2>2. ~(pc = "net" /\ f = Len(fills)) /\ amt < book[lot]
    BY <1>3, <1>5, <2>1 DEF Closing, Current
  <2>3. CASE f # lot
    BY <1>3, <1>5, <2>1, <2>2, <2>3 DEF BookType
  <2>4. CASE f = lot
    <3>1. book'[f] = book[f] - amt
      BY <1>3, <1>5, <2>1, <2>4 DEF BookType
    <3>2. QED
      BY SMTT(30), <1>5, <1>6, <2>1, <2>2, <2>4, <3>1
  <2>5. QED
    BY <2>3, <2>4
<1>13. ASSUME NEW side \in Side, NEW q \in 1 .. MaxQty, ExecuteOrder(side, q)
       PROVE  Account(f)'
  <2>1. /\ UNCHANGED <<book, closed, step>> /\ pc = "gates" /\ pc' = "net" /\ rem' = q
        /\ step = "pick"
    BY <1>3, <1>13 DEF ExecuteOrder, Closing
  <2>2. /\ Len(fills') = Len(fills) + 1 /\ Len(fills') <= MaxFills
        /\ \A g \in 1 .. Len(fills) : fills'[g] = fills[g]
        /\ fills'[Len(fills')] = [symbol |-> symbol, side |-> side, qty |-> q]
    BY <1>13, NewFill
  <2>3. CASE f = Len(fills')
    <3>1. f \in Fill /\ f > Len(fills)
      BY <1>4, <2>2, <2>3 DEF Fill
    <3>2. closed[f] = 0
      BY <3>1
    <3>3. book[f] > 0 => f <= Len(fills)
      BY <3>1 DEF IInv, Lots
    <3>4. book[f] = 0
      <4>1. book[f] \in 0 .. MaxQty /\ f \in Int
        BY <1>3, <3>1 DEF BookType, Fill
      <4>2. QED
        BY <1>4, <3>1, <3>3, <4>1, DeskAssumption
    <3>5. QED
      BY <2>1, <2>2, <2>3, <3>2, <3>4
  <2>4. CASE f # Len(fills')
    <3>1. f \in 1 .. Len(fills) /\ fills'[f] = fills[f]
      BY <1>4, <2>2, <2>4 DEF Bought
    <3>2. f \in Bought
      BY <3>1 DEF Bought
    <3>3. QED
      BY <1>3, <2>1, <2>4, <3>1, <3>2
  <2>5. QED
    BY <2>3, <2>4
<1>14. CASE NetOldest
  <2>1. PICK g \in Fill :
            /\ g <= Len(fills) /\ Current.side = "sell" /\ book[g] > 0
            /\ CloseOf(g, Minimum(rem, book[g])) /\ Minimum(rem, book[g]) <= book[g]
    BY <1>14, Netting
  <2>2. /\ UNCHANGED <<fills, closed, pc>> /\ pc = "net" /\ step = "pick" /\ step' = "log"
    BY <1>14 DEF NetOldest
  <2>3. f # Len(fills)
    BY <1>5, <2>1, <2>2 DEF Current
  <2>4. book[f] + closed[f] = fills[f].qty
    BY <1>5, <2>2, <2>3
  <2>5. /\ lot' = g
        /\ \/ book' = [book EXCEPT ![g] = 0] /\ amt' = book[g]
           \/ book' = book
    BY <2>1 DEF CloseOf, CloseWhole
  <2>6. CASE f # g
    BY <1>3, <1>5, <2>2, <2>3, <2>4, <2>5, <2>6 DEF BookType
  <2>7. CASE f = g /\ book' = book
    BY <1>5, <2>1, <2>2, <2>3, <2>4, <2>5, <2>7
  <2>8. CASE f = g /\ book' # book
    BY <1>3, <1>5, <2>2, <2>3, <2>4, <2>5, <2>8 DEF BookType
  <2>9. QED
    BY <2>6, <2>7, <2>8
<1>15. CASE OpenResidue
  <2>1. /\ UNCHANGED <<fills, closed>> /\ pc = "net" /\ pc' = "idle"
        /\ step = "pick" /\ step' = "pick"
    BY <1>15 DEF OpenResidue, EndCycle
  <2>2. CASE f = Len(fills)
    <3>1. rem > 0 /\ Current.side = "buy"
      BY <1>5, <2>1, <2>2 DEF Current
    <3>2. book' = [book EXCEPT ![Len(fills)] = rem]
      BY <1>15, <3>1 DEF OpenResidue
    <3>3. book'[f] = rem
      BY <1>3, <1>5, <2>1, <2>2, <3>2 DEF BookType
    <3>4. QED
      BY <1>5, <1>6, <2>1, <2>2, <3>3
  <2>3. CASE f # Len(fills)
    <3>1. book'[f] = book[f]
      BY <1>3, <1>5, <1>15, <2>1, <2>3 DEF OpenResidue, BookType
    <3>2. QED
      BY <1>5, <2>1, <2>3, <3>1
  <2>4. QED
    BY <2>2, <2>3
<1>16. CASE CycleEnd
  <2>1. UNCHANGED <<fills, book, closed>> /\ pc = "gates" /\ pc' = "idle" /\ step' = "pick"
    BY <1>16 DEF CycleEnd, EndCycle
  <2>2. QED
    BY <1>3, <1>8, <2>1 DEF Closing
<1>17. ASSUME NEW s \in Symbols, NEW H \in SUBSET LotsOfPair(s), CycleStart(s, H)
       PROVE  Account(f)'
  <2>1. UNCHANGED <<fills, book, closed, step>> /\ pc = "idle" /\ pc' = "exits"
    BY <1>17 DEF CycleStart
  <2>2. QED
    BY <1>3, <1>8, <2>1 DEF Closing
<1>18. CASE ExitsDone
  <2>1. /\ UNCHANGED <<fills, book, closed, step>> /\ pc = "exits" /\ pc' = "gates"
        /\ step = "pick"
    BY <1>18 DEF ExitsDone
  <2>2. QED
    BY <1>8, <2>1
<1>19. QED
  BY <1>2, <1>7, <1>9, <1>10, <1>11, <1>12, <1>13, <1>14, <1>15, <1>16, <1>17, <1>18
     DEF Next, CycleStep, CycleBlocked, Cooldown, vars, cycleVars

LEMMA AccountsStep ==
  ASSUME IInv, Accounts, [Next]_vars
  PROVE  Accounts'
<1>1. \A f \in Fill : f > Len(fills') => closed'[f] = 0
  BY UnusedAccountsStep DEF Accounts
<1> SUFFICES ASSUME crashes' = 0 /\ ledgerErrors' = 0, NEW f \in Bought' PROVE Account(f)'
  BY <1>1 DEF Accounts
<1>2. crashes = 0 /\ ledgerErrors = 0 /\ ~(Crash \/ CrashUnreadable \/ LogCloseError)
  BY FailuresOnlyGrow
<1>3. QED
  BY <1>2, AccountStep DEF Accounts

\* The running loop keeps its books: whatever the mirror does, as long as neither a
\* restart nor a ledger error interrupts a close, what is open and what the ledger
\* says was closed add up to what each buy brought, between any two bookings.
THEOREM BooksBalance == Spec => []BookBalanced
<1>1. IInv /\ Accounts => BookBalanced
  <2> SUFFICES ASSUME IInv, Accounts, crashes = 0 /\ ledgerErrors = 0 /\ Resting,
                      NEW f \in Bought
               PROVE  book[f] + closed[f] = fills[f].qty
    BY DEF BookBalanced, Balanced
  <2>0. BookType /\ Account(f) /\ f \in 1 .. Len(fills)
    BY DEF Accounts, IInv, TypeOK, Bought
  <2>1. f \in Fill /\ Account(f) /\ BookType
    BY SMTT(30), <2>0, DeskAssumption DEF BookType, Fill
  <2>2. book[f] \in 0 .. MaxQty /\ closed[f] \in Nat
    BY <2>1 DEF BookType
  <2>3. QED
    BY <2>1, <2>2, DeskAssumption DEF Account, Due, Resting
<1>2. Spec => []Accounts
  BY AccountsInit, AccountsStep, Invariance, PTL DEF Spec
<1>3. QED
  BY <1>1, <1>2, Invariance, PTL

-----------------------------------------------------------------------------
(* What the desk keeps through failures and restarts, for any number of    *)
(* them: the mirror, the memory of the breaker, the order of netting, the  *)
(* slots, and the accounts of all lots but one per failure.                *)

Missed == diskErrors + loadErrors

\* The mirror is exact at every moment, not only between cycles.
Mirrored == Missed = 0 => book = disk /\ breaker = saved

\* A loss is in the ledger before it is in the breaker, and in the breaker before it is
\* saved; each failure costs one.
Remembers ==
    loadErrors = 0 =>
      /\ step # "feed" => streak <= saved.losses + Failures /\ streak <= breaker.losses + Failures
      /\ step = "feed" => streak <= saved.losses + Failures + 1
      /\ step = "feed" /\ pnl < 0 => streak <= breaker.losses + 1 + Failures
      /\ step = "feed" /\ ~(pnl < 0) => streak <= Failures

\* A trip that is not saved was missed, and a cycle opens one lot: what a tripped cycle
\* has still to open is allowed for.
Trips ==
    /\ openedTripped <= Missed + 1
    /\ breaker.trip = "no" \/ saved.trip = "no" => openedTripped <= Missed
    /\ breaker.trip = "cold" => pc = "idle"
    /\ breaker.trip = "hot" /\ pc # "idle" => openedTripped <= Missed
    /\ breaker.trip = "hot" /\ saved.trip # "hot" => openedTripped <= Missed
    /\ breaker.trip = "hot" /\ saved.trip # "hot" /\ pc # "idle" => openedTripped + 1 <= Missed

\* In the middle of a close no older lot of the pair is left; the fill that is being
\* netted has no lot.
InOrder ==
    /\ pc = "net" => book[Len(fills)] = 0
    /\ pc = "net" /\ step # "pick" =>
         \A g \in Fill : g < lot /\ fills[g].symbol = fills[lot].symbol => book[g] = 0

LEMMA CountsAreNat ==
  ASSUME IInv
  PROVE  /\ crashes \in Nat /\ diskErrors \in Nat /\ ledgerErrors \in Nat /\ loadErrors \in Nat
         /\ streak \in Nat /\ openedTripped \in Nat /\ Failures \in Nat /\ Missed \in Nat
  BY DEF IInv, TypeOK, CountType, Failures, Missed

LEMMA BreakersAreTyped ==
  ASSUME IInv
  PROVE  /\ breaker \in Breaker /\ saved \in Breaker /\ pnl \in Int
         /\ breaker.losses \in Nat /\ saved.losses \in Nat
         /\ breaker.trip \in Trip /\ saved.trip \in Trip
  BY DEF IInv, TypeOK, BreakerType, CycleType, Breaker

-----------------------------------------------------------------------------
(* The mirror.                                                             *)

LEMMA LotMirrored ==
  ASSUME IInv, Mirrored, NEW f, NEW q, book' = [book EXCEPT ![f] = q], WriteDisk(f, q),
         UNCHANGED <<breaker, saved, loadErrors>>
  PROVE  Mirrored'
<1>1. diskErrors \in Nat /\ loadErrors \in Nat
  BY CountsAreNat
<1>2. CASE disk' = [disk EXCEPT ![f] = q] /\ diskErrors' = diskErrors
  BY <1>1, <1>2 DEF Mirrored, Missed
<1>3. CASE diskErrors' = diskErrors + 1
  BY <1>1, <1>3 DEF Mirrored, Missed
<1>4. QED  BY <1>2, <1>3 DEF WriteDisk

LEMMA BreakerMirrored ==
  ASSUME IInv, Mirrored, SaveBreaker(breaker'), UNCHANGED <<book, disk, loadErrors>>
  PROVE  Mirrored'
<1>1. diskErrors \in Nat /\ loadErrors \in Nat
  BY CountsAreNat
<1>2. QED  BY <1>1 DEF SaveBreaker, Mirrored, Missed

LEMMA NothingMirrored ==
  ASSUME Mirrored, UNCHANGED <<book, disk, breaker, saved, diskErrors, loadErrors>>
  PROVE  Mirrored'
  BY DEF Mirrored, Missed

LEMMA MirroredStep == IInv /\ Mirrored /\ [Next]_vars => Mirrored'
<1> SUFFICES ASSUME IInv, Mirrored, [Next]_vars PROVE Mirrored'
  OBVIOUS
<1>1. ASSUME NEW s \in Symbols, NEW H \in SUBSET LotsOfPair(s), CycleBlocked(s, H) PROVE Mirrored'
  BY <1>1, NothingMirrored DEF CycleBlocked, failVars, nonDiskVars
<1>2. ASSUME NEW s \in Symbols, NEW H \in SUBSET LotsOfPair(s), CycleStart(s, H) PROVE Mirrored'
  <2>1. UNCHANGED <<book, disk, loadErrors>>
    BY <1>2 DEF CycleStart, nonDiskVars
  <2>2. UNCHANGED <<breaker, saved, diskErrors>> \/ SaveBreaker(breaker')
    BY <1>2 DEF CycleStart
  <2>3. QED  BY <2>1, <2>2, NothingMirrored, BreakerMirrored
<1>3. CASE ExitLot
  <2>1. PICK f \in hit : book' = [book EXCEPT ![f] = 0] /\ WriteDisk(f, 0)
    BY <1>3 DEF ExitLot, CloseWhole
  <2>2. QED  BY <1>3, <2>1, LotMirrored DEF ExitLot, nonDiskVars
<1>4. CASE ExitsDone \/ LogClose \/ LogCloseError \/ CycleEnd
  BY <1>4, NothingMirrored DEF ExitsDone, LogClose, LogCloseError, CycleEnd, failVars, nonDiskVars
<1>5. CASE FeedBreaker
  BY <1>5, BreakerMirrored DEF FeedBreaker, nonDiskVars
<1>6. CASE ShrinkLot
  <2>1. book' = [book EXCEPT ![lot] = book[lot] - amt] /\ WriteDisk(lot, book'[lot])
    BY <1>6 DEF ShrinkLot
  <2>2. book'[lot] = book[lot] - amt
    BY <1>6, <2>1, DeskAssumption DEF ShrinkLot, IInv, Closing, TypeOK, BookType, Fill
  <2>3. QED  BY <1>6, <2>1, <2>2, LotMirrored DEF ShrinkLot, nonDiskVars
<1>7. ASSUME NEW side \in Side, NEW q \in 1 .. MaxQty, ExecuteOrder(side, q) PROVE Mirrored'
  BY <1>7, NothingMirrored DEF ExecuteOrder, failVars, nonDiskVars
<1>8. CASE NetOldest
  <2>1. PICK f \in Candidates : CloseOf(f, Minimum(rem, book[f]))
    BY <1>8 DEF NetOldest
  <2>2. UNCHANGED <<breaker, saved, loadErrors>>
    BY <1>8 DEF NetOldest, nonDiskVars
  <2>3. (book' = [book EXCEPT ![f] = 0] /\ WriteDisk(f, 0)) \/ UNCHANGED <<book, disk, diskErrors>>
    BY <2>1 DEF CloseOf, CloseWhole
  <2>4. QED  BY <2>2, <2>3, LotMirrored, NothingMirrored
<1>9. CASE OpenResidue
  <2>1. UNCHANGED <<breaker, saved, loadErrors>>
    BY <1>9 DEF OpenResidue, nonDiskVars
  <2>2. \/ book' = [book EXCEPT ![Len(fills)] = rem] /\ WriteDisk(Len(fills), rem)
        \/ UNCHANGED <<book, disk, diskErrors>>
    BY <1>9 DEF OpenResidue
  <2>3. QED  BY <2>1, <2>2, LotMirrored, NothingMirrored
<1>10. CASE Crash
  BY <1>10 DEF Crash, Mirrored, Missed
<1>11. CASE CrashUnreadable
  <2>1. loadErrors' = loadErrors + 1 /\ diskErrors' = diskErrors
    BY <1>11 DEF CrashUnreadable
  <2>2. QED  BY <2>1, CountsAreNat DEF Mirrored, Missed
<1>12. CASE Cooldown
  BY <1>12 DEF Cooldown, Mirrored, Missed, failVars, nonDiskVars
<1>13. CASE UNCHANGED vars
  BY <1>13, NothingMirrored DEF vars, failVars, nonDiskVars
<1>14. QED
  BY <1>1, <1>2, <1>3, <1>4, <1>5, <1>6, <1>7, <1>8, <1>9, <1>10, <1>11, <1>12, <1>13 DEF Next, CycleStep

-----------------------------------------------------------------------------
(* The breaker.                                                            *)

LEMMA FailuresGrow ==
  ASSUME IInv, [Next]_vars
  PROVE  /\ Failures' \in Nat /\ Missed' \in Nat
         /\ Failures <= Failures' /\ Missed <= Missed' /\ loadErrors <= loadErrors'
         /\ diskErrors' \in Nat /\ loadErrors' \in Nat
         /\ crashes <= crashes' /\ ledgerErrors <= ledgerErrors' /\ diskErrors <= diskErrors'
<1>1. /\ crashes' = crashes \/ crashes' = crashes + 1
      /\ diskErrors' = diskErrors \/ diskErrors' = diskErrors + 1
      /\ ledgerErrors' = ledgerErrors \/ ledgerErrors' = ledgerErrors + 1
      /\ loadErrors' = loadErrors \/ loadErrors' = loadErrors + 1
  BY DEF Next, CycleStep, CycleBlocked, CycleStart, ExitLot, CloseWhole, ExitsDone, LogClose, LogCloseError,
     FeedBreaker, ShrinkLot, CycleEnd, ExecuteOrder, NetOldest, CloseOf, OpenResidue, Crash, CrashUnreadable,
     Cooldown, WriteDisk, SaveBreaker, vars, failVars, nonDiskVars
<1>2. QED  BY <1>1, CountsAreNat DEF Failures, Missed

\* A step that touches neither breaker nor ledger ends a cycle, goes on, or fails.
LEMMA QuietRemembers ==
  ASSUME IInv, Remembers, [Next]_vars, UNCHANGED <<breaker, saved, streak>>,
         step = "feed" <=> step' = "feed", pnl' = pnl \/ step # "feed"
  PROVE  Remembers'
<1>1. /\ Failures \in Nat /\ Failures' \in Nat /\ Failures <= Failures' /\ streak \in Nat
      /\ loadErrors \in Nat /\ loadErrors' \in Nat /\ loadErrors <= loadErrors'
      /\ breaker.losses \in Nat /\ saved.losses \in Nat
  BY FailuresGrow, CountsAreNat, BreakersAreTyped
<1>2. breaker' = breaker /\ saved' = saved /\ streak' = streak
  OBVIOUS
<1>3. loadErrors' = 0 => loadErrors = 0
  BY <1>1
<1>4. CASE step = "feed"
  BY <1>1, <1>2, <1>3, <1>4 DEF Remembers
<1>5. CASE step # "feed"
  BY <1>1, <1>2, <1>3, <1>5 DEF Remembers
<1>6. QED  BY <1>4, <1>5

LEMMA RemembersStep == IInv /\ Remembers /\ [Next]_vars => Remembers'
<1> SUFFICES ASSUME IInv, Remembers, [Next]_vars PROVE Remembers'
  OBVIOUS
<1>0. /\ Failures \in Nat /\ Failures' \in Nat /\ Failures <= Failures' /\ streak \in Nat
      /\ loadErrors \in Nat /\ loadErrors' \in Nat /\ loadErrors <= loadErrors'
      /\ breaker.losses \in Nat /\ saved.losses \in Nat /\ pnl \in Int
  BY FailuresGrow, CountsAreNat, BreakersAreTyped
<1>1. ASSUME NEW s \in Symbols, NEW H \in SUBSET LotsOfPair(s), CycleBlocked(s, H) PROVE Remembers'
  BY <1>1, QuietRemembers DEF CycleBlocked, histVars
<1>2. ASSUME NEW s \in Symbols, NEW H \in SUBSET LotsOfPair(s), CycleStart(s, H) PROVE Remembers'
  <2>1. step # "feed" /\ step' = step /\ pnl' = pnl
    BY <1>2 DEF CycleStart, IInv, Closing
  <2>2. CASE breaker.trip = "no"
    BY <1>2, <2>1, <2>2, QuietRemembers DEF CycleStart, histVars
  <2>3. CASE breaker.trip # "no"
    <3>1. streak' = 0 /\ breaker'.losses = 0
      BY <1>2, <2>3, BreakersAreTyped DEF CycleStart, Breaker
    <3>2. saved'.losses \in Nat
      <4>1. SaveBreaker(breaker')
        BY <1>2, <2>3 DEF CycleStart
      <4>2. saved' = breaker' \/ saved' = saved
        BY <4>1 DEF SaveBreaker
      <4>3. QED  BY <1>0, <3>1, <4>2
    <3>3. streak' <= saved'.losses + Failures' /\ streak' <= breaker'.losses + Failures'
      <4>1. \A m, n \in Nat : 0 <= m + n
        OBVIOUS
      <4>2. Failures' \in Nat /\ 0 \in Nat
        BY <1>0
      <4>3. QED  BY <3>1, <3>2, <4>1, <4>2
    <3>4. QED  BY <2>1, <3>3 DEF Remembers
  <2>4. QED  BY <2>2, <2>3
<1>3. CASE ExitLot \/ NetOldest
  BY <1>3, QuietRemembers DEF ExitLot, NetOldest, histVars
<1>4. CASE ExitsDone \/ LogCloseError \/ CycleEnd \/ ShrinkLot
  <2>1. UNCHANGED <<breaker, saved, streak>>
    BY <1>4 DEF ExitsDone, LogCloseError, CycleEnd, ShrinkLot, histVars
  <2>2. step # "feed" /\ step' # "feed"
    BY <1>4 DEF ExitsDone, LogCloseError, CycleEnd, ShrinkLot, EndCycle, IInv, Closing
  <2>3. QED  BY <2>1, <2>2, QuietRemembers
<1>5. CASE LogClose
  <2>1. PICK p \in Pnl : pnl' = p /\ streak' = IF p < 0 THEN streak + 1 ELSE 0
    BY <1>5 DEF LogClose
  <2>2. step = "log" /\ step' = "feed" /\ UNCHANGED <<breaker, saved, failVars>> /\ p \in Int
    BY <1>5, DeskAssumption DEF LogClose
  <2>3. Failures' = Failures /\ loadErrors' = loadErrors
    BY <2>2 DEF Failures, failVars, nonDiskVars
  <2>4. loadErrors' = 0 => streak <= saved.losses + Failures /\ streak <= breaker.losses + Failures
    BY <2>2, <2>3, <1>0 DEF Remembers
  <2>5. CASE p < 0
    BY <1>0, <2>1, <2>2, <2>3, <2>4, <2>5 DEF Remembers
  <2>6. CASE ~(p < 0)
    BY <1>0, <2>1, <2>2, <2>3, <2>4, <2>6 DEF Remembers
  <2>7. QED  BY <2>5, <2>6
<1>6. CASE FeedBreaker
  <2>1. /\ step = "feed" /\ step' # "feed" /\ streak' = streak /\ breaker' = Fed(breaker, pnl)
        /\ SaveBreaker(breaker') /\ UNCHANGED nonDiskVars
    BY <1>6 DEF FeedBreaker, histVars
  <2>2. /\ pnl < 0 => breaker'.losses = breaker.losses + 1
        /\ ~(pnl < 0) => breaker'.losses = 0
    BY <2>1 DEF Fed
  <2>3. loadErrors = 0 => streak <= breaker'.losses + Failures
    BY <1>0, <2>1, <2>2 DEF Remembers
  <2>4. CASE saved' = breaker' /\ UNCHANGED diskErrors
    <3>1. Failures' = Failures /\ loadErrors' = loadErrors
      BY <2>1, <2>4 DEF Failures, nonDiskVars
    <3>2. QED  BY <2>1, <2>3, <2>4, <3>1 DEF Remembers
  <2>5. CASE saved' = saved /\ diskErrors' = diskErrors + 1
    <3>1. Failures' = Failures + 1 /\ loadErrors' = loadErrors
      BY <2>1, <2>5, CountsAreNat DEF Failures, nonDiskVars
    <3>2. loadErrors = 0 => streak <= saved.losses + Failures + 1
      BY <2>1 DEF Remembers
    <3>3. breaker'.losses \in Nat
      BY <1>0, <2>2
    <3>4. loadErrors = 0 => streak <= breaker'.losses + (Failures + 1) /\ streak <= saved.losses + (Failures + 1)
      BY <1>0, <2>3, <3>2, <3>3
    <3>5. QED  BY <2>1, <2>5, <3>1, <3>4 DEF Remembers
  <2>6. QED  BY <2>1, <2>4, <2>5 DEF SaveBreaker
<1>7. ASSUME NEW side \in Side, NEW q \in 1 .. MaxQty, ExecuteOrder(side, q) PROVE Remembers'
  BY <1>7, QuietRemembers DEF ExecuteOrder, histVars
<1>8. CASE OpenResidue
  BY <1>8, QuietRemembers DEF OpenResidue, EndCycle
<1>9. CASE Crash
  <2>1. Failures' = Failures + 1 /\ loadErrors' = loadErrors
    BY <1>9, CountsAreNat DEF Crash, Failures
  <2>2. breaker' = saved /\ saved' = saved /\ streak' = streak /\ step' = "pick"
    BY <1>9 DEF Crash, EndCycle, histVars
  <2>3. loadErrors' = 0 => streak <= saved.losses + Failures + 1
    BY <1>0, <2>1 DEF Remembers
  <2>4. QED  BY <1>0, <2>1, <2>2, <2>3 DEF Remembers
<1>10. CASE CrashUnreadable
  BY <1>0, <1>10, CountsAreNat DEF CrashUnreadable, Remembers
<1>11. CASE Cooldown
  <2>1. breaker'.losses = breaker.losses /\ saved'.losses = saved.losses
    BY <1>11, BreakersAreTyped DEF Cooldown, Cooled, Breaker
  <2>2. UNCHANGED <<step, pnl, streak, crashes, diskErrors, ledgerErrors, loadErrors>>
    BY <1>11 DEF Cooldown, cycleVars, failVars, nonDiskVars, histVars
  <2>3. QED  BY <2>1, <2>2 DEF Remembers, Failures
<1>12. CASE UNCHANGED vars
  BY <1>12, QuietRemembers DEF vars, cycleVars, histVars
<1>13. QED
  BY <1>1, <1>2, <1>3, <1>4, <1>5, <1>6, <1>7, <1>8, <1>9, <1>10, <1>11, <1>12 DEF Next, CycleStep

\* What Trips says of some breaker, saved copy, place in the cycle, lots opened and misses.
TripsOf(b, c, p, t, m) ==
    /\ t <= m + 1
    /\ b = "no" \/ c = "no" => t <= m
    /\ b = "cold" => p = "idle"
    /\ b = "hot" /\ p # "idle" => t <= m
    /\ b = "hot" /\ c # "hot" => t <= m
    /\ b = "hot" /\ c # "hot" /\ p # "idle" => t + 1 <= m

LEMMA TripsMeaning ==
  /\ Trips <=> TripsOf(breaker.trip, saved.trip, pc, openedTripped, Missed)
  /\ Trips' <=> TripsOf(breaker'.trip, saved'.trip, pc', openedTripped', Missed')
  BY DEF Trips, TripsOf

LEMMA TripsArithmetic ==
  ASSUME NEW b \in Trip, NEW c \in Trip, NEW p, NEW t \in Nat, NEW m \in Nat, TripsOf(b, c, p, t, m)
  PROVE  /\ \A n \in Nat : m <= n => TripsOf(b, c, p, t, n) /\ TripsOf(b, c, "idle", t, n)
         /\ \A n \in Nat : m <= n /\ b = "no" => \A q : TripsOf(b, c, q, t, n)
         /\ \A n \in Nat, d \in Trip : \A q : TripsOf("no", d, q, 0, n)
         /\ p # "idle" => /\ t <= m /\ b # "cold"
                          /\ \A d \in {"no", "hot"} : TripsOf(d, d, p, t, m)
                          /\ \A d \in {"no", "hot"} : TripsOf(d, c, p, t, m + 1)
         /\ p # "idle" /\ b = "hot" => \A n \in Nat : m <= n => TripsOf(b, c, "idle", t + 1, n)
         /\ TripsOf(c, c, "idle", t, m) /\ TripsOf(c, c, "idle", t, m + 1)
         /\ TripsOf("no", c, "idle", t, m + 1)
         /\ b = "hot" => \A d \in {"no", "cold"} : (d = "no" => c = "no") => TripsOf("cold", d, "idle", t, m)
  BY DEF TripsOf, Trip

LEMMA TripsStep == IInv /\ Trips /\ [Next]_vars => Trips'
<1> SUFFICES ASSUME IInv, Trips, [Next]_vars
             PROVE  TripsOf(breaker'.trip, saved'.trip, pc', openedTripped', Missed')
  BY TripsMeaning
<1> DEFINE b == breaker.trip
           c == saved.trip
           t == openedTripped
           m == Missed
           n == Missed'
<1>0. b \in Trip /\ c \in Trip /\ t \in Nat /\ m \in Nat /\ n \in Nat /\ m <= n
  BY FailuresGrow, CountsAreNat, BreakersAreTyped
<1>x. TripsOf(b, c, pc, t, m)
  BY TripsMeaning
<1>a. /\ TripsOf(b, c, pc, t, n) /\ TripsOf(b, c, "idle", t, n)
      /\ b = "no" => TripsOf(b, c, pc', t, n)
      /\ \A d \in Trip : TripsOf("no", d, pc', 0, n)
      /\ pc # "idle" => /\ b # "cold"
                        /\ \A d \in {"no", "hot"} : TripsOf(d, d, pc, t, m)
                        /\ \A d \in {"no", "hot"} : TripsOf(d, c, pc, t, m + 1)
      /\ pc # "idle" /\ b = "hot" => TripsOf(b, c, "idle", t + 1, n)
      /\ TripsOf(c, c, "idle", t, m) /\ TripsOf(c, c, "idle", t, m + 1)
      /\ TripsOf("no", c, "idle", t, m + 1)
      /\ b = "hot" => \A d \in {"no", "cold"} : (d = "no" => c = "no") => TripsOf("cold", d, "idle", t, m)
  <2> HIDE DEF b, c, t, m, n
  <2>1. /\ \A k \in Nat : m <= k => TripsOf(b, c, pc, t, k) /\ TripsOf(b, c, "idle", t, k)
        /\ \A k \in Nat : m <= k /\ b = "no" => \A q : TripsOf(b, c, q, t, k)
        /\ \A k \in Nat, d \in Trip : \A q : TripsOf("no", d, q, 0, k)
        /\ pc # "idle" /\ b = "hot" => \A k \in Nat : m <= k => TripsOf(b, c, "idle", t + 1, k)
    BY <1>0, <1>x, TripsArithmetic, Zenon
  <2>2. pc # "idle" => /\ b # "cold"
                       /\ \A d \in {"no", "hot"} : TripsOf(d, d, pc, t, m)
                       /\ \A d \in {"no", "hot"} : TripsOf(d, c, pc, t, m + 1)
    BY <1>0, <1>x, TripsArithmetic, SMT
  <2>3. /\ TripsOf(c, c, "idle", t, m) /\ TripsOf(c, c, "idle", t, m + 1)
        /\ TripsOf("no", c, "idle", t, m + 1)
    BY <1>0, <1>x, TripsArithmetic, Zenon
  <2>4. b = "hot" => \A d \in {"no", "cold"} : (d = "no" => c = "no") => TripsOf("cold", d, "idle", t, m)
    BY <1>0, <1>x, TripsArithmetic, SMT
  <2>5. QED  BY <1>0, <2>1, <2>2, <2>3, <2>4, Zenon
<1>q. ASSUME UNCHANGED <<breaker, saved, openedTripped>>, pc' = pc \/ pc' = "idle"
      PROVE  TripsOf(breaker'.trip, saved'.trip, pc', openedTripped', Missed')
  BY <1>a, <1>q
<1>1. ASSUME NEW s \in Symbols, NEW H \in SUBSET LotsOfPair(s), CycleBlocked(s, H)
      PROVE  TripsOf(breaker'.trip, saved'.trip, pc', openedTripped', Missed')
  BY <1>1, <1>q DEF CycleBlocked, histVars
<1>2. ASSUME NEW s \in Symbols, NEW H \in SUBSET LotsOfPair(s), CycleStart(s, H)
      PROVE  TripsOf(breaker'.trip, saved'.trip, pc', openedTripped', Missed')
  <2>1. CASE b = "no"
    <3>1. UNCHANGED <<breaker, saved, openedTripped>>
      BY <1>2, <2>1 DEF CycleStart, histVars
    <3>2. QED  BY <1>a, <2>1, <3>1
  <2>2. CASE b # "no"
    <3>1. openedTripped' = 0 /\ breaker'.trip = "no" /\ SaveBreaker(breaker')
      BY <1>2, <2>2, BreakersAreTyped DEF CycleStart, Breaker
    <3>2. saved'.trip \in Trip
      BY <1>0, <3>1 DEF SaveBreaker, Trip
    <3>3. QED  BY <1>a, <3>1, <3>2
  <2>3. QED  BY <2>1, <2>2
<1>3. CASE ExitLot \/ NetOldest \/ LogClose \/ ShrinkLot
  BY <1>3, <1>q DEF ExitLot, NetOldest, LogClose, ShrinkLot, histVars
<1>4. CASE LogCloseError \/ CycleEnd \/ ExitsDone
  <2>1. UNCHANGED <<breaker, saved, openedTripped>> /\ pc # "idle"
    BY <1>4 DEF LogCloseError, CycleEnd, ExitsDone, histVars, IInv, Closing
  <2>2. CASE pc' = "idle"
    BY <1>q, <2>1, <2>2
  <2>3. CASE pc' # "idle"
    <3>1. TripsOf(b, c, pc', t, n)
      BY <1>a, <2>1, <2>3 DEF TripsOf
    <3>2. QED  BY <2>1, <3>1
  <2>4. QED  BY <2>2, <2>3
<1>5. CASE FeedBreaker
  <2>1. /\ breaker' = Fed(breaker, pnl) /\ SaveBreaker(breaker') /\ UNCHANGED nonDiskVars
        /\ openedTripped' = t /\ pc' = pc /\ pc # "idle"
    BY <1>5 DEF FeedBreaker, histVars, IInv, Closing
  <2>2. breaker'.trip = b \/ (b = "no" /\ breaker'.trip = "hot")
    BY <2>1 DEF Fed
  <2>3. breaker'.trip \in {"no", "hot"}
    BY <1>0, <1>a, <2>1, <2>2 DEF Trip
  <2>4. CASE saved' = breaker' /\ UNCHANGED diskErrors
    <3>1. n = m
      BY <2>1, <2>4 DEF Missed, nonDiskVars
    <3>2. QED  BY <1>a, <2>1, <2>3, <2>4, <3>1
  <2>5. CASE saved' = saved /\ diskErrors' = diskErrors + 1
    <3>1. n = m + 1
      BY <2>1, <2>5, CountsAreNat DEF Missed, nonDiskVars
    <3>2. QED  BY <1>a, <2>1, <2>3, <2>5, <3>1
  <2>6. QED  BY <2>1, <2>4, <2>5 DEF SaveBreaker
<1>6. ASSUME NEW side \in Side, NEW q \in 1 .. MaxQty, ExecuteOrder(side, q)
      PROVE  TripsOf(breaker'.trip, saved'.trip, pc', openedTripped', Missed')
  <2>1. UNCHANGED <<breaker, saved, openedTripped>> /\ pc = "gates" /\ pc' = "net"
    BY <1>6 DEF ExecuteOrder, histVars
  <2>2. TripsOf(b, c, "net", t, n)
    BY <1>a, <2>1 DEF TripsOf
  <2>3. QED  BY <2>1, <2>2
<1>7. CASE OpenResidue
  <2>1. /\ UNCHANGED <<breaker, saved>> /\ pc = "net" /\ pc' = "idle"
        /\ openedTripped' = t \/ (b = "hot" /\ openedTripped' = t + 1)
    BY <1>7 DEF OpenResidue, EndCycle
  <2>2. QED  BY <1>a, <2>1
<1>8. CASE Crash
  <2>1. /\ breaker' = saved /\ saved' = saved /\ openedTripped' = t /\ pc' = "idle" /\ n = m
    BY <1>8 DEF Crash, EndCycle, histVars, Missed
  <2>2. QED  BY <1>a, <2>1
<1>9. CASE CrashUnreadable
  <2>1. /\ breaker' \in {saved, NoBreach} /\ saved' = saved /\ openedTripped' = t
        /\ pc' = "idle" /\ loadErrors' = loadErrors + 1 /\ diskErrors' = diskErrors
    BY <1>9 DEF CrashUnreadable, EndCycle, histVars
  <2>2. n = m + 1
    BY <2>1, CountsAreNat DEF Missed
  <2>3. breaker'.trip = c \/ breaker'.trip = "no"
    BY <2>1 DEF NoBreach
  <2>4. QED  BY <1>a, <2>1, <2>2, <2>3
<1>10. CASE Cooldown
  <2>1. /\ breaker' = Cooled(breaker) /\ saved' = Cooled(saved) /\ b = "hot"
        /\ openedTripped' = t /\ pc' = "idle" /\ n = m
    BY <1>10 DEF Cooldown, histVars, cycleVars, failVars, nonDiskVars, Missed
  <2>2. breaker'.trip = "cold" /\ saved'.trip \in {"no", "cold"} /\ (saved'.trip = "no" => c = "no")
    BY <2>1, BreakersAreTyped DEF Cooled, Breaker, Trip
  <2>3. QED  BY <1>a, <2>1, <2>2
<1>11. CASE UNCHANGED vars
  BY <1>11, <1>q DEF vars, cycleVars, histVars
<1>12. QED
  BY <1>1, <1>2, <1>3, <1>4, <1>5, <1>6, <1>7, <1>8, <1>9, <1>10, <1>11 DEF Next, CycleStep

-----------------------------------------------------------------------------
(* Netting.                                                                *)

\* While a fill is netted all lots are buys, and those of its pair are its candidates.
LEMMA NettedLots ==
  ASSUME IInv, NetOldest
  PROVE  \E f \in Fill :
           /\ CloseOf(f, Minimum(rem, book[f])) /\ book[f] > 0 /\ fills[f].symbol = symbol
           /\ \A g \in Fill : g < f /\ fills[g].symbol = fills[f].symbol => book[g] = 0
<1>1. PICK f \in Candidates : /\ \A g \in Candidates : f <= g
                              /\ CloseOf(f, Minimum(rem, book[f]))
  BY DEF NetOldest
<1>2. f \in Fill /\ book[f] > 0 /\ fills[f].symbol = symbol /\ fills[f].side = Opposite(Current.side)
  BY <1>1 DEF Candidates, LotsOf, OpenLots
<1>3. fills[f].side = "buy"
  BY <1>2 DEF IInv, Lots
<1>4. ASSUME NEW g \in Fill, g < f, fills[g].symbol = fills[f].symbol PROVE book[g] = 0
  <2>1. book[g] \in Nat
    BY DEF IInv, TypeOK, BookType
  <2>2. ASSUME book[g] > 0 PROVE FALSE
    <3>1. fills[g].side = "buy"
      BY <2>2 DEF IInv, Lots
    <3>2. g \in Candidates
      BY <1>2, <1>3, <1>4, <2>2, <3>1 DEF Candidates, LotsOf, OpenLots
    <3>3. f \in Int /\ g \in Int /\ f <= g
      BY <1>1, <1>2, <3>2 DEF Fill
    <3>4. QED  BY <1>4, <3>3
  <2>3. QED  BY <2>1, <2>2
<1>5. QED  BY <1>1, <1>2, <1>4

LEMMA InOrderStep == IInv /\ InOrder /\ [Next]_vars => InOrder'
<1> SUFFICES ASSUME IInv, InOrder, [Next]_vars, pc' = "net"
             PROVE  /\ book'[Len(fills')] = 0
                    /\ step' # "pick" => \A g \in Fill :
                         g < lot' /\ fills'[g].symbol = fills'[lot'].symbol => book'[g] = 0
  BY DEF InOrder
<1>0. book \in [Fill -> 0 .. MaxQty] /\ fills \in Seq(Trade) /\ Len(fills) <= MaxFills
  BY DEF IInv, TypeOK, BookType
<1>1. ASSUME NEW side \in Side, NEW q \in 1 .. MaxQty, ExecuteOrder(side, q)
      PROVE  step' = "pick" /\ book'[Len(fills')] = 0
  <2>1. pc = "gates" /\ Len(fills) < MaxFills /\ book' = book /\ step' = step
        /\ fills' = Append(fills, [symbol |-> symbol, side |-> side, qty |-> q])
    BY <1>1 DEF ExecuteOrder
  <2>2. Len(fills') = Len(fills) + 1 /\ Len(fills) \in Nat
    BY <1>0, <2>1
  <2>3. Len(fills) + 1 \in Fill /\ ~(Len(fills) + 1 <= Len(fills))
    BY <2>1, <2>2, DeskAssumption DEF Fill
  <2>4. book[Len(fills) + 1] = 0
    BY <1>0, <2>3 DEF IInv, Lots
  <2>5. QED  BY <2>1, <2>2, <2>4 DEF IInv, Closing
<1>2. CASE NetOldest
  <2>1. PICK f \in Fill :
           /\ CloseOf(f, Minimum(rem, book[f])) /\ book[f] > 0
           /\ \A g \in Fill : g < f /\ fills[g].symbol = fills[f].symbol => book[g] = 0
    BY <1>2, NettedLots
  <2>2. lot' = f /\ (book' = book \/ book' = [book EXCEPT ![f] = 0]) /\ fills' = fills /\ pc = "net"
    BY <1>2, <2>1 DEF CloseOf, CloseWhole, NetOldest
  <2>3. \A g \in Fill : book'[g] = book[g] \/ book'[g] = 0
    BY <1>0, <2>2
  <2>4. Len(fills) \in Fill
    BY <1>0, <2>2, DeskAssumption DEF IInv, Closing, Fill
  <2>5. book[Len(fills)] = 0
    BY <2>2 DEF InOrder
  <2>6. QED  BY <2>1, <2>2, <2>3, <2>4, <2>5
<1>3. CASE ShrinkLot
  <2>1. /\ book' = [book EXCEPT ![lot] = @ - amt] /\ step' = "pick" /\ fills' = fills /\ pc = "net"
        /\ book[lot] # 0
    BY <1>0, <1>3, DeskAssumption DEF ShrinkLot, IInv, Closing, TypeOK, CycleType
  <2>2. lot # Len(fills)
    BY <2>1 DEF InOrder
  <2>3. Len(fills) \in Fill
    BY <1>0, <2>1, DeskAssumption DEF IInv, Closing, Fill
  <2>4. QED  BY <1>0, <2>1, <2>2, <2>3 DEF InOrder
<1>4. CASE LogClose \/ FeedBreaker \/ UNCHANGED vars
  <2>1. fills' = fills /\ book' = book /\ lot' = lot /\ pc = "net" /\ (step' # "pick" => step # "pick")
    BY <1>4 DEF LogClose, FeedBreaker, vars, cycleVars
  <2>2. QED  BY <2>1 DEF InOrder
<1>5. \/ LogClose \/ FeedBreaker \/ ShrinkLot \/ NetOldest \/ UNCHANGED vars
      \/ \E side \in Side, q \in 1 .. MaxQty : ExecuteOrder(side, q)
  <2>1. ~(CycleEnd \/ OpenResidue \/ Crash \/ CrashUnreadable)
    BY DEF CycleEnd, OpenResidue, Crash, CrashUnreadable, EndCycle
  <2>2. ~(ExitsDone \/ ExitLot \/ LogCloseError \/ Cooldown)
    BY DEF ExitsDone, ExitLot, LogCloseError, EndCycle, Cooldown, cycleVars
  <2>3. \A s \in Symbols : \A H \in SUBSET LotsOfPair(s) : ~CycleBlocked(s, H) /\ ~CycleStart(s, H)
    BY DEF CycleBlocked, CycleStart
  <2>4. QED  BY <2>1, <2>2, <2>3 DEF Next, CycleStep
<1>6. QED  BY <1>1, <1>2, <1>3, <1>4, <1>5

Netted ==
    pc = "net" => \A f \in Fill :
        book'[f] < book[f] /\ crashes' = crashes
            => \A g \in Fill : g < f /\ fills[g].symbol = fills[f].symbol => book[g] = 0

LEMMA NettedStep == IInv /\ InOrder /\ [Next]_vars => [Netted]_book
<1> SUFFICES ASSUME IInv, InOrder, [Next]_vars, pc = "net", NEW f \in Fill, book'[f] < book[f], crashes' = crashes,
                    NEW g \in Fill, g < f, fills[g].symbol = fills[f].symbol
             PROVE  book[g] = 0
  BY DEF Netted
<1>0. book \in [Fill -> 0 .. MaxQty] /\ crashes \in Nat
  BY DEF IInv, TypeOK, BookType, CountType
<1>1. book' # book /\ crashes' # crashes + 1
  BY <1>0
<1>2. CASE NetOldest
  <2>1. PICK h \in Fill :
           /\ CloseOf(h, Minimum(rem, book[h])) /\ book[h] > 0
           /\ \A k \in Fill : k < h /\ fills[k].symbol = fills[h].symbol => book[k] = 0
    BY <1>2, NettedLots
  <2>2. book' = [book EXCEPT ![h] = 0]
    BY <1>1, <2>1 DEF CloseOf, CloseWhole
  <2>3. f = h
    BY <1>0, <2>2
  <2>4. QED  BY <2>1, <2>3
<1>3. CASE ShrinkLot
  <2>1. book' = [book EXCEPT ![lot] = @ - amt] /\ step = "shrink"
    BY <1>3 DEF ShrinkLot
  <2>2. f = lot
    BY <1>0, <2>1
  <2>3. QED  BY <2>1, <2>2 DEF InOrder
<1>4. CASE OpenResidue
  <2>1. book' = [book EXCEPT ![Len(fills)] = rem] /\ rem > 0
    BY <1>1, <1>4 DEF OpenResidue
  <2>2. f = Len(fills) /\ book'[f] = rem
    BY <1>0, <2>1
  <2>3. book[f] = 0
    BY <2>2 DEF InOrder
  <2>4. QED  BY <1>0, <2>1, <2>2, <2>3 DEF IInv, TypeOK, CycleType
<1>5. CASE ExitLot
  BY <1>5 DEF ExitLot
<1>6. NetOldest \/ ShrinkLot \/ OpenResidue \/ ExitLot
  BY <1>1, <1>0 DEF Next, CycleStep, CycleBlocked, CycleStart, ExitsDone, LogClose, LogCloseError, FeedBreaker,
     CycleEnd, ExecuteOrder, Crash, CrashUnreadable, Cooldown, vars
<1>7. QED  BY <1>2, <1>3, <1>4, <1>5, <1>6

-----------------------------------------------------------------------------
RecoveryInv == Mirrored /\ Remembers /\ Trips /\ InOrder

LEMMA RecoveryInit == Init => RecoveryInv
<1> SUFFICES ASSUME Init PROVE RecoveryInv
  OBVIOUS
<1>1. /\ book = disk /\ breaker = NoBreach /\ saved = NoBreach /\ pc = "idle" /\ step = "pick" /\ streak = 0
      /\ openedTripped = 0 /\ Failures = 0 /\ Missed = 0
  BY DEF Init, Failures, Missed
<1>2. QED  BY <1>1 DEF RecoveryInv, Mirrored, Remembers, Trips, InOrder, NoBreach

LEMMA RecoveryInvariance == Spec => []RecoveryInv
<1>1. IInv /\ RecoveryInv /\ [Next]_vars => RecoveryInv'
  BY MirroredStep, RemembersStep, TripsStep, InOrderStep DEF RecoveryInv
<1>2. QED  BY <1>1, RecoveryInit, Invariance, PTL DEF Spec

\* Between cycles, and at any other moment, memory and mirror agree as long as no access
\* to the mirror failed (orchestration/position_store.py).
THEOREM MirrorIsExact == Spec => []MirrorExact
<1>1. RecoveryInv => MirrorExact
  BY DEF RecoveryInv, Mirrored, Missed, MirrorExact
<1>2. QED  BY <1>1, RecoveryInvariance, PTL

\* Each failure makes the breaker forget one loss at most, and each missed access to the
\* mirror lets one more order through after a trip (CircuitBreaker).
THEOREM BreakerIsHeld == Spec => []BreakerHolds
<1>1. IInv /\ RecoveryInv => BreakerHolds
  <2> SUFFICES ASSUME IInv, RecoveryInv PROVE BreakerHolds
    OBVIOUS
  <2>1. StreakRemembered
    BY DEF RecoveryInv, Remembers, StreakRemembered, Resting
  <2>2. openedTripped <= 1 + diskErrors + loadErrors
    BY CountsAreNat DEF RecoveryInv, Trips, Missed
  <2>3. QED  BY <2>1, <2>2 DEF BreakerHolds
<1>2. QED  BY <1>1, Invariance, RecoveryInvariance, PTL

\* Netting takes the oldest lot of the pair first, also when it takes a part of it
\* (_match_or_open).
THEOREM NettingIsFifo == Spec => FifoNetting
<1>1. IInv /\ RecoveryInv /\ [Next]_vars => [Netted]_book
  BY NettedStep DEF RecoveryInv
<1>2. QED  BY <1>1, Invariance, RecoveryInvariance, PTL DEF Spec, FifoNetting, Netted

-----------------------------------------------------------------------------
(* The slots.                                                              *)

\* Of lots B in memory and D on disk: those only the disk has, which a restart would bring
\* back, are one per failed write, and so is what exceeds the slots.
SlotsOf(B, D, e) ==
    /\ Cardinality(D \ B) <= e
    /\ Cardinality(B \cup D) <= MaxConcurrent + e

Slots ==
    loadErrors = 0 =>
      /\ SlotsOf(OpenLots(book), OpenLots(disk), diskErrors)
      /\ pc = "net" /\ Current.side = "buy" => Cardinality(OpenLots(book)) < MaxConcurrent

LEMMA OneMore ==
  ASSUME NEW S, IsFiniteSet(S), NEW x
  PROVE  /\ IsFiniteSet(S \cup {x}) /\ Cardinality(S) \in Nat /\ Cardinality(S \cup {x}) \in Nat
         /\ Cardinality(S \cup {x}) <= Cardinality(S) + 1
<1>1. IsFiniteSet(S \cup {x})
  BY FS_AddElement
<1>2. Cardinality(S \cup {x}) = Cardinality(S) \/ Cardinality(S \cup {x}) = Cardinality(S) + 1
  BY FS_AddElement
<1>3. Cardinality(S) \in Nat /\ Cardinality(S \cup {x}) \in Nat
  BY <1>1, FS_CardinalityType
<1>4. QED  BY <1>1, <1>2, <1>3

LEMMA AtMostBoth ==
  ASSUME NEW S, IsFiniteSet(S), NEW T, IsFiniteSet(T)
  PROVE  /\ IsFiniteSet(S \cup T) /\ Cardinality(S \cup T) \in Nat
         /\ Cardinality(S) \in Nat /\ Cardinality(T) \in Nat
         /\ Cardinality(S \cup T) <= Cardinality(S) + Cardinality(T)
<1>1. IsFiniteSet(S \cup T) /\ IsFiniteSet(S \cap T)
  BY FS_Union, FS_Intersection
<1>2. Cardinality(S \cup T) = Cardinality(S) + Cardinality(T) - Cardinality(S \cap T)
  BY FS_Union
<1>3. /\ Cardinality(S \cup T) \in Nat /\ Cardinality(S \cap T) \in Nat
      /\ Cardinality(S) \in Nat /\ Cardinality(T) \in Nat
  BY <1>1, FS_CardinalityType
<1>4. QED  BY <1>1, <1>2, <1>3

LEMMA FewerSlots ==
  ASSUME NEW B, NEW D, NEW e \in Nat, IsFiniteSet(B), IsFiniteSet(D), SlotsOf(B, D, e),
         NEW C, NEW E, NEW g \in Nat, C \cup E \subseteq B \cup D, e <= g,
         \/ E \ C \subseteq D \ B
         \/ e < g /\ \E f : E \ C \subseteq (D \ B) \cup {f}
  PROVE  SlotsOf(C, E, g)
<1> USE DeskAssumption
<1>1. IsFiniteSet(D \ B) /\ IsFiniteSet(B \cup D)
  BY FS_Difference, FS_Union
<1>2. Cardinality(C \cup E) <= Cardinality(B \cup D) /\ Cardinality(C \cup E) \in Nat
      /\ Cardinality(B \cup D) \in Nat /\ Cardinality(D \ B) \in Nat
  BY <1>1, FS_Subset, FS_CardinalityType
<1>3. Cardinality(E \ C) <= g
  <2>1. CASE E \ C \subseteq D \ B
    <3>1. Cardinality(E \ C) <= Cardinality(D \ B) /\ Cardinality(E \ C) \in Nat
      BY <1>1, <2>1, FS_Subset, FS_CardinalityType
    <3>2. QED  BY <1>2, <3>1 DEF SlotsOf
  <2>2. ASSUME e < g, NEW f, E \ C \subseteq (D \ B) \cup {f} PROVE Cardinality(E \ C) <= g
    <3>1. IsFiniteSet((D \ B) \cup {f}) /\ Cardinality((D \ B) \cup {f}) <= Cardinality(D \ B) + 1
      BY <1>1, OneMore
    <3>2. /\ Cardinality(E \ C) <= Cardinality((D \ B) \cup {f}) /\ Cardinality(E \ C) \in Nat
          /\ Cardinality((D \ B) \cup {f}) \in Nat
      BY <2>2, <3>1, FS_Subset, FS_CardinalityType
    <3>3. QED  BY <1>2, <2>2, <3>1, <3>2 DEF SlotsOf
  <2>3. QED  BY <2>1, <2>2
<1>4. QED  BY <1>2, <1>3 DEF SlotsOf

LEMMA OneMoreSlot ==
  ASSUME NEW B, NEW D, NEW e \in Nat, IsFiniteSet(B), IsFiniteSet(D), SlotsOf(B, D, e),
         Cardinality(B) < MaxConcurrent,
         NEW f, NEW E, NEW g \in Nat, e <= g, D \subseteq E, E \subseteq D \cup {f}
  PROVE  SlotsOf(B \cup {f}, E, g)
<1> USE DeskAssumption
<1>1. IsFiniteSet(D \ B)
  BY FS_Difference
<1>2. /\ IsFiniteSet(B \cup {f}) /\ Cardinality(B \cup {f}) <= Cardinality(B) + 1
      /\ Cardinality(B) \in Nat /\ Cardinality(B \cup {f}) \in Nat
  BY OneMore
<1>3. /\ Cardinality((B \cup {f}) \cup (D \ B)) <= Cardinality(B \cup {f}) + Cardinality(D \ B)
      /\ Cardinality((B \cup {f}) \cup (D \ B)) \in Nat /\ Cardinality(D \ B) \in Nat
  BY <1>1, <1>2, AtMostBoth
<1>4. (B \cup {f}) \cup E = (B \cup {f}) \cup (D \ B) /\ E \ (B \cup {f}) \subseteq D \ B
  OBVIOUS
<1>5. Cardinality(E \ (B \cup {f})) <= Cardinality(D \ B) /\ Cardinality(E \ (B \cup {f})) \in Nat
  BY <1>1, <1>4, FS_Subset, FS_CardinalityType
<1>6. Cardinality(D \ B) <= g
  BY <1>3 DEF SlotsOf
<1>7. Cardinality(E \ (B \cup {f})) <= g
  BY <1>3, <1>5, <1>6
<1>8. Cardinality((B \cup {f}) \cup E) <= MaxConcurrent + g
  <2>1. \A k, l, m, n \in Nat : k < MaxConcurrent /\ l <= k + 1 /\ m <= g /\ n <= l + m => n <= MaxConcurrent + g
    OBVIOUS
  <2>2. Cardinality((B \cup {f}) \cup (D \ B)) <= MaxConcurrent + g
    BY <1>2, <1>3, <1>6, <2>1, Zenon
  <2>3. QED  BY <1>4, <2>2, Zenon
<1>9. QED  BY <1>7, <1>8 DEF SlotsOf

LEMMA LotsAreFinite ==
  /\ IsFiniteSet(Fill)
  /\ \A b : IsFiniteSet(OpenLots(b)) /\ OpenLots(b) \subseteq Fill
<1>1. IsFiniteSet(Fill)
  BY FS_Interval, DeskAssumption DEF Fill
<1>2. \A b : OpenLots(b) \subseteq Fill
  BY DEF OpenLots
<1>3. QED  BY <1>1, <1>2, FS_Subset

\* A step that takes lots from the book and writes the mirror of one of them.
LEMMA SlotsShrink ==
  ASSUME IInv, Slots, UNCHANGED loadErrors, NEW f \in Fill, NEW q \in 0 .. MaxQty, WriteDisk(f, q),
         OpenLots(book') \subseteq OpenLots(book), OpenLots(book) \subseteq OpenLots(book') \cup {f},
         q > 0 <=> f \in OpenLots(book'), f \in OpenLots(book), UNCHANGED <<pc, fills>>
  PROVE  Slots'
<1> DEFINE B == OpenLots(book)
           D == OpenLots(disk)
           C == OpenLots(book')
           E == OpenLots(disk')
<1> SUFFICES ASSUME loadErrors = 0
             PROVE  /\ SlotsOf(C, E, diskErrors')
                    /\ pc = "net" /\ Current.side = "buy" => Cardinality(C) < MaxConcurrent
  BY DEF Slots, Current
<1>1. /\ diskErrors \in Nat /\ disk \in [Fill -> 0 .. MaxQty] /\ f \in B
      /\ IsFiniteSet(B) /\ IsFiniteSet(D) /\ IsFiniteSet(C) /\ Cardinality(C) <= Cardinality(B)
      /\ Cardinality(B) \in Nat /\ Cardinality(C) \in Nat
  BY CountsAreNat, LotsAreFinite, FS_Subset, FS_CardinalityType DEF IInv, TypeOK, BookType
<1>2. CASE disk' = [disk EXCEPT ![f] = q] /\ diskErrors' = diskErrors
  <2>1. E \subseteq D \cup {f} /\ (f \in E <=> f \in C) /\ D \subseteq E \cup {f}
    BY <1>1, <1>2 DEF OpenLots
  <2>2. E \ C \subseteq D \ B /\ C \cup E \subseteq B \cup D
    BY <1>1, <2>1
  <2>3. SlotsOf(C, E, diskErrors')
    <3> HIDE DEF B, C, D, E
    <3>1. SlotsOf(B, D, diskErrors)
      BY DEF Slots, B, D
    <3>2. QED  BY <1>1, <1>2, <2>2, <3>1, FewerSlots
  <2>4. QED  BY <1>1, <2>3, DeskAssumption DEF Slots
<1>3. CASE disk' = disk /\ diskErrors' = diskErrors + 1
  <2>1. E \ C \subseteq (D \ B) \cup {f} /\ C \cup E \subseteq B \cup D
    BY <1>1, <1>3
  <2>3. SlotsOf(C, E, diskErrors')
    <3> HIDE DEF B, C, D, E
    <3>1. SlotsOf(B, D, diskErrors)
      BY DEF Slots, B, D
    <3>2. diskErrors' \in Nat /\ diskErrors < diskErrors' /\ diskErrors <= diskErrors'
      BY <1>1, <1>3
    <3>3. QED  BY <1>1, <2>1, <3>1, <3>2, FewerSlots
  <2>4. QED  BY <1>1, <2>3, DeskAssumption DEF Slots
<1>4. QED  BY <1>2, <1>3 DEF WriteDisk

LEMMA SlotsKept ==
  ASSUME IInv, Slots, [Next]_vars, UNCHANGED <<book, disk>>,
         UNCHANGED <<pc, fills>> \/ pc' # "net"
  PROVE  Slots'
<1>1. /\ diskErrors \in Nat /\ diskErrors' \in Nat /\ diskErrors <= diskErrors'
      /\ loadErrors \in Nat /\ loadErrors' \in Nat /\ loadErrors <= loadErrors'
  BY FailuresGrow, CountsAreNat
<1> SUFFICES ASSUME loadErrors' = 0
             PROVE  /\ SlotsOf(OpenLots(book), OpenLots(disk), diskErrors')
                    /\ pc' = "net" /\ Current'.side = "buy" => Cardinality(OpenLots(book)) < MaxConcurrent
  BY DEF Slots
<1>2. loadErrors = 0
  BY <1>1
<1>3. SlotsOf(OpenLots(book), OpenLots(disk), diskErrors')
  BY <1>1, <1>2, LotsAreFinite, FewerSlots DEF Slots
<1>4. QED  BY <1>2, <1>3 DEF Slots, Current

LEMMA SlotsStep == IInv /\ Slots /\ [Next]_vars => Slots'
<1> SUFFICES ASSUME IInv, Slots, [Next]_vars PROVE Slots'
  OBVIOUS
<1>0. BookType /\ CycleType /\ lot \in Fill \cup {0}
  BY DEF IInv, TypeOK, CycleType
<1>1. ASSUME NEW f \in Fill, book[f] > 0, CloseWhole(f), UNCHANGED <<loadErrors, pc, fills>> PROVE Slots'
  <2>1. book' = [book EXCEPT ![f] = 0] /\ WriteDisk(f, 0) /\ book \in [Fill -> 0 .. MaxQty]
    BY <1>0, <1>1 DEF CloseWhole, BookType
  <2>2. /\ OpenLots(book') \subseteq OpenLots(book) /\ OpenLots(book) \subseteq OpenLots(book') \cup {f}
        /\ f \in OpenLots(book) /\ ~(f \in OpenLots(book'))
    BY <1>1, <2>1 DEF OpenLots
  <2>3. 0 \in 0 .. MaxQty /\ ~(0 > 0) /\ UNCHANGED loadErrors /\ UNCHANGED <<pc, fills>>
    BY <1>1, DeskAssumption
  <2>4. QED  BY <1>1, <2>1, <2>2, <2>3, SlotsShrink
<1>2. CASE ExitLot
  <2>1. PICK f \in hit : CloseWhole(f)
    BY <1>2 DEF ExitLot
  <2>2. f \in Fill /\ book[f] > 0
    BY <1>0, <1>2 DEF ExitLot, CycleType, IInv, Closing
  <2>3. QED  BY <1>1, <1>2, <2>1, <2>2 DEF ExitLot, nonDiskVars
<1>3. CASE NetOldest
  <2>1. PICK f \in Fill : book[f] > 0 /\ CloseOf(f, Minimum(rem, book[f]))
    BY <1>3, Netting
  <2>2. UNCHANGED <<loadErrors, pc, fills>>
    BY <1>3 DEF NetOldest, nonDiskVars
  <2>3. CloseWhole(f) \/ UNCHANGED <<book, disk>>
    BY <2>1 DEF CloseOf
  <2>4. QED  BY <1>1, <2>1, <2>2, <2>3, SlotsKept
<1>4. CASE ShrinkLot
  <2>0. lot \in 1 .. Len(fills) /\ amt < book[lot]
    BY <1>4 DEF ShrinkLot, IInv, Closing
  <2>1. /\ lot \in Fill /\ amt < book[lot] /\ book[lot] \in 0 .. MaxQty /\ amt \in 0 .. MaxQty
        /\ book \in [Fill -> 0 .. MaxQty]
    BY SMTT(30), <1>0, <2>0, DeskAssumption DEF BookType, CycleType, Fill
  <2>2. /\ book' = [book EXCEPT ![lot] = book[lot] - amt] /\ WriteDisk(lot, book'[lot])
        /\ UNCHANGED <<loadErrors, pc, fills>>
    BY <1>4 DEF ShrinkLot, nonDiskVars
  <2>3. book'[lot] = book[lot] - amt /\ book'[lot] \in 0 .. MaxQty /\ book'[lot] > 0 /\ book[lot] > 0
    <3>1. book'[lot] = book[lot] - amt
      BY <2>1, <2>2
    <3>2. QED  BY <2>1, <3>1, DeskAssumption
  <2>4. OpenLots(book') = OpenLots(book) /\ lot \in OpenLots(book)
    BY <2>1, <2>2, <2>3 DEF OpenLots
  <2>5. QED  BY <2>1, <2>2, <2>3, <2>4, SlotsShrink
<1>5. ASSUME NEW side \in Side, NEW q \in 1 .. MaxQty, ExecuteOrder(side, q) PROVE Slots'
  <2>1. UNCHANGED <<book, disk, diskErrors, loadErrors>>
    BY <1>5 DEF ExecuteOrder, failVars, nonDiskVars
  <2>2. Current'.side = side
    <3>1. fills'[Len(fills')] = [symbol |-> symbol, side |-> side, qty |-> q]
      BY <1>5, NewFill
    <3>2. QED  BY <3>1 DEF Current
  <2>3. side = "buy" => Cardinality(OpenLots(book)) < MaxConcurrent
    <3>1. LotsOf(symbol, "sell") = {}
      BY DEF LotsOf, OpenLots, IInv, Lots
    <3>2. QED  BY <1>5, <3>1 DEF ExecuteOrder, Opposite
  <2>4. QED  BY <2>1, <2>2, <2>3 DEF Slots
<1>6. CASE OpenResidue
  <2>1. pc' # "net" /\ loadErrors' = loadErrors /\ pc = "net"
    BY <1>6 DEF OpenResidue, EndCycle, nonDiskVars
  <2>2. CASE UNCHANGED <<book, disk>>
    BY <2>1, <2>2, SlotsKept
  <2>3. ASSUME Len(fills) \in Fill, Current.side = "buy", rem > 0,
               book' = [book EXCEPT ![Len(fills)] = rem], WriteDisk(Len(fills), rem)
        PROVE  Slots'
    <3> DEFINE f == Len(fills)
    <3> HIDE DEF f
    <3>1. OpenLots(book') = OpenLots(book) \cup {f}
      BY <1>0, <2>3 DEF BookType, OpenLots, f
    <3>2. /\ OpenLots(disk) \subseteq OpenLots(disk') /\ OpenLots(disk') \subseteq OpenLots(disk) \cup {f}
          /\ diskErrors \in Nat /\ diskErrors' \in Nat /\ diskErrors <= diskErrors'
      <4>1. disk' = disk \/ disk' = [disk EXCEPT ![f] = rem]
        BY <2>3 DEF WriteDisk, f
      <4>2. OpenLots(disk) \subseteq OpenLots(disk') /\ OpenLots(disk') \subseteq OpenLots(disk) \cup {f}
        BY <1>0, <2>3, <4>1 DEF OpenLots, BookType, f
      <4>3. QED  BY <4>2, FailuresGrow, CountsAreNat
    <3>3. ASSUME loadErrors = 0 PROVE SlotsOf(OpenLots(book'), OpenLots(disk'), diskErrors')
      <4>1. SlotsOf(OpenLots(book), OpenLots(disk), diskErrors) /\ Cardinality(OpenLots(book)) < MaxConcurrent
        BY <2>1, <2>3, <3>3 DEF Slots
      <4>2. IsFiniteSet(OpenLots(book)) /\ IsFiniteSet(OpenLots(disk))
        BY LotsAreFinite
      <4>3. SlotsOf(OpenLots(book) \cup {f}, OpenLots(disk'), diskErrors')
        BY <3>2, <4>1, <4>2, OneMoreSlot
      <4>4. QED  BY <3>1, <4>3
    <3>4. QED  BY <2>1, <3>3 DEF Slots
  <2>4. QED  BY <1>6, <2>2, <2>3, Residue
<1>7. CASE Crash
  <2>1. /\ book' = disk /\ disk' = disk /\ diskErrors' = diskErrors /\ pc' # "net"
        /\ loadErrors' = loadErrors
    BY <1>7 DEF Crash, EndCycle
  <2>2. ASSUME loadErrors = 0 PROVE SlotsOf(OpenLots(disk), OpenLots(disk), diskErrors)
    BY <2>2, CountsAreNat, LotsAreFinite, FewerSlots DEF Slots
  <2>3. QED  BY <2>1, <2>2 DEF Slots
<1>8. CASE CrashUnreadable
  BY <1>8, CountsAreNat DEF CrashUnreadable, Slots
<1>9. CASE /\ UNCHANGED <<book, disk>>
           /\ ~ \E side \in Side, q \in 1 .. MaxQty : ExecuteOrder(side, q)
  <2>1. UNCHANGED <<pc, fills>> \/ pc' # "net"
    BY <1>9 DEF Next, CycleStep, CycleBlocked, CycleStart, ExitLot, ExitsDone, LogClose, LogCloseError, FeedBreaker,
       ShrinkLot, CycleEnd, EndCycle, NetOldest, OpenResidue, Crash, CrashUnreadable, Cooldown, vars, cycleVars
  <2>2. QED  BY <1>9, <2>1, SlotsKept
<1>10. QED
  BY <1>2, <1>3, <1>4, <1>5, <1>6, <1>7, <1>8, <1>9, OthersKeepTheBook
     DEF Books, LogClose

LEMMA SlotsInit == Init => Slots
<1> SUFFICES ASSUME Init PROVE Slots
  OBVIOUS
<1>1. OpenLots(book) = {} /\ OpenLots(disk) = {} /\ diskErrors = 0 /\ pc # "net"
  BY DEF Init, OpenLots
<1>2. {} \ {} = {} /\ {} \cup {} = {}
  OBVIOUS
<1>3. QED  BY <1>1, <1>2, FS_EmptySet, DeskAssumption DEF Slots, SlotsOf

\* The book never holds more lots than there are slots, but for one per failed deletion
\* that a restart brought back (the slot cap of analyze_and_trade).
THEOREM SlotsAreCapped == Spec => []SlotCap
<1>1. IInv /\ Slots => SlotCap
  <2> SUFFICES ASSUME IInv, Slots, loadErrors = 0
               PROVE  Cardinality(OpenLots(book)) <= MaxConcurrent + diskErrors
    BY DEF SlotCap
  <2>1. Cardinality(OpenLots(book) \cup OpenLots(disk)) <= MaxConcurrent + diskErrors
    BY DEF Slots, SlotsOf
  <2>2. IsFiniteSet(OpenLots(book) \cup OpenLots(disk))
    BY LotsAreFinite, FS_Union
  <2>3. /\ Cardinality(OpenLots(book)) <= Cardinality(OpenLots(book) \cup OpenLots(disk))
        /\ Cardinality(OpenLots(book)) \in Nat /\ Cardinality(OpenLots(book) \cup OpenLots(disk)) \in Nat
    BY <2>2, LotsAreFinite, FS_Subset, FS_CardinalityType
  <2>4. QED  BY <2>1, <2>3, CountsAreNat, DeskAssumption
<1>2. Spec => []Slots
  BY SlotsStep, SlotsInit, Invariance, PTL DEF Spec
<1>3. QED  BY <1>1, <1>2, Invariance, PTL

-----------------------------------------------------------------------------
(* The lots that failures spoil.                                           *)

\* The account of a lot is right, and a restart would find it.
Sound(f) == Account(f) /\ book[f] = disk[f]
Spoiled == {f \in Bought : ~Sound(f)}
FewSpoiled == loadErrors = 0 => Cardinality(Spoiled) <= Failures

LEMMA BoughtLots ==
  ASSUME IInv
  PROVE  /\ Bought \subseteq Fill /\ IsFiniteSet(Bought) /\ IsFiniteSet(Spoiled)
         /\ \A f \in Bought : fills[f].side = "buy" /\ f \in 1 .. Len(fills)
<1>1. Len(fills) \in Nat /\ Len(fills) <= MaxFills
  BY DEF IInv, TypeOK, BookType
<1>2. Bought \subseteq Fill /\ \A f \in Bought : fills[f].side = "buy" /\ f \in 1 .. Len(fills)
  BY <1>1, DeskAssumption DEF Bought, Fill
<1>3. IsFiniteSet(Bought)
  BY <1>2, LotsAreFinite, FS_Subset
<1>4. IsFiniteSet(Spoiled)
  BY <1>3, FS_Subset DEF Spoiled
<1>5. QED  BY <1>2, <1>3, <1>4

\* A step writes the mirror of one lot at most, and what it fails to write is counted.
LEMMA OneMirrorWrite ==
  ASSUME IInv, [Next]_vars, ~(Crash \/ CrashUnreadable)
  PROVE  \/ \A f \in Fill : book[f] = disk[f] => book'[f] = disk'[f]
         \/ /\ Failures < Failures'
            /\ \E g : \A f \in Fill : f # g /\ book[f] = disk[f] => book'[f] = disk'[f]
<1>0. book \in [Fill -> 0 .. MaxQty] /\ disk \in [Fill -> 0 .. MaxQty] /\ CycleType
  BY DEF IInv, TypeOK, BookType
<1>1. ASSUME NEW g \in Fill, NEW q, book' = [book EXCEPT ![g] = q], WriteDisk(g, q), UNCHANGED nonDiskVars
      PROVE  \/ \A f \in Fill : book[f] = disk[f] => book'[f] = disk'[f]
             \/ /\ Failures < Failures'
                /\ \A f \in Fill : f # g /\ book[f] = disk[f] => book'[f] = disk'[f]
  <2>1. CASE disk' = [disk EXCEPT ![g] = q]
    BY <1>0, <1>1, <2>1
  <2>2. CASE disk' = disk /\ diskErrors' = diskErrors + 1
    <3>1. Failures < Failures'
      BY <1>1, <2>2, CountsAreNat DEF Failures, nonDiskVars
    <3>2. QED  BY <1>0, <1>1, <2>2, <3>1
  <2>3. QED  BY <1>1, <2>1, <2>2 DEF WriteDisk
<1>2. CASE UNCHANGED <<book, disk>>
  BY <1>2
<1>3. CASE ExitLot
  <2>1. PICK g \in hit : CloseWhole(g)
    BY <1>3 DEF ExitLot
  <2>2. g \in Fill /\ UNCHANGED nonDiskVars
    BY <1>0, <1>3 DEF ExitLot, CycleType
  <2>3. QED  BY <1>1, <2>1, <2>2 DEF CloseWhole
<1>4. CASE ShrinkLot
  <2>1. lot \in Fill /\ UNCHANGED nonDiskVars /\ WriteDisk(lot, book'[lot]) /\ book' = [book EXCEPT ![lot] = book[lot] - amt]
    BY <1>0, <1>4, DeskAssumption DEF ShrinkLot, IInv, Closing, TypeOK, BookType, Fill
  <2>2. book'[lot] = book[lot] - amt
    BY <1>0, <2>1
  <2>3. QED  BY <1>1, <2>1, <2>2
<1>5. CASE NetOldest
  <2>1. PICK g \in Fill : CloseOf(g, Minimum(rem, book[g]))
    BY <1>5, Netting
  <2>2. UNCHANGED nonDiskVars
    BY <1>5 DEF NetOldest
  <2>3. QED  BY <1>1, <1>2, <2>1, <2>2 DEF CloseOf, CloseWhole
<1>6. CASE OpenResidue
  <2>1. UNCHANGED nonDiskVars
    BY <1>6 DEF OpenResidue
  <2>2. QED  BY <1>1, <1>2, <1>6, <2>1, Residue
<1>7. QED
  BY <1>2, <1>3, <1>4, <1>5, <1>6, OthersKeepTheBook DEF Books, LogClose, ExecuteOrder

\* Whatever is cut, only the lot being closed, or the one of the fill being netted, is caught.
LEMMA OneLotIsCaught ==
  ASSUME IInv, Crash \/ LogCloseError
  PROVE  /\ Failures < Failures'
         /\ \E g : \A f \in Bought' : f # g => f \in Bought /\ (Sound(f) => Sound(f)')
<1> DEFINE g == IF step # "pick" THEN lot ELSE Len(fills)
<1>1. Failures < Failures'
  BY CountsAreNat DEF Failures, Crash, LogCloseError
<1>2. /\ UNCHANGED <<fills, disk, closed>> /\ (book' = disk \/ book' = book)
      /\ pc' # "net" /\ step' = "pick"
  BY DEF Crash, LogCloseError, EndCycle
<1>3. Bought' = Bought
  BY <1>2 DEF Bought
<1>4. ASSUME NEW f \in Bought, f # g, Sound(f) PROVE Sound(f)'
  <2>1. ~(pc = "net" /\ f = Len(fills)) /\ (step = "pick" \/ f # lot)
    BY <1>4, BoughtLots DEF IInv, Closing, Current
  <2>2. f \in Fill /\ book[f] \in Nat /\ closed[f] \in Nat
    BY BoughtLots DEF IInv, TypeOK, BookType
  <2>3. book[f] + closed[f] = fills[f].qty /\ book[f] = disk[f]
    BY <1>4, <2>1, <2>2 DEF Sound, Account, Due
  <2>4. book'[f] + closed'[f] = fills'[f].qty /\ book'[f] = disk'[f]
    BY <1>2, <2>3
  <2>5. Due(f)' = 0
    BY <1>2 DEF Due
  <2>6. book'[f] + closed'[f] + Due(f)' = fills'[f].qty
    BY <1>2, <2>2, <2>3, <2>4, <2>5
  <2>7. QED  BY <1>2, <2>4, <2>6 DEF Sound, Account
<1>5. QED  BY <1>1, <1>3, <1>4

LEMMA SpoiledStep ==
  ASSUME IInv, Accounts, [Next]_vars, ~CrashUnreadable
  PROVE  Spoiled' \subseteq Spoiled \/ (Failures < Failures' /\ \E g : Spoiled' \subseteq Spoiled \cup {g})
<1>1. CASE Crash \/ LogCloseError
  BY <1>1, OneLotIsCaught DEF Spoiled
<1>2. CASE ~(Crash \/ LogCloseError)
  <2>1. ASSUME NEW f \in Bought', f \in Bought => Sound(f) PROVE Account(f)' /\ book[f] = disk[f] /\ f \in Fill
    <3>1. f \in Bought => Account(f)
      BY <2>1 DEF Sound
    <3>2. \A h \in Fill : h > Len(fills) => closed[h] = 0
      BY DEF Accounts
    <3>3. Account(f)'
      BY <1>2, <3>1, <3>2, AccountStep
    <3>4. f \in Fill
      <4>1. BookType'
        BY BookTypeStep
      <4>2. f \in 1 .. Len(fills') /\ Len(fills') \in Nat /\ Len(fills') <= MaxFills
        BY <4>1 DEF Bought, BookType
      <4>3. QED  BY <4>2, DeskAssumption DEF Fill
    <3>5. f \notin Bought => book[f] = disk[f]
      <4>1. UNCHANGED fills \/ \E side \in Side, q \in 1 .. MaxQty : ExecuteOrder(side, q)
        BY DEF Next, CycleStep, CycleBlocked, CycleStart, ExitLot, ExitsDone, LogClose, LogCloseError, FeedBreaker,
           ShrinkLot, CycleEnd, NetOldest, OpenResidue, Crash, CrashUnreadable, Cooldown, vars
      <4>2. CASE UNCHANGED fills
        BY <4>2 DEF Bought
      <4>3. ASSUME NEW side \in Side, NEW q \in 1 .. MaxQty, ExecuteOrder(side, q), f \notin Bought
            PROVE  book[f] = disk[f]
        <5>1. f \in 1 .. Len(fills') /\ fills'[f].side = "buy"
          BY DEF Bought
        <5>2. /\ Len(fills') = Len(fills) + 1 /\ Len(fills) \in Nat
              /\ \A h \in 1 .. Len(fills) : fills'[h] = fills[h]
          <6>1. Len(fills) \in Nat
            BY DEF IInv, TypeOK, BookType
          <6>2. QED  BY <4>3, <6>1, NewFill
        <5>3. ~(f \in 1 .. Len(fills))
          BY <4>3, <5>1, <5>2 DEF Bought
        <5>4. ~(f <= Len(fills))
          BY <5>1, <5>2, <5>3
        <5>5. book[f] \in Nat /\ disk[f] \in Nat
          BY <3>4 DEF IInv, TypeOK, BookType
        <5>6. QED  BY <3>4, <5>4, <5>5 DEF IInv, Lots
      <4>4. QED  BY <4>1, <4>2, <4>3
    <3>6. QED  BY <2>1, <3>3, <3>4, <3>5 DEF Sound
  <2>2. ASSUME \A f \in Fill : book[f] = disk[f] => book'[f] = disk'[f]
        PROVE  Spoiled' \subseteq Spoiled
    BY <2>1, <2>2 DEF Spoiled, Sound
  <2>3. ASSUME NEW g, \A f \in Fill : f # g /\ book[f] = disk[f] => book'[f] = disk'[f]
        PROVE  Spoiled' \subseteq Spoiled \cup {g}
    BY <2>1, <2>3 DEF Spoiled, Sound
  <2>4. QED  BY <1>2, <2>2, <2>3, OneMirrorWrite
<1>3. QED  BY <1>1, <1>2

LEMMA FewSpoiledStep == IInv /\ Accounts /\ FewSpoiled /\ [Next]_vars => FewSpoiled'
<1> SUFFICES ASSUME IInv, Accounts, FewSpoiled, [Next]_vars, loadErrors' = 0
             PROVE  Cardinality(Spoiled') <= Failures'
  BY DEF FewSpoiled
<1>1. /\ loadErrors = 0 /\ Failures \in Nat /\ Failures' \in Nat /\ Failures <= Failures'
  BY FailuresGrow, CountsAreNat
<1>2. ~CrashUnreadable
  BY <1>1 DEF CrashUnreadable
<1>3. IsFiniteSet(Spoiled) /\ Cardinality(Spoiled) <= Failures
  BY <1>1, BoughtLots DEF FewSpoiled
<1>4. CASE Spoiled' \subseteq Spoiled
  <2>1. Cardinality(Spoiled') <= Cardinality(Spoiled) /\ Cardinality(Spoiled') \in Nat /\ Cardinality(Spoiled) \in Nat
    BY <1>3, <1>4, FS_Subset, FS_CardinalityType
  <2>2. QED  BY <1>1, <1>3, <2>1
<1>5. ASSUME NEW g, Failures < Failures', Spoiled' \subseteq Spoiled \cup {g}
      PROVE  Cardinality(Spoiled') <= Failures'
  <2>1. /\ IsFiniteSet(Spoiled \cup {g}) /\ Cardinality(Spoiled) \in Nat /\ Cardinality(Spoiled \cup {g}) \in Nat
        /\ Cardinality(Spoiled \cup {g}) <= Cardinality(Spoiled) + 1
    BY <1>3, OneMore
  <2>2. Cardinality(Spoiled') <= Cardinality(Spoiled \cup {g}) /\ Cardinality(Spoiled') \in Nat
    BY <1>5, <2>1, FS_Subset, FS_CardinalityType
  <2>3. QED  BY <1>1, <1>3, <1>5, <2>1, <2>2
<1>6. QED  BY <1>2, <1>4, <1>5, SpoiledStep

LEMMA FewSpoiledInit == Init => FewSpoiled
<1> SUFFICES ASSUME Init PROVE FewSpoiled
  OBVIOUS
<1>1. Spoiled = {} /\ Failures = 0
  BY DEF Init, Spoiled, Bought, Failures
<1>2. QED  BY <1>1, FS_EmptySet DEF FewSpoiled

\* Each failing write and each restart, at whatever point of a close or of an open, spoils
\* the account of one lot at most (_record_close, _match_or_open, reload_open_positions).
THEOREM FailuresSpoilFew == Spec => []FailureSpoilsOneLot
<1>1. IInv /\ FewSpoiled => FailureSpoilsOneLot
  <2> SUFFICES ASSUME IInv, FewSpoiled, loadErrors = 0, Resting
               PROVE  Cardinality({f \in Bought : ~Balanced(f)}) <= Failures
    BY DEF FailureSpoilsOneLot
  <2>1. ASSUME NEW f \in Bought, Sound(f) PROVE Balanced(f)
    <3>1. f \in Fill /\ book[f] \in Nat /\ closed[f] \in Nat
      BY BoughtLots DEF IInv, TypeOK, BookType
    <3>2. QED  BY <2>1, <3>1 DEF Sound, Account, Due, Resting, Balanced
  <2>2. {f \in Bought : ~Balanced(f)} \subseteq Spoiled
    BY <2>1 DEF Spoiled
  <2>3. /\ Cardinality({f \in Bought : ~Balanced(f)}) <= Cardinality(Spoiled)
        /\ Cardinality({f \in Bought : ~Balanced(f)}) \in Nat /\ Cardinality(Spoiled) \in Nat
    BY <2>2, BoughtLots, FS_Subset, FS_CardinalityType
  <2>4. QED  BY <2>3, CountsAreNat DEF FewSpoiled
<1>2. Spec => [](Accounts /\ FewSpoiled)
  <2>1. IInv /\ (Accounts /\ FewSpoiled) /\ [Next]_vars => (Accounts /\ FewSpoiled)'
    BY AccountsStep, FewSpoiledStep
  <2>2. QED  BY <2>1, AccountsInit, FewSpoiledInit, Invariance, PTL DEF Spec
<1>3. QED  BY <1>1, <1>2, Invariance, PTL
=============================================================================
