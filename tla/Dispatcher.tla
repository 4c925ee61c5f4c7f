----------------------------- MODULE Dispatcher -----------------------------
(***************************************************************************)
(* The notification dispatcher (src/notifications/dispatcher.py and        *)
(* store.py, started by the lifespan of src/api/main.py).                  *)
(*                                                                         *)
(* Both processes append alerts to alerts.jsonl.  Each worker of the API   *)
(* runs a loop that looks at the size of the log, reads the cursor from    *)
(* the database, claims what is in between by moving the cursor there if   *)
(* it is still where it was, and only then delivers the alerts one by one  *)
(* to the channels the rules name.  One worker is deployed; the comments   *)
(* promise that more would do.                                             *)
(*                                                                         *)
(* Alerts are numbered as they are written; base of them are no longer in  *)
(* the log.  A line is two units long, so that an odd offset is one within *)
(* a line.  One action is the code between two accesses to the log, to the *)
(* database or to a channel.                                               *)
(***************************************************************************)
EXTENDS Integers, FiniteSets

CONSTANTS
    Workers,      \* the workers of the API
    Channels,     \* enabled notification channels
    Kinds,        \* an alert's type, severity and pair
    Low,          \* the kinds of low or medium severity
    Rules,        \* the channels the rules name for each kind
    MaxAlerts,    \* bound: alerts written in a behaviour
    KindOf,       \* the kind of each of them
    Attempts,     \* len(BACKOFF_S) + 1
    MaxTroubles   \* bound: restarts, aborted passes, truncations

Alert == 1 .. MaxAlerts

ASSUME DispatcherAssumption ==
    /\ MaxAlerts \in Nat /\ MaxTroubles \in Nat
    /\ Attempts \in Nat \ {0}
    /\ Low \subseteq Kinds
    /\ Rules \in [Kinds -> SUBSET Channels]
    /\ KindOf \in [Alert -> Kinds]

NoCursor == -1

VARIABLES
    base, written,  \* the log holds the alerts base + 1 .. written
    torn,           \* how much of a line being appended is there
    cursor,         \* the row of notifications_cursor
    pc,             \* where each worker is
    size, pos, top, \* what it read: size of the log, cursor; end of its chunk
    next, last,     \* the alerts of its chunk it has still to route
    chans, chan,    \* channels the alert at hand still goes to; the one at work
    attempt,        \* the attempt at delivery
    group,          \* _groups: whether the window of a channel and kind is open
    sent,           \* how often each alert reached each channel and is known to
    unsure,         \* how often it did in an attempt that counts as failed
    booted,         \* history: the workers that have run
    routed,         \* history: the alerts that came to be routed
    start,          \* history: the last alert a first boot left out
    backs,          \* history: how often the cursor was moved back
    shrinks, failures   \* what went wrong so far

logVars   == <<base, written, torn>>
readVars  == <<size, pos, top>>
batchVars == <<next, last>>
sendVars  == <<chans, chan, attempt>>
failVars  == <<shrinks, failures>>
reachVars == <<sent, unsure>>
histVars  == <<booted, routed, start, backs>>
vars == <<logVars, cursor, pc, readVars, batchVars, sendVars, group, reachVars, histVars,
          failVars>>

NoGroups == [c \in Channels |-> [k \in Kinds |-> FALSE]]
NoChannel == "none"

Init ==
    /\ base = 0 /\ written = 0 /\ torn = 0
    /\ cursor = NoCursor
    /\ pc = [w \in Workers |-> "boot"]
    /\ size = [w \in Workers |-> 0] /\ pos = size /\ top = size
    /\ next = [w \in Workers |-> 1] /\ last = size
    /\ chans = [w \in Workers |-> {}] /\ chan = [w \in Workers |-> NoChannel]
    /\ attempt = size
    /\ group = [w \in Workers |-> NoGroups]
    /\ sent = [a \in Alert |-> [c \in Channels |-> 0]] /\ unsure = sent
    /\ booted = {} /\ routed = {} /\ start = 0 /\ backs = 0
    /\ shrinks = 0 /\ failures = 0

Troubles == failures + shrinks

Goto(w, p) == pc' = [pc EXCEPT ![w] = p]
Forget(w)  == /\ size' = [size EXCEPT ![w] = 0] /\ pos' = [pos EXCEPT ![w] = 0]
              /\ top' = [top EXCEPT ![w] = 0]
DropBatch(w) == next' = [next EXCEPT ![w] = 1] /\ last' = [last EXCEPT ![w] = 0]
Size == 2 * (written - base) + torn
Less(a, b) == IF a < b THEN a ELSE b
More(a, b) == IF a < b THEN b ELSE a

-----------------------------------------------------------------------------
(***************************************************************************)
(* The log.                                                                *)
(***************************************************************************)

\* AlertStore.append; a reader may see a part of the line.
BeginLine ==
    /\ torn = 0 /\ written < MaxAlerts
    /\ torn' = 1
    /\ UNCHANGED <<base, written, cursor, pc, readVars, batchVars, sendVars, group, reachVars,
                   histVars, failVars>>

EndLine ==
    /\ torn = 1
    /\ torn' = 0 /\ written' = written + 1
    /\ UNCHANGED <<base, cursor, pc, readVars, batchVars, sendVars, group, reachVars,
                   histVars, failVars>>

\* The log is rotated from outside: dispatch_pending is prepared for it.
Shrink ==
    /\ Troubles < MaxTroubles /\ torn = 0 /\ base < written
    /\ base' = written /\ shrinks' = shrinks + 1
    /\ UNCHANGED <<written, torn, cursor, pc, readVars, batchVars, sendVars, group, reachVars,
                   histVars, failures>>

-----------------------------------------------------------------------------
(***************************************************************************)
(* ensure_initialized: at the first boot ever, the cursor goes to the end. *)
(***************************************************************************)
Boot(w) ==
    /\ pc[w] = "boot"
    /\ booted' = booted \cup {w}
    /\ IF cursor = NoCursor
         THEN Goto(w, "first") /\ size' = [size EXCEPT ![w] = Size]
         ELSE Goto(w, "idle") /\ UNCHANGED size
    /\ UNCHANGED <<logVars, cursor, pos, top, batchVars, sendVars, group, reachVars,
                   routed, start, backs, failVars>>

MoveCursor(q) ==
    /\ cursor' = q
    /\ backs' = IF q < cursor THEN backs + 1 ELSE backs

FirstBoot(w) ==
    /\ pc[w] = "first"
    /\ MoveCursor(size[w])
    /\ start' = More(start, base + (size[w] + 1) \div 2)
    /\ Forget(w) /\ Goto(w, "idle")
    /\ UNCHANGED <<logVars, batchVars, sendVars, group, reachVars,
                   booted, routed, failVars>>

-----------------------------------------------------------------------------
(***************************************************************************)
(* dispatch_pending, up to the claim.                                      *)
(***************************************************************************)
Stat(w) ==
    /\ pc[w] = "idle"
    /\ size' = [size EXCEPT ![w] = Size]
    /\ Goto(w, "sized")
    /\ UNCHANGED <<logVars, cursor, pos, top, batchVars, sendVars, group, reachVars,
                   histVars, failVars>>

\* Where the complete lines of what was read end.
LinesEnd(w) == 2 * (Less(size[w], Size) \div 2)

ReadChunk(w, end) ==
    /\ Goto(w, "claim")
    /\ pos' = [pos EXCEPT ![w] = cursor] /\ top' = [top EXCEPT ![w] = end]
    /\ next' = [next EXCEPT ![w] = base + (cursor + 1) \div 2 + 1]
    /\ last' = [last EXCEPT ![w] = base + end \div 2]
    /\ UNCHANGED size

NothingNew(w) == Goto(w, "idle") /\ Forget(w) /\ UNCHANGED batchVars

ReadCursor_TornToo(w) ==
    /\ pc[w] = "sized"
    /\ \/ size[w] < cursor /\ Goto(w, "reset") /\ UNCHANGED <<readVars, batchVars>>
       \/ size[w] >= cursor /\ Less(size[w], Size) <= cursor /\ NothingNew(w)
       \/ size[w] >= cursor /\ Less(size[w], Size) > cursor /\ ReadChunk(w, Less(size[w], Size))
    /\ UNCHANGED <<logVars, cursor, sendVars, group, reachVars, histVars, failVars>>

ReadCursor_NoReset(w) ==
    /\ pc[w] = "sized"
    /\ \/ LinesEnd(w) <= cursor /\ NothingNew(w)
       \/ LinesEnd(w) > cursor /\ ReadChunk(w, LinesEnd(w))
    /\ UNCHANGED <<logVars, cursor, sendVars, group, reachVars, histVars, failVars>>

\* get_cursor and the read of the chunk; a change of the log in between is as if it
\* had come before.  The rest of a line at the start of the chunk does not parse and
\* is skipped.
ReadCursor(w) ==
    /\ pc[w] = "sized"
    /\ \/ size[w] < cursor /\ Goto(w, "reset") /\ UNCHANGED <<readVars, batchVars>>
       \/ size[w] >= cursor /\ LinesEnd(w) <= cursor /\ NothingNew(w)
       \/ size[w] >= cursor /\ LinesEnd(w) > cursor /\ ReadChunk(w, LinesEnd(w))
    /\ UNCHANGED <<logVars, cursor, sendVars, group, reachVars, histVars, failVars>>

\* The log shrank, or so it looks: reset_cursor, unconditional.
Reset(w) ==
    /\ pc[w] = "reset"
    /\ MoveCursor(size[w])
    /\ Forget(w) /\ Goto(w, "idle")
    /\ UNCHANGED <<logVars, batchVars, sendVars, group, reachVars,
                   booted, routed, start, failVars>>

Claimed(w)  == Goto(w, "route") /\ Forget(w) /\ UNCHANGED batchVars
LostRace(w) == Goto(w, "idle") /\ Forget(w) /\ DropBatch(w)

Claim_NoWhere(w) ==
    /\ pc[w] = "claim"
    /\ cursor' = top[w] /\ Claimed(w)
    /\ UNCHANGED <<logVars, sendVars, group, reachVars, histVars, failVars>>

\* advance_cursor: UPDATE ... WHERE pos = expected; the loser skips the batch.
Claim(w) ==
    /\ pc[w] = "claim"
    /\ IF cursor = pos[w]
         THEN cursor' = top[w] /\ Claimed(w)
         ELSE UNCHANGED cursor /\ LostRace(w)
    /\ UNCHANGED <<logVars, sendVars, group, reachVars, histVars, failVars>>

-----------------------------------------------------------------------------
(***************************************************************************)
(* _route and _deliver.                                                    *)
(***************************************************************************)
At(w)     == next[w] - 1
KindAt(w) == KindOf[At(w)]
Idle(w)   == pc[w] = "route" /\ chans[w] = {}

\* The next alert.  The rules name its channels; in quiet hours a low one goes to none.
Route(w) ==
    /\ Idle(w) /\ next[w] <= last[w]
    /\ \E quiet \in {FALSE, KindOf[next[w]] \in Low} :
          chans' = [chans EXCEPT ![w] = IF quiet THEN {} ELSE Rules[KindOf[next[w]]]]
    /\ routed' = routed \cup {next[w]}
    /\ next' = [next EXCEPT ![w] = @ + 1]
    /\ UNCHANGED <<logVars, cursor, pc, readVars, last, chan, attempt, group, reachVars,
                   booted, start, backs, failVars>>

RouteDone(w) ==
    /\ Idle(w) /\ next[w] > last[w]
    /\ Goto(w, "idle") /\ DropBatch(w)
    /\ UNCHANGED <<logVars, cursor, readVars, sendVars, group, reachVars, histVars, failVars>>

\* The window of this channel and kind is open: the alert is only
\* counted, for the text of the next delivery; the count is left out.
Mute(w, c) ==
    /\ pc[w] = "route" /\ c \in chans[w] /\ group[w][c][KindAt(w)]
    /\ chans' = [chans EXCEPT ![w] = @ \ {c}]
    /\ UNCHANGED <<logVars, cursor, pc, readVars, batchVars, chan, attempt, group, reachVars,
                   histVars, failVars>>

\* It is over, or there was none: a new one opens.
Begin(w, c) ==
    /\ pc[w] = "route" /\ c \in chans[w] /\ ~group[w][c][KindAt(w)]
    /\ group' = [group EXCEPT ![w][c][KindAt(w)] = TRUE]
    /\ chan' = [chan EXCEPT ![w] = c] /\ attempt' = [attempt EXCEPT ![w] = 1]
    /\ Goto(w, "send")
    /\ UNCHANGED <<logVars, cursor, readVars, batchVars, chans, reachVars, histVars, failVars>>

ChannelDone(w) ==
    /\ chans' = [chans EXCEPT ![w] = @ \ {chan[w]}]
    /\ chan' = [chan EXCEPT ![w] = NoChannel]
    /\ attempt' = [attempt EXCEPT ![w] = 0]
    /\ Goto(w, "route")

Again(w) ==
    /\ attempt' = [attempt EXCEPT ![w] = @ + 1]
    /\ Goto(w, "send")
    /\ UNCHANGED <<chans, chan>>

Counted(f, w) == [f EXCEPT ![At(w)][chan[w]] = @ + 1]

\* The channel accepts, says so, and the ledger notes it.
SendOk(w) ==
    /\ pc[w] = "send"
    /\ sent' = Counted(sent, w) /\ ChannelDone(w)
    /\ UNCHANGED <<logVars, cursor, readVars, batchVars, group, unsure, histVars, failVars>>

SendFails_NoLimit(w) ==
    /\ pc[w] = "send"
    /\ Again(w)
    /\ UNCHANGED <<logVars, cursor, readVars, batchVars, group, reachVars, histVars, failVars>>

AttemptFailed(w) == IF attempt[w] < Attempts THEN Again(w) ELSE ChannelDone(w)

\* The channel does not get it: another attempt, or the failure is logged.
SendFails(w) ==
    /\ pc[w] = "send"
    /\ AttemptFailed(w)
    /\ UNCHANGED <<logVars, cursor, readVars, batchVars, group, reachVars, histVars, failVars>>

\* The channel gets it, but the attempt raises after that and counts as failed: the
\* answer is late, broken or an error, QUIT fails, or the ledger does within the same try.
SentButFailed(w) ==
    /\ pc[w] = "send"
    /\ unsure' = Counted(unsure, w) /\ AttemptFailed(w)
    /\ UNCHANGED <<logVars, cursor, readVars, batchVars, group, sent, histVars, failVars>>

\* Time passes between two passes; within one, now is the time it began.
WindowOver(w, c, k) ==
    /\ pc[w] = "idle" /\ group[w][c][k]
    /\ group' = [group EXCEPT ![w][c][k] = FALSE]
    /\ UNCHANGED <<logVars, cursor, pc, readVars, batchVars, sendVars, reachVars, histVars, failVars>>

-----------------------------------------------------------------------------
\* The local variables of the pass are gone.
DropPass(w) ==
    /\ Forget(w) /\ DropBatch(w)
    /\ chans' = [chans EXCEPT ![w] = {}] /\ chan' = [chan EXCEPT ![w] = NoChannel]
    /\ attempt' = [attempt EXCEPT ![w] = 0]

\* An exception ends the pass; _notify_loop goes on with the next.
Abort(w) ==
    /\ pc[w] \notin {"boot", "first", "idle"} /\ Troubles < MaxTroubles
    /\ failures' = failures + 1
    /\ DropPass(w) /\ Goto(w, "idle")
    /\ UNCHANGED <<logVars, cursor, group, reachVars, histVars, shrinks>>

\* The worker dies and starts again; _groups is in its memory only.
Restart(w) ==
    /\ pc[w] # "boot" /\ Troubles < MaxTroubles
    /\ failures' = failures + 1
    /\ DropPass(w) /\ Goto(w, "boot")
    /\ group' = [group EXCEPT ![w] = NoGroups]
    /\ UNCHANGED <<logVars, cursor, reachVars, booted, routed, start, backs,
                   shrinks>>

WorkerStep(w) ==
    \/ Boot(w) \/ FirstBoot(w)
    \/ Stat(w) \/ ReadCursor(w) \/ Reset(w) \/ Claim(w)
    \/ Route(w) \/ RouteDone(w)
    \/ \E c \in Channels : Mute(w, c) \/ Begin(w, c)
    \/ SendOk(w) \/ SendFails(w) \/ SentButFailed(w)

Next ==
    \/ BeginLine \/ EndLine \/ Shrink
    \/ \E w \in Workers : WorkerStep(w) \/ Abort(w) \/ Restart(w)
    \/ \E w \in Workers, c \in Channels, k \in Kinds : WindowOver(w, c, k)

\* The task of each worker runs; senders time out.
Fairness == \A w \in Workers : WF_vars(WorkerStep(w))

Spec == Init /\ [][Next]_vars
FairSpec == Spec /\ Fairness

-----------------------------------------------------------------------------
(***************************************************************************)
(* Properties.                                                             *)
(***************************************************************************)

\* Every variable has its type.
TypeOK ==
    /\ base \in 0 .. written /\ written \in 0 .. MaxAlerts /\ torn \in {0, 1}
    /\ cursor \in Nat \cup {NoCursor}
    /\ pc \in [Workers -> {"boot", "first", "idle", "sized", "reset", "claim", "route", "send"}]
    /\ size \in [Workers -> Nat] /\ pos \in [Workers -> Nat] /\ top \in [Workers -> Nat]
    /\ next \in [Workers -> Nat \ {0}] /\ last \in [Workers -> 0 .. MaxAlerts]
    /\ chans \in [Workers -> SUBSET Channels]
    /\ chan \in [Workers -> Channels \cup {NoChannel}]
    /\ attempt \in [Workers -> 0 .. Attempts]
    /\ group \in [Workers -> [Channels -> [Kinds -> BOOLEAN]]]
    /\ sent \in [Alert -> [Channels -> Nat]] /\ unsure \in [Alert -> [Channels -> Nat]]
    /\ booted \subseteq Workers /\ routed \subseteq Alert
    /\ start \in Nat /\ backs \in Nat
    /\ shrinks \in Nat /\ failures \in Nat

\* One delivery is made of each alert to each channel: it succeeds once at most, and
\* brings the alert there once per attempt at most, those that count as failed included.
Once ==
    \A a \in Alert, c \in Channels :
        sent[a][c] <= 1 /\ sent[a][c] + unsure[a][c] <= Attempts

\* The optimistic claim: however many workers run, restart or fail, one of them makes
\* the delivery of an alert to a channel, once, while the cursor only moves forward.
\* An attempt that raises after the channel took the alert is repeated: only the number
\* of attempts bounds the copies.
AtMostOnce == backs = 0 => Once

InBatch(w, a) ==
    pc[w] \in {"route", "send"} /\ a \in next[w] .. last[w]

\* The deployment: a single worker makes no delivery twice, not even when it restarts or
\* the log shrinks, and moves the cursor back, at any point of a pass.  And none skips: as
\* long as no worker fails and the log does not shrink, every alert the cursor has
\* passed since the first boot was routed, or will be.
LogIsFollowed ==
    /\ Cardinality(booted) <= 1 => Once
    /\ failures = 0 /\ shrinks = 0 =>
         \A a \in start + 1 .. written :
             2 * (a - base) <= cursor => a \in routed \/ \E w \in Workers : InBatch(w, a)

\* The dispatcher keeps up: again and again the cursor is at the end of the log, or
\* of its last complete line, also after it shrank.
KeepsUp == []<>(cursor \in {2 * (written - base), Size})

-----------------------------------------------------------------------------
(***************************************************************************)
(* What the repository says and the code does not keep.                    *)
(***************************************************************************)

\* "even N workers yield exactly one delivery": no delivery succeeds twice.  The copies
\* that failed attempts leave are set aside.
OneDelivery == \A a \in Alert, c \in Channels : sent[a][c] <= 1

=============================================================================
