-------------------------------- MODULE Journals --------------------------------
(***************************************************************************)
(* The two journals.  journal/trade_journal.py keeps its entries in memory *)
(* and rewrites one JSON file after each change; a save that fails is      *)
(* logged and forgotten.  api/routes/journal.py keeps rows in the table    *)
(* journal_entries, and works out its figures when asked.                  *)
(***************************************************************************)
EXTENDS Sums, Sequences, FiniteSets

CONSTANTS OrderIds,     \* ids of the trades of the JSON journal
          Outcomes,     \* gains and losses, in some unit
          Emotions,     \* of 1..10
          MaxRows       \* rows of the table

ASSUME JournalAssumption == OrderIds # {} /\ Emotions \subseteq 1..10 /\ Outcomes \subseteq Int

VARIABLES book,     \* TradeJournal: memory, file, and what became of it
          entries      \* journal_entries

journalVars == <<book, entries>>
NoTrade == [state |-> "none", pnl |-> 0, followed |-> FALSE]
OpenTrade == [NoTrade EXCEPT !.state = "open"]
ClosedTrade(pnl, followed) == [state |-> "closed", pnl |-> pnl, followed |-> followed]
NoBook == [id \in OrderIds |-> NoTrade]
Recorded(b) == {id \in OrderIds : b[id].state # "none"}

\* told: what callers were told is recorded.  behind: the last save failed.  lost: the
\* process ended so.
JournalInit ==
  /\ book = [memory |-> NoBook, file |-> NoBook, readable |-> TRUE, told |-> NoBook, behind |-> FALSE, lost |-> FALSE]
  /\ entries = <<>>

--------------------------------------------------------------------------------
(* _save: all of it is written; or the file cannot be opened; or the dump     *)
(* fails, which leaves a file that _load cannot read.                        *)
Save(memory) ==
  \E fate \in {"saved", "refused", "cut"} :
    book' = [memory |-> memory, told |-> memory, behind |-> fate # "saved", lost |-> book.lost,
             file |-> IF fate = "saved" THEN memory ELSE book.file,
             readable |-> fate = "saved" \/ (fate = "refused" /\ book.readable)]

\* record_entry replaces an entry of the same order.
RecordEntry(id) == Save([book.memory EXCEPT ![id] = OpenTrade]) /\ UNCHANGED entries

\* close_trade: an unknown order changes nothing; a closed one is closed again.
CloseTrade(id, pnl, followed) ==
  /\ id \in Recorded(book.memory)
  /\ Save([book.memory EXCEPT ![id] = ClosedTrade(pnl, followed)])
  /\ UNCHANGED entries

\* The process ends, perhaps while it saves; _load then has the file, or nothing.
RestartJournal(cut) ==
  /\ book' = [book EXCEPT !.memory = IF cut \/ ~book.readable THEN NoBook ELSE book.file,
                          !.readable = ~cut /\ @, !.behind = cut \/ ~book.readable,
                          !.lost = @ \/ cut \/ book.behind]
  /\ UNCHANGED entries

--------------------------------------------------------------------------------
\* POST /v1/journal; a result may be left out.
CreateEntry(emotion, followed, judged, pnl) ==
  /\ Len(entries) < MaxRows
  /\ entries' = Append(entries, [emotion |-> emotion, followed |-> followed, judged |-> judged, pnl |-> pnl])
  /\ UNCHANGED book

\* GET /v1/journal/metrics: the rows with a result, in bands of the emotion before.
Judged == {n \in DOMAIN entries : entries[n].judged}
Bands == << <<1, 3>>, <<4, 6>>, <<7, 9>>, <<10, 10>> >>
InBand(i) == {n \in Judged : Bands[i][1] <= entries[n].emotion /\ entries[n].emotion <= Bands[i][2]}
Wins(S) == {n \in S : entries[n].pnl > 0}
\* A line for each band that has a row.
ByEmotion == [i \in {i \in DOMAIN Bands : InBand(i) # {}} |->
                [trades |-> Cardinality(InBand(i)), wins |-> Cardinality(Wins(InBand(i)))]]

JsonNext ==
  \/ \E id \in OrderIds : RecordEntry(id)
  \/ \E id \in OrderIds, pnl \in Outcomes, followed \in BOOLEAN : CloseTrade(id, pnl, followed)
  \/ \E cut \in BOOLEAN : RestartJournal(cut)

RowsNext ==
  \E emotion \in Emotions, followed, judged \in BOOLEAN, pnl \in Outcomes : CreateEntry(emotion, followed, judged, pnl)

JournalSpec == JournalInit /\ [][JsonNext \/ RowsNext]_journalVars

--------------------------------------------------------------------------------
Trades == {NoTrade, OpenTrade} \cup [state : {"closed"}, pnl : Outcomes, followed : BOOLEAN]

\* Types of the variables.
JournalTypeOK ==
  /\ book \in [memory : [OrderIds -> Trades], file : [OrderIds -> Trades], readable : BOOLEAN,
               told : [OrderIds -> Trades], behind : BOOLEAN, lost : BOOLEAN]
  /\ entries \in Seq([emotion : Emotions, followed : BOOLEAN, judged : BOOLEAN, pnl : Outcomes])

\* An entry a caller was told of is forgotten only by a process that ended while its last
\* save had failed or was under way (trade_journal.py:212 swallows the error); a save that
\* fails is made good by the next, and what is saved is what memory has.
SavedIsReadBack ==
  /\ ~book.lost => book.memory = book.told
  /\ ~book.behind => book.readable /\ book.file = book.memory

\* The bands hold every judged row once, so that the table by emotion and the overall
\* win rate are figures of the same trades (journal.py:98-156).
FiguresAddUp ==
  LET trades == [i \in DOMAIN Bands |-> IF i \in DOMAIN ByEmotion THEN ByEmotion[i].trades ELSE 0]
      wins   == [i \in DOMAIN Bands |-> IF i \in DOMAIN ByEmotion THEN ByEmotion[i].wins ELSE 0]
  IN  /\ SumTo(trades, Len(Bands)) = Cardinality(Judged)
      /\ SumTo(wins, Len(Bands)) = Cardinality(Wins(Judged))
================================================================================
