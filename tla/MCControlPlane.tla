--------------------------- MODULE MCControlPlane ---------------------------
(***************************************************************************)
(* The services around the trading loop, one run for all of them.  Each    *)
(* keeps its state to itself (tables, files or memory that no handler of   *)
(* another one writes), so what a behaviour of all shows of one service is *)
(* a behaviour of that service: a behaviour here picks the part whose      *)
(* handlers run, and the others stay as they start.                        *)
(***************************************************************************)
EXTENDS Accounts, OperatedPairs, Backtests, RequestGate, SignalPipeline,
        NotificationChannels, AuditTrail, PortfolioViews, Onboarding, MarketViews,
        OrderPlacement, RuntimeConfig, Journals, Migrations, AgentCycles

VARIABLE part   \* whose handlers run

-----------------------------------------------------------------------------
(* The instances.                                                          *)

\* No levels; a stop below and a target above; the other way round; a stop alone.
MCBrackets == {<<0, 0>>, <<1, 3>>, <<3, 1>>, <<2, 0>>}

MCMaskOf == [s \in Secrets |-> IF s = "s3" THEN "m2" ELSE "m1"]

MCResults  == {-3, 2}
MCOutcomes == {-1, 2}

\* Of the forms migrations/ has: a script that may be run again, one that adds two
\* columns, one that adds a column and creates a table.
MCScripts == << <<"create", "create">>, <<"add", "add">>, <<"add", "create">> >>

-----------------------------------------------------------------------------
Parts == {"accounts", "crowd", "factor", "pairs", "jobs", "replay", "limiter", "gate", "signal",
          "placement", "channels", "rules", "trail", "alerts", "portfolio", "cycles", "market",
          "guide", "config", "json", "entries", "boot"}

peopleVars == <<accVars, requestVars, channelVars, configVars, guideVars>>
tradeVars  == <<pairVars, btVars, signalVars, placementVars, seen>>
recordVars == <<auditVars, portfolioVars, journalVars, migrationVars, cycleVars>>
vars == <<part, peopleVars, tradeVars, recordVars>>

\* The gate starts in any deployment it accepts where its handlers run, in one elsewhere.
Init ==
  /\ part \in Parts
  /\ AccountsInit /\ RequestInit /\ ChannelInit /\ ConfigInit /\ OnboardingInit
  /\ PairsInit /\ BacktestsInit /\ SignalInit /\ PlacementInit /\ MarketInit
  /\ AuditInit /\ PortfolioInit /\ JournalInit /\ MigrationsInit /\ CyclesInit
  /\ part # "gate" => settings = CHOOSE s \in Settings : Starts(s)
  /\ part # "boot" => schema.recorded = Versions

\* The accounts run three times: a request at a time, with a death and links to reset a
\* password; two at a time, with neither; and one at a time with a death and the second
\* factor, where all are administrators and of the deadlines only a challenge's passes.
OneAtATime == Cardinality(admitted') <= 1
OneFactor == challenges' = {} /\ \A u \in Users : users'[u].totp = "off"
NoLinks == \A u \in Users : resets'[u] = 0
AdminsInTime ==
  /\ \A u \in Users : users'[u].role = "admin"
  /\ \A i \in DOMAIN sessions' : sessions'[i].st \notin {"idle", "over"}
  /\ \A k \in DOMAIN invites' : invites'[k].role = "admin" /\ ~invites'[k].lapsed

\* Two steps of the guide at most are marked by hand at a time.
FewMarks == Cardinality(row'.skipped \union row'.manual) <= 2

Next ==
  \/ /\ part = "accounts"
     /\ UNCHANGED <<part, requestVars, channelVars, configVars, guideVars, tradeVars, recordVars>>
     /\ AccountsNext /\ OneAtATime /\ OneFactor
  \/ /\ part = "crowd"
     /\ UNCHANGED <<part, requestVars, channelVars, configVars, guideVars, tradeVars, recordVars>>
     /\ AccountsNext /\ OneFactor /\ NoLinks /\ failures' = 0
  \/ /\ part = "factor"
     /\ UNCHANGED <<part, requestVars, channelVars, configVars, guideVars, tradeVars, recordVars>>
     /\ AccountsNext /\ OneAtATime /\ NoLinks /\ AdminsInTime
  \/ /\ part = "pairs" /\ UNCHANGED <<part, peopleVars, btVars, signalVars, placementVars, seen, recordVars>>
     /\ PairsNext
  \/ /\ part = "jobs" /\ UNCHANGED <<part, peopleVars, pairVars, signalVars, placementVars, seen,
                     recordVars>>
     /\ JobsNext
  \/ /\ part = "replay" /\ UNCHANGED <<part, peopleVars, pairVars, signalVars, placementVars, seen,
                     recordVars>>
     /\ ReplayNext
  \/ /\ part = "limiter" /\ UNCHANGED <<part, accVars, channelVars, configVars, guideVars, tradeVars,
                     recordVars>>
     /\ LimiterNext
  \/ /\ part = "gate" /\ UNCHANGED <<part, accVars, channelVars, configVars, guideVars, tradeVars,
                     recordVars>>
     /\ GateNext
  \/ /\ part = "signal" /\ UNCHANGED <<part, peopleVars, pairVars, btVars, placementVars, seen, recordVars>>
     /\ SignalNext
  \/ /\ part = "placement" /\ UNCHANGED <<part, peopleVars, pairVars, btVars, signalVars, seen, recordVars>>
     /\ PlacementNext
  \/ /\ part = "channels" /\ UNCHANGED <<part, accVars, requestVars, configVars, guideVars, tradeVars,
                     recordVars>>
     /\ ChannelNext
  \/ /\ part = "rules" /\ UNCHANGED <<part, accVars, requestVars, configVars, guideVars, tradeVars,
                     recordVars>>
     /\ RuleNext
  \/ /\ part = "trail" /\ UNCHANGED <<part, peopleVars, tradeVars, portfolioVars, journalVars,
                     migrationVars, cycleVars>>
     /\ TrailNext
  \/ /\ part = "alerts" /\ UNCHANGED <<part, peopleVars, tradeVars, portfolioVars, journalVars,
                     migrationVars, cycleVars>>
     /\ AlertNext
  \/ /\ part = "portfolio" /\ UNCHANGED <<part, peopleVars, tradeVars, auditVars, journalVars, migrationVars,
                     cycleVars>>
     /\ PortfolioNext
  \/ /\ part = "cycles" /\ UNCHANGED <<part, peopleVars, tradeVars, auditVars, portfolioVars, journalVars,
                     migrationVars>>
     /\ CyclesNext
  \/ /\ part = "market" /\ UNCHANGED <<part, peopleVars, pairVars, btVars, signalVars, placementVars,
                     recordVars>>
     /\ MarketNext
  \/ /\ part = "guide" /\ UNCHANGED <<part, accVars, requestVars, channelVars, configVars, tradeVars,
                     recordVars>>
     /\ OnboardingNext /\ FewMarks
  \/ /\ part = "config" /\ UNCHANGED <<part, accVars, requestVars, channelVars, guideVars, tradeVars,
                     recordVars>>
     /\ ConfigNext
  \/ /\ part = "json" /\ UNCHANGED <<part, peopleVars, tradeVars, auditVars, portfolioVars,
                     migrationVars, cycleVars>>
     /\ JsonNext
  \/ /\ part = "entries" /\ UNCHANGED <<part, peopleVars, tradeVars, auditVars, portfolioVars,
                     migrationVars, cycleVars>>
     /\ RowsNext
  \/ /\ part = "boot" /\ UNCHANGED <<part, peopleVars, tradeVars, auditVars, portfolioVars, journalVars,
                     cycleVars>>
     /\ MigrationsNext

Spec == Init /\ [][Next]_vars

\* What tells two states apart: the part and its variables; the others keep the value
\* they start with, which is one and the same in every behaviour of this part.
PartView ==
  CASE part \in {"accounts", "crowd", "factor"} -> <<part, accVars>>
    [] part = "guide" -> <<part, guideVars>>
    [] part = "portfolio" -> <<part, portfolioVars>>
    [] part = "pairs" -> <<part, pairVars>>
    [] part \in {"trail", "alerts"} -> <<part, auditVars>>
    [] part \in {"channels", "rules"} -> <<part, channelVars>>
    [] part \in {"jobs", "replay"} -> <<part, btVars>>
    [] part \in {"limiter", "gate"} -> <<part, requestVars>>
    [] part = "signal" -> <<part, signalVars>>
    [] part = "placement" -> <<part, placementVars>>
    [] part = "cycles" -> <<part, cycleVars>>
    [] part = "market" -> <<part, seen>>
    [] part = "config" -> <<part, configVars>>
    [] part \in {"json", "entries"} -> <<part, journalVars>>
    [] part = "boot" -> <<part, migrationVars>>

-----------------------------------------------------------------------------
\* Every variable of the part has its type.
TypeOK ==
  /\ part \in {"accounts", "crowd", "factor"} => AccountsTypeOK
  /\ part = "guide" => OnboardingTypeOK
  /\ part = "portfolio" => PortfolioTypeOK
  /\ part = "pairs" => PairsTypeOK
  /\ part \in {"trail", "alerts"} => AuditTypeOK
  /\ part \in {"channels", "rules"} => ChannelTypeOK
  /\ part \in {"jobs", "replay"} => BacktestsTypeOK
  /\ part \in {"limiter", "gate"} => RequestTypeOK
  /\ part = "signal" => SignalTypeOK
  /\ part = "placement" => PlacementTypeOK
  /\ part = "cycles" => CyclesTypeOK
  /\ part = "market" => MarketTypeOK
  /\ part = "config" => ConfigTypeOK
  /\ part \in {"json", "entries"} => JournalTypeOK
  /\ part = "boot" => MigrationsTypeOK

\* An invitation makes one account at most, and a session that can be refreshed was
\* opened with the present password, whatever requests interleave or are cut
\* (auth/store.py accept_invite and consume_reset, api/routes/auth.py reset_password).
AccountFlowsHold ==
  part \in {"accounts", "crowd", "factor"} => InviteMakesOne /\ SessionsFollowPassword

\* Adding a pair drops none that was operated, and a pair paused before a cycle opens
\* nothing in it, unless the cycle could not read what is paused (api/routes/pairs.py,
\* core/pairs_store.py, orchestration/orchestrator_loop.py).
PairsHold == part = "pairs" => AdditionOnlyAdds /\ PauseHolds

\* A row that says running has a task, and a replay holds one position at a time and
\* accounts for its curve (api/routes/backtest.py, backtest/engine.py).
ReplayHolds ==
  /\ part = "jobs" => RunningIsAlive
  /\ part = "replay" => RunIsSound

\* In memory, no window admits more than the limit to a replica; on Redis, not more than
\* twice the limit and one request for every call that failed, and no key stays without an
\* expiry unless one did; a production deployment serves nobody without the permission
\* (core/ratelimit.py, api/main.py, api/authn.py).
GateHolds ==
  /\ part = "limiter" => WithinWindow
  /\ part = "gate" => ProductionIsClosed

\* What an operator stored outlives what is sent or asked later: a channel's secret the
\* echo of its masked form, a finished guide every visit (notifications/store.py,
\* onboarding/status.py).
StoredOutlivesEdits == EchoKeepsSecret /\ GuideStaysClosed

\* The audit screen shows what was written, of the kinds asked for, and the ledger's
\* diffs explain every setting but those whose last change could not be logged, whatever
\* is patched, lost and restarted (api/routes/audit.py, risk.py, config.py).
TrailTellsAll ==
  /\ part \in {"trail", "alerts"} => TrailIsComplete
  /\ part = "config" => DiffsExplainConfig

\* The screens compute from one state of the records: the figures of the portfolio agree
\* with the closes and lots they were read from, a signal with its factors, a profile
\* with its bins, a journal with its entries, an agent's status with its cycles.  A lot is
\* told closed and open at once only if its row could not be deleted (core/metrics.py;
\* metrics.py, risk.py, trades.py, desk.py, market.py and journal.py of api/routes).
ScreensAddUp ==
  /\ part = "portfolio" => ViewsAgree
  /\ part = "market" => ViewsExplain
  /\ part = "entries" => FiguresAddUp
  /\ part = "cycles" => CyclesAreCounted

\* What is on disk is whole: a journal reads back what it said it saved, and a process
\* that is up works on the whole schema (journal/trade_journal.py, core/db.py).
DiskIsWhole ==
  /\ part = "json" => SavedIsReadBack
  /\ part = "boot" => BootedIsMigrated
=============================================================================
