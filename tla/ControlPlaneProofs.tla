-------------------------- MODULE ControlPlaneProofs --------------------------
(***************************************************************************)
(* The services together.  A behaviour of all is a behaviour of each: a     *)
(* handler writes the state of its own service alone (api/routes, auth,     *)
(* backtest, notifications, audit, journal, core), so what holds of every   *)
(* service by itself, for every value of the constants, holds of all.       *)
(***************************************************************************)
EXTENDS MCControlPlane, AccountsProofs, ServicesProofs, FiguresProofs

-----------------------------------------------------------------------------
(* Each service is as it would be alone.                                   *)

LEMMA AccountsRun == Spec => AccountsSpec
<1>1. Init => AccountsInit
  BY DEF Init
<1>2. Next => [AccountsNext]_accVars
  BY DEF Next, peopleVars, tradeVars, recordVars
<1>3. UNCHANGED vars => UNCHANGED accVars
  BY DEF vars, peopleVars, tradeVars, recordVars
<1>4. QED  BY <1>1, <1>2, <1>3, PTL DEF Spec, AccountsSpec

LEMMA PairsRun == Spec => PairsSpec
<1>1. Init => PairsInit
  BY DEF Init
<1>2. Next => [PairsNext]_pairVars
  BY DEF Next, peopleVars, tradeVars, recordVars
<1>3. UNCHANGED vars => UNCHANGED pairVars
  BY DEF vars, peopleVars, tradeVars, recordVars
<1>4. QED  BY <1>1, <1>2, <1>3, PTL DEF Spec, PairsSpec

LEMMA BacktestsRun == Spec => BacktestsSpec
<1>1. Init => BacktestsInit
  BY DEF Init
<1>2. Next => [JobsNext \/ ReplayNext]_btVars
  BY DEF Next, peopleVars, tradeVars, recordVars
<1>3. UNCHANGED vars => UNCHANGED btVars
  BY DEF vars, peopleVars, tradeVars, recordVars
<1>4. QED  BY <1>1, <1>2, <1>3, PTL DEF Spec, BacktestsSpec, BacktestsNext

LEMMA RequestsRun == Spec => RequestSpec
<1>1. Init => RequestInit
  BY DEF Init
<1>2. Next => [LimiterNext \/ GateNext]_requestVars
  BY DEF Next, peopleVars, tradeVars, recordVars
<1>3. UNCHANGED vars => UNCHANGED requestVars
  BY DEF vars, peopleVars, tradeVars, recordVars
<1>4. QED  BY <1>1, <1>2, <1>3, PTL DEF Spec, RequestSpec

LEMMA SignalRun == Spec => SignalSpec
<1>1. Init => SignalInit
  BY DEF Init
<1>2. Next => [SignalNext]_signalVars
  BY DEF Next, peopleVars, tradeVars, recordVars
<1>3. UNCHANGED vars => UNCHANGED signalVars
  BY DEF vars, peopleVars, tradeVars, recordVars
<1>4. QED  BY <1>1, <1>2, <1>3, PTL DEF Spec, SignalSpec

LEMMA PlacementRun == Spec => PlacementSpec
<1>1. Init => PlacementInit
  BY DEF Init
<1>2. Next => [PlacementNext]_placementVars
  BY DEF Next, peopleVars, tradeVars, recordVars
<1>3. UNCHANGED vars => UNCHANGED placementVars
  BY DEF vars, peopleVars, tradeVars, recordVars
<1>4. QED  BY <1>1, <1>2, <1>3, PTL DEF Spec, PlacementSpec

LEMMA ChannelsRun == Spec => ChannelSpec
<1>1. Init => ChannelInit
  BY DEF Init
<1>2. Next => [ChannelNext \/ RuleNext]_channelVars
  BY DEF Next, peopleVars, tradeVars, recordVars
<1>3. UNCHANGED vars => UNCHANGED channelVars
  BY DEF vars, peopleVars, tradeVars, recordVars
<1>4. QED  BY <1>1, <1>2, <1>3, PTL DEF Spec, ChannelSpec

LEMMA AuditRun == Spec => AuditSpec
<1>1. Init => AuditInit
  BY DEF Init
<1>2. Next => [TrailNext \/ AlertNext]_auditVars
  BY DEF Next, peopleVars, tradeVars, recordVars
<1>3. UNCHANGED vars => UNCHANGED auditVars
  BY DEF vars, peopleVars, tradeVars, recordVars
<1>4. QED  BY <1>1, <1>2, <1>3, PTL DEF Spec, AuditSpec

LEMMA PortfolioRun == Spec => PortfolioSpec
<1>1. Init => PortfolioInit
  BY DEF Init
<1>2. Next => [PortfolioNext]_portfolioVars
  BY DEF Next, peopleVars, tradeVars, recordVars
<1>3. UNCHANGED vars => UNCHANGED portfolioVars
  BY DEF vars, peopleVars, tradeVars, recordVars
<1>4. QED  BY <1>1, <1>2, <1>3, PTL DEF Spec, PortfolioSpec

LEMMA CyclesRun == Spec => CyclesSpec
<1>1. Init => CyclesInit
  BY DEF Init
<1>2. Next => [CyclesNext]_cycleVars
  BY DEF Next, peopleVars, tradeVars, recordVars
<1>3. UNCHANGED vars => UNCHANGED cycleVars
  BY DEF vars, peopleVars, tradeVars, recordVars
<1>4. QED  BY <1>1, <1>2, <1>3, PTL DEF Spec, CyclesSpec

LEMMA MarketRun == Spec => MarketSpec
<1>1. Init => MarketInit
  BY DEF Init
<1>2. Next => [MarketNext]_seen
  BY DEF Next, peopleVars, tradeVars, recordVars
<1>3. UNCHANGED vars => UNCHANGED seen
  BY DEF vars, peopleVars, tradeVars, recordVars
<1>4. QED  BY <1>1, <1>2, <1>3, PTL DEF Spec, MarketSpec

LEMMA GuideRun == Spec => OnboardingSpec
<1>1. Init => OnboardingInit
  BY DEF Init
<1>2. Next => [OnboardingNext]_guideVars
  BY DEF Next, peopleVars, tradeVars, recordVars
<1>3. UNCHANGED vars => UNCHANGED guideVars
  BY DEF vars, peopleVars, tradeVars, recordVars
<1>4. QED  BY <1>1, <1>2, <1>3, PTL DEF Spec, OnboardingSpec

LEMMA ConfigRun == Spec => ConfigSpec
<1>1. Init => ConfigInit
  BY DEF Init
<1>2. Next => [ConfigNext]_configVars
  BY DEF Next, peopleVars, tradeVars, recordVars
<1>3. UNCHANGED vars => UNCHANGED configVars
  BY DEF vars, peopleVars, tradeVars, recordVars
<1>4. QED  BY <1>1, <1>2, <1>3, PTL DEF Spec, ConfigSpec

LEMMA JournalsRun == Spec => JournalSpec
<1>1. Init => JournalInit
  BY DEF Init
<1>2. Next => [JsonNext \/ RowsNext]_journalVars
  BY DEF Next, peopleVars, tradeVars, recordVars
<1>3. UNCHANGED vars => UNCHANGED journalVars
  BY DEF vars, peopleVars, tradeVars, recordVars
<1>4. QED  BY <1>1, <1>2, <1>3, PTL DEF Spec, JournalSpec

LEMMA MigrationsRun == Spec => MigrationsSpec
<1>1. Init => MigrationsInit
  BY DEF Init
<1>2. Next => [MigrationsNext]_migrationVars
  BY DEF Next, peopleVars, tradeVars, recordVars
<1>3. UNCHANGED vars => UNCHANGED migrationVars
  BY DEF vars, peopleVars, tradeVars, recordVars
<1>4. QED  BY <1>1, <1>2, <1>3, PTL DEF Spec, MigrationsSpec

-----------------------------------------------------------------------------
(* What the services promise together.                                     *)

\* Every row, file and answer of every service is well formed whatever handlers ran before
\* (the stores and routes under auth, api/routes, backtest, notifications, audit, journal, core).
THEOREM ControlPlaneTypes == Spec => []TypeOK
<1>1. Spec => /\ []AccountsTypeOK /\ []PairsTypeOK /\ []BacktestsTypeOK /\ []RequestTypeOK /\ []SignalTypeOK
  BY AccountsRun, AccountsTypeCorrect, PairsRun, PairsTypes, BacktestsRun, BacktestsTypes, RequestsRun, RequestTypes,
     SignalRun, SignalTypes, PTL
<1>2. Spec => /\ []PlacementTypeOK /\ []ChannelTypeOK /\ []AuditTypeOK /\ []PortfolioTypeOK /\ []CyclesTypeOK
  BY PlacementRun, PlacementTypes, ChannelsRun, ChannelTypes, AuditRun, AuditTypes, PortfolioRun, PortfolioTypes,
     CyclesRun, CyclesTypes, PTL
<1>3. Spec => /\ []MarketTypeOK /\ []OnboardingTypeOK /\ []ConfigTypeOK /\ []JournalTypeOK /\ []MigrationsTypeOK
  BY MarketRun, MarketTypes, GuideRun, GuideTypes, ConfigRun, ConfigTypes, JournalsRun, JournalTypes,
     MigrationsRun, MigrationsTypes, PTL
<1>4. /\ AccountsTypeOK /\ PairsTypeOK /\ BacktestsTypeOK /\ RequestTypeOK /\ SignalTypeOK
      /\ PlacementTypeOK /\ ChannelTypeOK /\ AuditTypeOK /\ PortfolioTypeOK /\ CyclesTypeOK
      /\ MarketTypeOK /\ OnboardingTypeOK /\ ConfigTypeOK /\ JournalTypeOK /\ MigrationsTypeOK
      => TypeOK
  BY DEF TypeOK
<1>5. QED  BY <1>1, <1>2, <1>3, <1>4, PTL

\* Whatever else the services do, an active administrator is left, a session family is one chain
\* and only active accounts hold sessions (auth/store.py, api/routes/users.py).
THEOREM ControlPlaneAccounts == Spec => [](AdminRemains /\ FamilyIsOneChain /\ OnlyActiveHoldSessions)
  BY AccountsRun, AccountsKeepAnAdmin, AccountsFamilies, AccountsHolders, PTL

\* An invitation makes one account at most and a session that can be refreshed was opened with
\* the present password, for any number of users, requests and crashes
\* (auth/store.py accept_invite and consume_reset, api/routes/auth.py reset_password).
THEOREM ControlPlaneAccountFlows == Spec => []AccountFlowsHold
<1>1. InviteMakesOne /\ SessionsFollowPassword => AccountFlowsHold
  BY DEF AccountFlowsHold
<1>2. QED  BY <1>1, AccountsRun, AccountsPasswords, AccountsInvitations, PTL

\* Adding a pair drops none that was operated, and a pair paused before a cycle opens nothing in
\* it if the cycle could read that it is paused, for any tables, any number of additions and
\* any reads that fail (api/routes/pairs.py, core/pairs_store.py, orchestrator_loop.py).
THEOREM ControlPlanePairs == Spec => []PairsHold
<1>1. AdditionOnlyAdds /\ PauseHolds => PairsHold
  BY DEF PairsHold
<1>2. QED  BY <1>1, PairsRun, PairsAdditionOnlyAdds, PairsPauseHolds, PTL

\* A row that says running has a task, and a replay of any number of candles holds one position
\* at a time and accounts for its curve (api/routes/backtest.py, backtest/engine.py).
THEOREM ControlPlaneReplays == Spec => []ReplayHolds
<1>1. RunningIsAlive /\ RunIsSound => ReplayHolds
  BY DEF ReplayHolds
<1>2. QED  BY <1>1, BacktestsRun, BacktestsRunningIsAlive, BacktestsRunIsSound, PTL

\* In any window, whatever the limit and the window, a replica admits no more than the limit on its
\* own memory, and all of them no more than twice the limit and one request per failed call on
\* Redis; and a production deployment serves nobody without the permission
\* (core/ratelimit.py, api/main.py, api/authn.py).
THEOREM ControlPlaneGate == Spec => []GateHolds
<1>1. WithinWindow /\ ProductionIsClosed => GateHolds
  BY DEF GateHolds
<1>2. QED  BY <1>1, RequestsRun, RequestWithinWindow, RequestProductionIsClosed, PTL

\* Only a trade with a stop reaches the risk agent, for every market and price and whatever the
\* language model answers; once the coin costs 25 cents, however prices are rounded, the stop is on
\* the side of the loss (strategies, strategy_agent.py, risk_agent.py:115).
THEOREM ControlPlaneTradesAreStopped == Spec => []TradesAreStopped
  BY SignalRun, SignalTradesAreStopped, PTL

\* A task has one order at most, at the exchange only from a live client, and the answer of the
\* agent agrees with what was placed, through lost answers and replaced processes
\* (execution_agent.py, core/exchange_client.py).
THEOREM ControlPlanePlacement == Spec => []PlacedAsAnswered
  BY PlacementRun, PlacementAnswers, PTL

\* The secret of a channel outlives the echo of its mask, and a finished guide every visit
\* (notifications/store.py, onboarding/status.py).
THEOREM ControlPlaneStored == Spec => StoredOutlivesEdits
<1>1. EchoKeepsSecret /\ GuideStaysClosed => StoredOutlivesEdits
  BY DEF StoredOutlivesEdits
<1>2. QED  BY <1>1, ChannelsRun, ChannelEchoKeepsSecret, GuideRun, GuideStays, PTL

\* The audit screen shows what was written, of the kinds asked for, page after page and whatever
\* is written meanwhile, and the ledger's diffs explain every setting in force but those whose
\* last change found a ledger that failed or a file that was cut
\* (api/routes/audit.py, risk.py, config.py, audit/normalize.py).
THEOREM ControlPlaneTrail == Spec => []TrailTellsAll
<1>1. TrailIsComplete /\ DiffsExplainConfig => TrailTellsAll
  BY DEF TrailTellsAll
<1>2. QED  BY <1>1, AuditRun, AuditTrailIsComplete, ConfigRun, ConfigDiffsExplain, PTL

\* The figures of every screen agree with the records they were computed from, for any history of
\* closes, bars, entries and cycles, and whatever writes and reads of the position table fail
\* (core/metrics.py, api/routes/metrics.py, risk.py, market.py, journal.py, agents/registry.py).
THEOREM ControlPlaneScreens == Spec => []ScreensAddUp
<1>1. ViewsAgree /\ ViewsExplain /\ FiguresAddUp /\ CyclesAreCounted => ScreensAddUp
  BY DEF ScreensAddUp
<1>2. QED
  BY <1>1, PortfolioRun, PortfolioViewsAgree, MarketRun, MarketExplains, JournalsRun, JournalFiguresAddUp,
     CyclesRun, CyclesCounted, PTL

\* A journal reads back what it said it saved, and a process that is up works on the whole
\* schema, for any scripts and any crashes (journal/trade_journal.py, core/db.py).
THEOREM ControlPlaneDisk == Spec => []DiskIsWhole
<1>1. SavedIsReadBack /\ BootedIsMigrated => DiskIsWhole
  BY DEF DiskIsWhole
<1>2. QED  BY <1>1, JournalsRun, JournalSavedIsReadBack, MigrationsRun, MigrationsBooted, PTL

=============================================================================
