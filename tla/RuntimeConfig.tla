----------------------------- MODULE RuntimeConfig -----------------------------
(***************************************************************************)
(* What an administrator changes at run time, and the diff the ledger      *)
(* keeps of it: the risk file (api/routes/risk.py, rewritten as a whole),  *)
(* and what lives in the API process only (api/routes/config.py): the      *)
(* overrides of the environment, the agents' parameters, the alerts'       *)
(* thresholds.  One API process: a handler has no await that suspends.     *)
(***************************************************************************)
EXTENDS Naturals, FiniteSets

CONSTANTS FileKeys,      \* parameters of risk_params.yaml
          EnvKeys,       \* INITIAL_CAPITAL, ORCHESTRATOR_INTERVAL_SECONDS
          ParamKeys,     \* the agents' parameters, the alerts' thresholds
          Values, Initial, \* the values, and the one each starts with
          MaxRestarts

ASSUME ConfigAssumption ==
  /\ Initial \in Values /\ "absent" \notin Values /\ MaxRestarts \in Nat
  /\ FileKeys \cap EnvKeys = {} /\ (FileKeys \cup EnvKeys) \cap ParamKeys = {}

VARIABLES config,   \* file, overrides and process memory
          diffs,    \* the last value config_changed has of each key
          mishaps   \* restarts, and the keys whose last change the ledger has not been told (history)

configVars == <<config, diffs, mishaps>>
ConfigKeys == FileKeys \cup EnvKeys \cup ParamKeys
Unsaid(K) == [k \in K |-> "absent"]

ConfigInit ==
  /\ config = [file |-> Unsaid(FileKeys), over |-> Unsaid(EnvKeys), memory |-> [k \in ParamKeys |-> Initial]]
  /\ diffs = Unsaid(ConfigKeys)
  /\ mishaps = [restarts |-> 0, unlogged |-> {}]

--------------------------------------------------------------------------------
\* get_risk_config, get_config, get_alerts_config: what the API shows for each key.
Value(k, x) == IF x = "absent" THEN Initial ELSE x
Effective(c) ==
  [k \in ConfigKeys |-> CASE k \in FileKeys -> Value(k, c.file[k])
                          [] k \in EnvKeys -> Value(k, c.over[k])
                          [] OTHER -> c.memory[k]]

Set(f, g) == [k \in DOMAIN f |-> IF k \in DOMAIN g THEN g[k] ELSE f[k]]
Patches(K) == UNION {[S -> Values] : S \in SUBSET K}

Changed(before, after) == {k \in ConfigKeys : Effective(before)[k] # Effective(after)[k]}

\* The change is in force, then _log_config_change, or its twin in patch_risk_config, tells
\* the ledger the keys that differ; its insert may raise, and nothing is taken back.
InForce(before, after) ==
  LET keys == Changed(before, after)
  IN /\ config' = after
     /\ \/ /\ diffs' = [k \in ConfigKeys |-> IF k \in keys THEN Effective(after)[k] ELSE diffs[k]]
           /\ mishaps' = [mishaps EXCEPT !.unlogged = @ \ keys]
        \/ /\ mishaps' = [mishaps EXCEPT !.unlogged = @ \cup keys]
           /\ UNCHANGED diffs

\* patch_risk_config: refused without confirm; a file that cannot be opened is 503.
PatchRisk(p, confirm) ==
  IF confirm THEN InForce(config, [config EXCEPT !.file = Set(@, p)])
  ELSE UNCHANGED configVars

\* The dump fails or the process dies once "w" has emptied the file, or between the file
\* and the ledger: any keys may be missing, any number cut short, and nothing is logged.
\* (A rest that is no YAML, or has a section without keys, makes every read a 500.)
CutRiskFile(rest) ==
  LET cut == [config EXCEPT !.file = rest]
  IN /\ config' = cut
     /\ mishaps' = [mishaps EXCEPT !.unlogged = @ \cup Changed(config, cut)]
     /\ UNCHANGED diffs

\* patch_config: an override, which the environment's own value gives way to.
PatchConfig(p) == InForce(config, [config EXCEPT !.over = Set(@, p)])

\* patch_agent_config, patch_alerts_config.
PatchParams(p) == InForce(config, [config EXCEPT !.memory = Set(@, p)])

\* A new process has the file alone; the ledger is not told that the rest is back at its start.
RestartApi ==
  /\ mishaps.restarts < MaxRestarts
  /\ config' = [config EXCEPT !.over = Unsaid(EnvKeys), !.memory = [k \in ParamKeys |-> Initial]]
  /\ diffs' = [k \in ConfigKeys |-> IF k \in FileKeys THEN diffs[k] ELSE "absent"]
  /\ mishaps' = [restarts |-> mishaps.restarts + 1, unlogged |-> mishaps.unlogged \cap FileKeys]

ConfigNext ==
  \/ \E p \in Patches(FileKeys), confirm \in BOOLEAN : PatchRisk(p, confirm)
  \/ \E rest \in [FileKeys -> Values \cup {"absent"}] : CutRiskFile(rest)
  \/ \E p \in Patches(EnvKeys) : PatchConfig(p)
  \/ \E p \in Patches(ParamKeys) : PatchParams(p)
  \/ RestartApi

ConfigSpec == ConfigInit /\ [][ConfigNext]_configVars

--------------------------------------------------------------------------------
\* Types of the variables.
ConfigTypeOK ==
  /\ config \in [file : [FileKeys -> Values \cup {"absent"}], over : [EnvKeys -> Values \cup {"absent"}],
                 memory : [ParamKeys -> Values]]
  /\ diffs \in [ConfigKeys -> Values \cup {"absent"}]
  /\ mishaps \in [restarts : 0..MaxRestarts, unlogged : SUBSET ConfigKeys]

\* "Config changes feed the audit trail with a real before-after diff" (risk.py:351): the
\* last diff of every key tells its value, or, where there is none since the process
\* started (the file: since the beginning), the value is the default. Beyond the trail are
\* only the keys that a failed insert or a cut file changed last, each until a later diff
\* of it is written: a patch to the value that is already in force writes none, and what a
\* diff says of one key stays right whatever was lost of the others.
DiffsExplainConfig ==
  \A k \in ConfigKeys \ mishaps.unlogged : Effective(config)[k] = Value(k, diffs[k])
================================================================================
