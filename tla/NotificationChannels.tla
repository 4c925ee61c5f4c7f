------------------------ MODULE NotificationChannels ------------------------
(***************************************************************************)
(* Where alerts may be sent: channels with encrypted secrets, the rules     *)
(* that name them and the quiet hours (notifications/store.py,              *)
(* api/routes/notifications.py).                                            *)
(*                                                                         *)
(* An editor is a client with the last list it was shown, in which secrets  *)
(* are masked, and its request.  Handlers never await, but the API may run  *)
(* in several worker processes, and update_channel, update_rule after       *)
(* create_rule and set_settings read in one transaction and write in        *)
(* another: an edit is two steps.  A channel has one secret field; a URL    *)
(* and a token are both masked to a part that other values may share, and   *)
(* masking a mask gives it back.                                            *)
(***************************************************************************)
EXTENDS Naturals, FiniteSets

CONSTANTS Editors, Channels, Rules,
          Secrets,         \* values of the secret field
          MaskOf,          \* what of a secret is shown
          MaxChanges       \* bound on changes of a row and of the encryption key

Masks == {MaskOf[s] : s \in Secrets}
Missing == "missing"       \* the field is empty, or cannot be decrypted

ASSUME ChannelAssumption ==
  /\ MaxChanges \in Nat \ {0} /\ DOMAIN MaskOf = Secrets
  /\ Masks \intersect Secrets = {} /\ Missing \notin Masks \union Secrets

VARIABLES channel,   \* row of a channel; rev counts the changes of what it decrypts to
          rule,      \* row of a rule
          quiet,     \* notification_settings: are quiet hours set, the grouping window
          key,       \* AUTH_SECRET_KEY, changed between runs
          shown,     \* of an editor: what it was shown of a channel
          request    \* of an editor: its edit between the read and the write

channelVars == <<channel, rule, quiet, key, shown, request>>

Row == [st: {"none", "present", "deleted"}, secret: Secrets \union Masks \union {Missing},
        key: Nat, rev: Nat, on: BOOLEAN, test: {"never", "ok", "failed"}]
NoRow == [st |-> "none", secret |-> Missing, key |-> 0, rev |-> 1, on |-> TRUE, test |-> "never"]
NoView == [text |-> Missing, rev |-> 0]
NoEdit == [kind |-> "none"]

ChannelInit ==
  /\ channel = [c \in Channels |-> NoRow]
  /\ rule = [x \in Rules |-> [st |-> "none", to |-> {}]]
  /\ quiet = [hours |-> FALSE, window |-> 5] /\ key = 0
  /\ shown = [e \in Editors |-> [c \in Channels |-> NoView]]
  /\ request = [e \in Editors |-> NoEdit]

Present(c) == channel[c].st = "present"
\* channel_config: nothing if the key changed.
Stored(c) == IF channel[c].key = key THEN channel[c].secret ELSE Missing
\* _mask_value
Masked(v) == IF v \in Secrets THEN MaskOf[v] ELSE v
Done(e) == request' = [request EXCEPT ![e] = NoEdit]
Idle(e) == request[e] = NoEdit

-----------------------------------------------------------------------------
(* Channels.                                                               *)

\* A required field must not be empty.
CreateChannel(e, c, s) ==
  /\ Idle(e) /\ channel[c].st = "none"
  /\ channel' = [channel EXCEPT ![c] = [NoRow EXCEPT !.st = "present", !.secret = s, !.key = key]]
  /\ UNCHANGED <<rule, quiet, key, shown, request>>

\* masked_config
ListChannels(e) ==
  /\ Idle(e)
  /\ shown' = [shown EXCEPT ![e] = [c \in Channels |->
       IF Present(c) THEN [text |-> Masked(Stored(c)), rev |-> channel[c].rev] ELSE NoView]]
  /\ UNCHANGED <<channel, rule, quiet, key, request>>


\* Mutant: compared with what is stored, not with its mask.
Merged_Unmasked(stored, sent) == IF stored = sent THEN stored ELSE sent

\* The field that echoes the mask of what is stored is what is stored.
Merged(stored, sent) == IF stored # Missing /\ sent = Masked(stored) THEN stored ELSE sent

\* An edit of a channel: a new secret, or the text it was shown.
ReadChannel(e, c, sent) ==
  /\ Idle(e) /\ Present(c)
  /\ sent \in Secrets \union {shown[e][c].text}
  /\ request' = [request EXCEPT ![e] =
       [kind |-> "channel", c |-> c, sent |-> sent, merged |-> Merged(Stored(c), sent)]]
  /\ UNCHANGED <<channel, rule, quiet, key, shown>>

\* The update finds no row if the channel was deleted since.
WriteChannel(e) ==
  LET q == request[e]
  IN /\ q.kind = "channel" /\ channel[q.c].rev < MaxChanges
     /\ channel' = IF ~Present(q.c) THEN channel
                   ELSE [channel EXCEPT ![q.c].secret = q.merged, ![q.c].key = key,
                           ![q.c].rev = IF Stored(q.c) = q.merged THEN @ ELSE @ + 1]
     /\ Done(e) /\ UNCHANGED <<rule, quiet, key, shown>>

\* An edit without the config does not touch the secret.
EnableChannel(e, c, on) ==
  /\ Idle(e) /\ Present(c)
  /\ channel' = [channel EXCEPT ![c].on = on]
  /\ UNCHANGED <<rule, quiet, key, shown, request>>

\* The test message is sent with what is decrypted: never with nothing.
TestChannel(e, c, ok) ==
  /\ Idle(e) /\ Present(c) /\ (ok => Stored(c) \in Secrets)
  /\ channel' = [channel EXCEPT ![c].test = IF ok THEN "ok" ELSE "failed"]
  /\ UNCHANGED <<rule, quiet, key, shown, request>>

\* The rules that name it stay.
DeleteChannel(e, c) ==
  /\ Idle(e) /\ Present(c)
  /\ channel' = [channel EXCEPT ![c] = [NoRow EXCEPT !.st = "deleted"]]
  /\ UNCHANGED <<rule, quiet, key, shown, request>>

-----------------------------------------------------------------------------
(* Rules and quiet hours.                                                  *)

\* A rule is inserted enabled; one that is to be off is updated afterwards.
CreateRule(e, x, to, on) ==
  /\ Idle(e) /\ rule[x].st = "none"
  /\ rule' = [rule EXCEPT ![x] = [st |-> "on", to |-> to]]
  /\ request' = [request EXCEPT ![e] = IF on THEN NoEdit ELSE [kind |-> "rule", x |-> x]]
  /\ UNCHANGED <<channel, quiet, key, shown>>

TurnRuleOff(e) ==
  /\ request[e].kind = "rule"
  /\ rule' = [rule EXCEPT ![request[e].x].st = IF @ = "deleted" THEN @ ELSE "off"]
  /\ Done(e) /\ UNCHANGED <<channel, quiet, key, shown>>

PatchRule(e, x, to, on) ==
  /\ Idle(e) /\ rule[x].st \in {"on", "off"}
  /\ rule' = [rule EXCEPT ![x] = [st |-> IF on THEN "on" ELSE "off", to |-> to]]
  /\ UNCHANGED <<channel, quiet, key, shown, request>>

DeleteRule(e, x) ==
  /\ Idle(e) /\ rule[x].st \in {"on", "off"}
  /\ rule' = [rule EXCEPT ![x] = [st |-> "deleted", to |-> {}]]
  /\ UNCHANGED <<channel, quiet, key, shown, request>>

\* The fields asked for are merged with the row that was read, and the row is written whole.
ReadSettings(e, merged) ==
  /\ Idle(e)
  /\ request' = [request EXCEPT ![e] = [kind |-> "settings", whole |-> merged]]
  /\ UNCHANGED <<channel, rule, quiet, key, shown>>

WriteSettings(e) ==
  /\ request[e].kind = "settings"
  /\ quiet' = request[e].whole
  /\ Done(e) /\ UNCHANGED <<channel, rule, key, shown>>

-----------------------------------------------------------------------------
\* A worker dies in the middle of a request.
WorkerDies(e) ==
  /\ ~Idle(e) /\ Done(e)
  /\ UNCHANGED <<channel, rule, quiet, key, shown>>

\* The API is stopped and started with another key.
ChangeKey ==
  /\ key < MaxChanges /\ \A c \in Channels : channel[c].rev < MaxChanges
  /\ key' = key + 1
  /\ request' = [e \in Editors |-> NoEdit]
  /\ channel' = [c \in Channels |-> [channel[c] EXCEPT !.rev = @ + 1]]
  /\ UNCHANGED <<rule, quiet, shown>>

ChannelNext ==
  \/ \E e \in Editors, c \in Channels :
       \/ \E s \in Secrets : CreateChannel(e, c, s)
       \/ \E sent \in Secrets \union {shown[e][c].text} : ReadChannel(e, c, sent)
       \/ \E on \in BOOLEAN : EnableChannel(e, c, on) \/ TestChannel(e, c, on)
       \/ DeleteChannel(e, c)
  \/ \E e \in Editors : ListChannels(e) \/ WriteChannel(e) \/ WorkerDies(e)
  \/ ChangeKey

RuleNext ==
  \/ \E e \in Editors, x \in Rules :
       \/ \E to \in SUBSET Channels, on \in BOOLEAN :
            CreateRule(e, x, to, on) \/ PatchRule(e, x, to, on)
       \/ DeleteRule(e, x)
  \/ \E e \in Editors :
       \/ TurnRuleOff(e)
       \/ \E hours \in BOOLEAN : ReadSettings(e, [quiet EXCEPT !.hours = hours])
       \/ \E window \in {5, 10} : ReadSettings(e, [quiet EXCEPT !.window = window])
       \/ WriteSettings(e) \/ WorkerDies(e)

ChannelSpec == ChannelInit /\ [][ChannelNext \/ RuleNext]_channelVars

-----------------------------------------------------------------------------
(* Types.                                                                  *)
ChannelTypeOK ==
  /\ channel \in [Channels -> Row]
  /\ rule \in [Rules -> [st: {"none", "on", "off", "deleted"}, to: SUBSET Channels]]
  /\ quiet \in [hours: BOOLEAN, window: {5, 10}] /\ key \in 0..MaxChanges
  /\ shown \in [Editors -> [Channels -> [text: Masks \union {Missing}, rev: 0..MaxChanges]]]
  /\ \A e \in Editors :
       \/ request[e] = NoEdit
       \/ request[e].kind = "channel" /\ request[e].merged \in Secrets \union Masks \union {Missing}
       \/ request[e].kind = "rule" /\ request[e].x \in Rules
       \/ request[e].kind = "settings" /\ request[e].whole \in [hours: BOOLEAN, window: {5, 10}]

(* What a channel is sent with changes by an edit only, and by one that sends back the     *)
(* mask it was shown only if the row had changed since it was shown (then the older mask    *)
(* is taken for a new secret, or an older secret comes back: notifications/store.py:144);   *)
(* it never changes under an editor who saves a form that is still up to date.              *)
EchoKeepsSecret ==
  [][\A c \in Channels :
       (Present(c) /\ channel'[c].st = "present" /\ key' = key /\ Stored(c)' # Stored(c))
         => \E e \in Editors :
              /\ request[e].kind = "channel" /\ request[e].c = c
              /\ request[e].sent = shown[e][c].text => shown[e][c].rev # channel[c].rev]_channelVars

=============================================================================
