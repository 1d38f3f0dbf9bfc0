--------------------------- MODULE RuntimeOverrides ---------------------------
(***************************************************************************)
(* The settings the UI changes while the agent runs: the POST handlers of   *)
(* server.py, the runtime_state rows they read and write through runtime.py *)
(* and storage.py, the leverage they push to the exchange, and the trading  *)
(* cycle that reads a model and then a provider.                            *)
(*                                                                          *)
(* Handlers run concurrently in the server's thread pool and every access   *)
(* to a row is a transaction of its own, so it is a step of its own here.   *)
(* A client is a window of the dashboard or another caller of the API, and   *)
(* waits for its request before it sends another one; requests of different  *)
(* clients overlap, those to the same row included.                         *)
(* A patch is a record of the fields a request body sets.                   *)
(***************************************************************************)
EXTENDS Integers, FiniteSets

CONSTANTS Clients,        \* requests in flight at the same time
          Requests,       \* the request bodies each client may post
          Models,         \* every model string a body may name
          Supported,      \* runtime.SUPPORTED_MODELS: model -> provider
          Base,           \* config.yaml: model, provider, risk, tp, sl, ...
          Assets,         \* settings.config.assets
          MaxRequests,    \* bound: requests of a run
          MaxRestarts,    \* bound: restarts of a run
          None            \* a missing row

RiskFields == {"asset", "total"}
TpFields   == {"tp_enabled", "tp_pct"}
SlFields   == {"sl_enabled", "sl_pct"}

PatchFields == RiskFields \cup TpFields \cup SlFields

(* What the pydantic classes admit as a request body. *)
Body(r) ==
    \/ r.kind = "pause" /\ r.patch \in [{"paused"} -> BOOLEAN]
    \/ r.kind = "model" /\ r.patch \in [{"model"} -> Models]
    \/ r.kind = "risk" /\ \E fields \in SUBSET RiskFields : r.patch \in [fields -> Nat]
    \/ r.kind = "monitor" /\ DOMAIN r.patch \subseteq TpFields \cup SlFields
    \/ /\ r.kind = "leverage" /\ DOMAIN r.patch \subseteq {"leverage", "cross"}
       /\ "leverage" \in DOMAIN r.patch => r.patch.leverage \in Nat
       /\ "cross" \in DOMAIN r.patch => r.patch.cross \in BOOLEAN

ASSUME OverridesAssumption ==
    /\ DOMAIN Supported \subseteq Models /\ None \notin Models
    /\ \A m \in DOMAIN Supported : Supported[m] # None
    /\ Base.model \in DOMAIN Supported
    /\ Base.provider = Supported[Base.model]
    /\ Base.risk \in [RiskFields -> Nat] /\ Base.risk.total >= Base.risk.asset
    /\ Base.leverage \in Nat /\ Base.cross \in BOOLEAN /\ None \notin Nat \cup BOOLEAN
    /\ \A c \in Clients : \A r \in Requests[c] : Body(r)
    /\ MaxRequests \in Nat /\ MaxRestarts \in Nat

VARIABLES db,         \* runtime_state: one field per key
          levers,     \* the exchange: leverage and margin mode per asset
          pc, req,    \* per client: handler step, request body
          tmp,        \* per client: overrides read and not yet written back
          lever,      \* per client: effective leverage and mode read
          push,       \* per client: assets still to be pushed
          reader,     \* the cycle: step and the model it has read; settled is
                      \* history: no switch ran or was cut off around its reads
          used,       \* history: the pair the last cycle built its calls from
          torn,       \* history: the last model switch ran beside another one
                      \* or was cut off by a restart
          intent,     \* history: fields as the latest writer of each asked
          since,      \* history: fields others changed since a client's request
          vetted,     \* history: nothing overtook the last write of the limits
          beside,     \* history: another request of its kind ran beside a client's
          crossed,    \* history: so it was with the last push of the leverage
          refused,    \* assets whose last leverage push did not get through
          requests, restarts

clients == <<pc, req, tmp, lever, push>>
cycles  == <<reader, used, torn>>
bounds  == <<requests, restarts>>
history == <<intent, since, vetted, beside, crossed>>
vars    == <<db, levers, refused, clients, cycles, history, bounds>>

NoPatch == [f \in {} |-> 0]

(* {**old, **patch} *)
Merge(old, patch) ==
    [f \in DOMAIN old \cup DOMAIN patch |->
        IF f \in DOMAIN patch THEN patch[f] ELSE old[f]]

Without(old, fields) == [f \in DOMAIN old \ fields |-> old[f]]

-------------------------------------------------------------------------------
(* The effective values, as functions of the rows. *)

ModelOverride == IF db.model \in DOMAIN Supported THEN db.model ELSE None

EffectiveModel == IF ModelOverride # None THEN ModelOverride ELSE Base.model

EffectiveProvider ==
    IF db.provider # None THEN db.provider
    ELSE IF ModelOverride # None THEN Supported[ModelOverride]
    ELSE Base.provider

EffectiveRisk == Merge(Base.risk, db.risk)

EffectiveLever == [leverage |-> IF db.leverage # None THEN db.leverage ELSE Base.leverage,
                   cross    |-> IF db.cross # None THEN db.cross ELSE Base.cross]

-------------------------------------------------------------------------------
NoRequest == [kind |-> "none", patch |-> NoPatch]

(* A fresh database, and a server that has pushed the leverage on startup. *)
Init ==
    /\ db = [paused |-> None, model |-> None, provider |-> None, risk |-> NoPatch,
             tp |-> NoPatch, sl |-> NoPatch, leverage |-> None, cross |-> None]
    /\ levers = [a \in Assets |-> [leverage |-> Base.leverage, cross |-> Base.cross]]
    /\ pc = [c \in Clients |-> "idle"]
    /\ req = [c \in Clients |-> NoRequest]
    /\ tmp = [c \in Clients |-> NoPatch]
    /\ lever = [c \in Clients |-> EffectiveLever]
    /\ push = [c \in Clients |-> {}]
    /\ reader = [pc |-> "idle", model |-> None, settled |-> FALSE]
    /\ used = [model |-> Base.model, provider |-> Base.provider, settled |-> TRUE]
    /\ torn = FALSE
    /\ intent = NoPatch /\ since = [c \in Clients |-> {}]
    /\ vetted = TRUE
    /\ beside = [c \in Clients |-> FALSE] /\ crossed = FALSE
    /\ refused = {}
    /\ requests = 0 /\ restarts = 0

Goto(c, step) == pc' = [pc EXCEPT ![c] = step]

(* Fields of the patch that concern one row. *)
Part(c, fields) ==
    [f \in DOMAIN req[c].patch \cap fields |-> req[c].patch[f]]

(* Mutant: the row read for the take-profit side is used for both. *)
AfterTpReuse(c) == IF Part(c, SlFields) # NoPatch THEN "sl_write" ELSE "idle"

(* A monitor body with nothing for the stop-loss side skips its row. *)
AfterTp(c) == IF Part(c, SlFields) # NoPatch THEN "sl_read" ELSE "idle"

FirstStep(r) ==
    CASE r.kind = "pause"    -> "pause"
      [] r.kind = "model"    -> IF r.patch.model \in DOMAIN Supported THEN "model" ELSE "idle"
      [] r.kind = "risk"     -> "risk_check"
      [] r.kind = "monitor"  -> IF DOMAIN r.patch \cap TpFields # {} THEN "tp_read"
                                ELSE IF r.patch # NoPatch THEN "sl_read" ELSE "idle"
      [] r.kind = "leverage" -> IF "leverage" \in DOMAIN r.patch THEN "leverage"
                                ELSE IF "cross" \in DOMAIN r.patch THEN "cross" ELSE "idle"

(* History: what a request starts from. *)
Begins(c, r) ==
    LET others == {d \in Clients \ {c} : pc[d] # "idle" /\ req[d].kind = r.kind}
    IN  /\ since' = [since EXCEPT ![c] = {}]
        /\ beside' = [d \in Clients |-> IF d = c THEN others # {}
                                       ELSE beside[d] \/ d \in others]

(* The server takes a request; a body its first check refuses changes nothing. *)
Post(c, r) ==
    /\ pc[c] = "idle" /\ requests < MaxRequests
    /\ requests' = requests + 1
    /\ req' = [req EXCEPT ![c] = r]
    /\ Goto(c, FirstStep(r))
    /\ Begins(c, r)
    /\ UNCHANGED <<db, levers, refused, tmp, lever, push, cycles, intent, vetted,
                   crossed, restarts>>

(* History of a write to a row of fields: what its patch mentions is asked    *)
(* for; what others changed since its request was sent is overtaken, and     *)
(* nothing is said of its value until it is asked for again.                 *)
Books(c, fields) ==
    LET overtaken == since[c] \cap fields
        changed   == DOMAIN Part(c, fields) \cup overtaken
    IN  /\ intent' = Merge(Without(intent, overtaken), Part(c, fields))
        /\ since' = [d \in Clients |-> IF d = c THEN since[d] ELSE since[d] \cup changed]

(* A row is written from the client's request; fields are those of a row that *)
(* was read to be merged.                                                    *)
Write(c, key, value, fields) ==
    /\ db' = [db EXCEPT ![key] = value]
    /\ Books(c, fields)
    /\ vetted' = IF key = "risk" THEN since[c] \cap RiskFields = {} ELSE vetted
    /\ UNCHANGED <<levers, refused, req, tmp, lever, push, used, beside, crossed,
                   bounds>>

Read(c, value) ==
    /\ tmp' = [tmp EXCEPT ![c] = value]
    /\ UNCHANGED <<db, levers, refused, req, lever, push, cycles, history, bounds>>

SetPaused(c) ==
    /\ pc[c] = "pause"
    /\ Write(c, "paused", req[c].patch.paused, {})
    /\ Goto(c, "idle")
    /\ UNCHANGED <<reader, torn>>

(* set_model_override: two rows, two transactions. *)
SetModel(c) ==
    /\ pc[c] = "model"
    /\ Write(c, "model", req[c].patch.model, {})
    /\ Goto(c, "provider")
    /\ reader' = [reader EXCEPT !.settled = FALSE]
    /\ UNCHANGED torn

(* Mutant: a provider that is already stored is kept. *)
SetProviderOnce(c) ==
    /\ pc[c] = "provider"
    /\ Write(c, "provider",
             IF db.provider = None THEN Supported[req[c].patch.model] ELSE db.provider, {})
    /\ Goto(c, "idle")
    /\ reader' = [reader EXCEPT !.settled = FALSE]
    /\ torn' = beside[c]

SetProvider(c) ==
    /\ pc[c] = "provider"
    /\ Write(c, "provider", Supported[req[c].patch.model], {})
    /\ Goto(c, "idle")
    /\ reader' = [reader EXCEPT !.settled = FALSE]
    /\ torn' = beside[c]

(* Mutant: the sanity check overlooks the overrides already stored. *)
CheckRiskAgainstBase(c) ==
    LET merged == Merge(Base.risk, req[c].patch)
    IN  /\ pc[c] = "risk_check"
        /\ Goto(c, IF merged.total < merged.asset THEN "idle" ELSE "risk_read")
        /\ UNCHANGED <<db, levers, refused, req, tmp, lever, push, cycles, history,
                       bounds>>

(* post_risk: the sanity check reads the overrides, the write reads them anew. *)
CheckRisk(c) ==
    LET merged == Merge(EffectiveRisk, req[c].patch)
    IN  /\ pc[c] = "risk_check"
        /\ Goto(c, IF merged.total < merged.asset THEN "idle" ELSE "risk_read")
        /\ UNCHANGED <<db, levers, refused, req, tmp, lever, push, cycles, history,
                       bounds>>

ReadRisk(c) ==
    /\ pc[c] = "risk_read"
    /\ Read(c, db.risk)
    /\ Goto(c, "risk_write")

WriteRisk(c) ==
    /\ pc[c] = "risk_write"
    /\ Write(c, "risk", Merge(tmp[c], req[c].patch), RiskFields)
    /\ Goto(c, "idle")
    /\ UNCHANGED <<reader, torn>>

(* set_tp_overrides and set_sl_overrides: read the row, write it merged. *)
ReadTp(c) ==
    /\ pc[c] = "tp_read"
    /\ Read(c, db.tp)
    /\ Goto(c, "tp_write")

WriteTp(c) ==
    /\ pc[c] = "tp_write"
    /\ Write(c, "tp", Merge(tmp[c], Part(c, TpFields)), TpFields)
    /\ Goto(c, AfterTp(c))
    /\ UNCHANGED <<reader, torn>>

ReadSl(c) ==
    /\ pc[c] = "sl_read"
    /\ Read(c, db.sl)
    /\ Goto(c, "sl_write")

WriteSl(c) ==
    /\ pc[c] = "sl_write"
    /\ Write(c, "sl", Merge(tmp[c], Part(c, SlFields)), SlFields)
    /\ Goto(c, "idle")
    /\ UNCHANGED <<reader, torn>>

(* post_leverage: store, read back what is effective, push asset by asset. *)
SetLeverage(c) ==
    /\ pc[c] = "leverage"
    /\ Write(c, "leverage", req[c].patch.leverage, {})
    /\ Goto(c, IF "cross" \in DOMAIN req[c].patch THEN "cross" ELSE "read_leverage")
    /\ UNCHANGED <<reader, torn>>

SetCross(c) ==
    /\ pc[c] = "cross"
    /\ Write(c, "cross", req[c].patch.cross, {})
    /\ Goto(c, "read_leverage")
    /\ UNCHANGED <<reader, torn>>

ReadLeverage(c) ==
    /\ pc[c] = "read_leverage"
    /\ lever' = [lever EXCEPT ![c].leverage = EffectiveLever.leverage]
    /\ Goto(c, "read_cross")
    /\ UNCHANGED <<db, levers, refused, req, tmp, push, cycles, history, bounds>>

ReadCross(c) ==
    /\ pc[c] = "read_cross"
    /\ lever' = [lever EXCEPT ![c].cross = EffectiveLever.cross]
    /\ push' = [push EXCEPT ![c] = Assets]
    /\ Goto(c, "push")
    /\ UNCHANGED <<db, levers, refused, req, tmp, cycles, history, bounds>>

(* update_leverage for one asset; an error is noted and the next one tried. *)
PushLeverage(c, a) ==
    /\ pc[c] = "push" /\ a \in push[c]
    /\ push' = [push EXCEPT ![c] = @ \ {a}]
    /\ \/ levers' = [levers EXCEPT ![a] = lever[c]] /\ refused' = refused \ {a}
       \/ refused' = refused \cup {a} /\ UNCHANGED levers
    /\ UNCHANGED <<db, pc, req, tmp, lever, cycles, history, bounds>>

(* build_client raises: the overrides are stored, nothing is pushed. *)
ClientUnavailable(c) ==
    /\ pc[c] = "push" /\ push[c] = Assets
    /\ push' = [push EXCEPT ![c] = {}]
    /\ refused' = Assets
    /\ Goto(c, "idle")
    /\ crossed' = beside[c]
    /\ UNCHANGED <<db, levers, req, tmp, lever, cycles, intent, since, vetted, beside,
                   bounds>>

PushDone(c) ==
    /\ pc[c] = "push" /\ push[c] = {}
    /\ Goto(c, "idle")
    /\ crossed' = beside[c]
    /\ UNCHANGED <<db, levers, refused, req, tmp, lever, push, cycles, intent, since,
                   vetted, beside, bounds>>

-------------------------------------------------------------------------------
(* A model switch has stored its model and not yet its provider, or never will, *)
(* or the last two may have stored one row each.                             *)
HalfSwitched == torn \/ \E c \in Clients : pc[c] = "provider"

(* The cycle reads effective_model and then effective_provider (main.py:75). *)
CycleReadsModel ==
    /\ reader.pc = "idle"
    /\ reader' = [pc |-> "provider", model |-> EffectiveModel, settled |-> ~HalfSwitched]
    /\ UNCHANGED <<db, levers, refused, clients, used, torn, history, bounds>>

CycleReadsProvider ==
    /\ reader.pc = "provider"
    /\ reader' = [reader EXCEPT !.pc = "idle", !.settled = FALSE]
    /\ used' = [model |-> reader.model, provider |-> EffectiveProvider,
                settled |-> reader.settled]
    /\ UNCHANGED <<db, levers, refused, clients, torn, history, bounds>>

(* Mutant: startup pushes what config.yaml says. *)
InitializeFromYaml(failed) ==
    /\ levers' = [a \in Assets |-> IF a \in failed THEN levers[a]
                    ELSE [leverage |-> Base.leverage, cross |-> Base.cross]]
    /\ refused' = failed

(* _initialize_exchange: the effective leverage for every asset, or for those *)
(* the exchange accepts it for.                                               *)
InitializeExchange(failed) ==
    /\ levers' = [a \in Assets |-> IF a \in failed THEN levers[a] ELSE EffectiveLever]
    /\ refused' = failed

(* The process dies and starts again: requests are lost where they stand, and *)
(* the exchange is initialised before any new one is served.                  *)
Restart ==
    /\ restarts < MaxRestarts /\ restarts' = restarts + 1
    /\ pc' = [c \in Clients |-> "idle"]
    /\ push' = [c \in Clients |-> {}]
    /\ reader' = [reader EXCEPT !.pc = "idle", !.settled = FALSE]
    /\ torn' = HalfSwitched
    /\ \E failed \in SUBSET Assets : InitializeExchange(failed)
    /\ crossed' = FALSE
    /\ UNCHANGED <<db, req, tmp, lever, used, intent, since, vetted, beside, requests>>

Handler(c) ==
    \/ SetPaused(c) \/ SetModel(c) \/ SetProvider(c)
    \/ CheckRisk(c) \/ ReadRisk(c) \/ WriteRisk(c)
    \/ ReadTp(c) \/ WriteTp(c) \/ ReadSl(c) \/ WriteSl(c)
    \/ SetLeverage(c) \/ SetCross(c) \/ ReadLeverage(c) \/ ReadCross(c)
    \/ \E a \in Assets : PushLeverage(c, a)
    \/ ClientUnavailable(c) \/ PushDone(c)

Next ==
    \/ \E c \in Clients : Handler(c) \/ \E r \in Requests[c] : Post(c, r)
    \/ CycleReadsModel \/ CycleReadsProvider \/ Restart

Spec == Init /\ [][Next]_vars

-------------------------------------------------------------------------------
(* Properties. *)

TypeOK ==
    /\ db.model \in Models \cup {None}
    /\ db.provider \in {Supported[m] : m \in DOMAIN Supported} \cup {None}
    /\ DOMAIN db.risk \subseteq RiskFields
    /\ DOMAIN db.tp \subseteq TpFields /\ DOMAIN db.sl \subseteq SlFields
    /\ \A a \in Assets : levers[a].leverage \in Nat /\ levers[a].cross \in BOOLEAN
    /\ \A c \in Clients : push[c] \subseteq Assets
    /\ EffectiveModel \in DOMAIN Supported
    /\ requests \in 0..MaxRequests /\ restarts \in 0..MaxRestarts

Quiet == \A c \in Clients : pc[c] = "idle"

(* "You can never have model='deepseek/...' with provider='anthropic'"       *)
(* (runtime.py:130): the provider a cycle builds serves the model it asks for, *)
(* unless a switch ran while the cycle read the two rows one after the other,   *)
(* a restart cut the last switch off between its two writes, or the last       *)
(* switch ran beside another one and they wrote the rows in turn.             *)
MatchedPairWhenSettled == used.settled => used.provider = Supported[used.model]

(* "Total cap should not be smaller than per-asset cap" (server.py:618): a    *)
(* cycle that reads the risk limits finds them sane, unless the request that  *)
(* wrote them last was overtaken by another between its check and its write;  *)
(* the next one that is not puts them right.                                 *)
TotalCapCoversAssetCap == vetted => EffectiveRisk.total >= EffectiveRisk.asset

Stored == Merge(Merge(db.tp, db.sl), db.risk)

(* "Only the ones provided are applied" (server.py:62): each field has the    *)
(* value its latest writer asked for, whatever other requests wrote since; a  *)
(* request can only undo a field it does not mention if that field changed    *)
(* after the request was sent.                                               *)
PatchesStick ==
    \A f \in DOMAIN intent : f \in DOMAIN Stored /\ Stored[f] = intent[f]

(* With no request in flight every asset trades at the stored leverage and    *)
(* margin mode, also after a restart in the middle of a request, unless the   *)
(* last push did not get through or the last request ran beside another one.  *)
ExchangeHasStoredLeverage ==
    Quiet /\ ~crossed
        => \A a \in Assets \ refused : levers[a] = EffectiveLever
===============================================================================
