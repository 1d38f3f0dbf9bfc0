------------------------ MODULE RuntimeOverrides_proofs ------------------------
(***************************************************************************)
(* Proofs about RuntimeOverrides, for any number of clients, any assets, any  *)
(* models and any bodies the handlers admit, with requests that overlap and   *)
(* restarts at any point.                                                    *)
(***************************************************************************)
EXTENDS RuntimeOverrides, TLAPS

Keys == {"paused", "model", "provider", "risk", "tp", "sl", "leverage", "cross"}

RiskPatches == UNION {[fields -> Nat] : fields \in SUBSET RiskFields}

Levers == [leverage : Nat, cross : BOOLEAN]

Rows ==
    /\ DOMAIN db = Keys
    /\ db.model \in Models \cup {None}
    /\ db.provider \in {Supported[m] : m \in DOMAIN Supported} \cup {None}
    /\ db.risk \in RiskPatches
    /\ DOMAIN db.tp \subseteq TpFields /\ DOMAIN db.sl \subseteq SlFields
    /\ db.leverage \in Nat \cup {None} /\ db.cross \in BOOLEAN \cup {None}

Steps == {"idle", "pause", "model", "provider", "risk_check", "risk_read", "risk_write",
          "tp_read", "tp_write", "sl_read", "sl_write",
          "leverage", "cross", "read_leverage", "read_cross", "push"}

(* At each step a handler serves a body of its kind.                          *)
Serves(c) ==
    /\ pc[c] # "idle" => req[c] \in Requests[c]
    /\ pc[c] \in {"model", "provider"}
         => req[c].kind = "model" /\ req[c].patch.model \in DOMAIN Supported
    /\ pc[c] \in {"risk_check", "risk_read", "risk_write"}
         => req[c].kind = "risk" /\ req[c].patch \in RiskPatches
    /\ pc[c] = "risk_write" => tmp[c] \in RiskPatches
    /\ pc[c] = "tp_write" => DOMAIN tmp[c] \subseteq TpFields
    /\ pc[c] = "sl_write" => DOMAIN tmp[c] \subseteq SlFields
    /\ pc[c] = "leverage" => req[c].kind = "leverage" /\ req[c].patch.leverage \in Nat
    /\ pc[c] \in {"leverage", "cross"} /\ "cross" \in DOMAIN req[c].patch
         => req[c].kind = "leverage" /\ req[c].patch.cross \in BOOLEAN
    /\ pc[c] = "cross" => "cross" \in DOMAIN req[c].patch

Handlers ==
    /\ pc \in [Clients -> Steps]
    /\ DOMAIN req = Clients /\ DOMAIN tmp = Clients
    /\ lever \in [Clients -> Levers] /\ levers \in [Assets -> Levers]
    /\ push \in [Clients -> SUBSET Assets]
    /\ requests \in 0..MaxRequests /\ restarts \in 0..MaxRestarts
    /\ \A c \in Clients : Serves(c)

Types == Rows /\ Handlers

-------------------------------------------------------------------------------
LEMMA EffectiveTypes ==
    ASSUME Rows
    PROVE  /\ EffectiveLever \in Levers
           /\ EffectiveModel \in DOMAIN Supported
           /\ ModelOverride # None => ModelOverride = db.model
BY OverridesAssumption DEF Rows, EffectiveLever, EffectiveModel, ModelOverride, Levers

(* Merging patches of the risk limits. *)
LEMMA MergeTypes ==
    /\ \A a, b \in RiskPatches : Merge(a, b) \in RiskPatches
    /\ \A F : \A a, b : DOMAIN a \subseteq F /\ DOMAIN b \subseteq F => DOMAIN Merge(a, b) \subseteq F
<1>1. ASSUME NEW a \in RiskPatches, NEW b \in RiskPatches
      PROVE  Merge(a, b) \in RiskPatches
  <2>1. PICK A \in SUBSET RiskFields : a \in [A -> Nat]
    BY DEF RiskPatches
  <2>2. PICK B \in SUBSET RiskFields : b \in [B -> Nat]
    BY DEF RiskPatches
  <2>3. Merge(a, b) \in [A \cup B -> Nat] /\ A \cup B \in SUBSET RiskFields
    BY <2>1, <2>2 DEF Merge
  <2>4. QED
    BY <2>3 DEF RiskPatches
<1>2. QED
  BY <1>1 DEF Merge

LEMMA Written ==
    ASSUME DOMAIN db = Keys, NEW key \in Keys, NEW v, db' = [db EXCEPT ![key] = v]
    PROVE  DOMAIN db' = Keys /\ db'[key] = v /\ \A k \in Keys \ {key} : db'[k] = db[k]
OBVIOUS

LEMMA TypesInit == Init => Types
<1> SUFFICES ASSUME Init PROVE Types
  OBVIOUS
<1>1. Rows
  <2>1. NoPatch \in RiskPatches /\ DOMAIN NoPatch = {}
    BY DEF NoPatch, RiskPatches
  <2>2. QED
    BY <2>1 DEF Init, Rows, Keys
<1>2. EffectiveLever \in Levers
  BY <1>1, EffectiveTypes
<1>3. Handlers
  BY <1>2, OverridesAssumption DEF Init, Handlers, Serves, Steps, Levers
<1>4. QED
  BY <1>1, <1>3 DEF Types

(* One client's step leaves the others where they are.                        *)
LEMMA OneMoves ==
    ASSUME Handlers, NEW c \in Clients, NEW step \in Steps, Goto(c, step),
           req' = req \/ \E r : req' = [req EXCEPT ![c] = r],
           tmp' = tmp \/ \E r : tmp' = [tmp EXCEPT ![c] = r],
           Serves(c)'
    PROVE  /\ pc' \in [Clients -> Steps] /\ pc'[c] = step
           /\ \A d \in Clients : Serves(d)'
           /\ DOMAIN req' = Clients /\ DOMAIN tmp' = Clients
<1>1. pc' = [pc EXCEPT ![c] = step] /\ pc \in [Clients -> Steps]
  BY DEF Goto, Handlers
<1>2. DOMAIN req = Clients /\ DOMAIN tmp = Clients
  BY DEF Handlers
<1>3. \A d \in Clients \ {c} : pc'[d] = pc[d] /\ req'[d] = req[d] /\ tmp'[d] = tmp[d]
  BY <1>1, <1>2
<1>4. \A d \in Clients \ {c} : Serves(d)'
  BY <1>3 DEF Handlers, Serves
<1>5. QED
  BY <1>1, <1>2, <1>4

(* The first step of a handler suits the body. *)
LEMMA FirstStepSuits ==
    ASSUME NEW r, Body(r)
    PROVE  /\ FirstStep(r) \in {"idle", "pause", "model", "risk_check", "tp_read", "sl_read",
                                "leverage", "cross"}
           /\ FirstStep(r) = "model" => r.kind = "model" /\ r.patch.model \in DOMAIN Supported
           /\ FirstStep(r) = "risk_check" => r.kind = "risk" /\ r.patch \in RiskPatches
           /\ FirstStep(r) \in {"leverage", "cross"} =>
                 /\ r.kind = "leverage"
                 /\ "cross" \in DOMAIN r.patch => r.patch.cross \in BOOLEAN
           /\ FirstStep(r) = "leverage" => r.patch.leverage \in Nat
           /\ FirstStep(r) = "cross" => "cross" \in DOMAIN r.patch
<1>1. CASE r.kind = "pause"
  BY <1>1 DEF FirstStep
<1>2. CASE r.kind = "model"
  BY <1>2 DEF FirstStep
<1>3. CASE r.kind = "risk"
  <2>1. r.patch \in RiskPatches
    BY <1>3 DEF Body, RiskPatches
  <2>2. QED
    BY <1>3, <2>1 DEF FirstStep
<1>4. CASE r.kind = "monitor"
  BY <1>4 DEF FirstStep
<1>5. CASE r.kind = "leverage"
  BY <1>5 DEF FirstStep, Body
<1>6. QED
  BY <1>1, <1>2, <1>3, <1>4, <1>5 DEF Body

LEMMA PostType ==
    ASSUME Types, NEW c \in Clients, NEW r \in Requests[c], Post(c, r)
    PROVE  Types'
<1>1. Body(r)
  BY OverridesAssumption
<1>2. Rows'
  BY DEF Types, Rows, Post
<1>3. req'[c] = r /\ pc'[c] = FirstStep(r) /\ FirstStep(r) \in Steps
  BY <1>1, FirstStepSuits DEF Types, Handlers, Post, Goto, Steps
<1>4. Serves(c)'
  BY <1>1, <1>3, FirstStepSuits DEF Serves
<1>5. /\ pc' \in [Clients -> Steps] /\ \A d \in Clients : Serves(d)'
      /\ DOMAIN req' = Clients /\ DOMAIN tmp' = Clients
  <2>1. Handlers /\ Goto(c, FirstStep(r)) /\ req' = [req EXCEPT ![c] = r] /\ tmp' = tmp
    BY DEF Types, Post
  <2>2. QED
    BY <1>3, <1>4, <2>1, OneMoves
<1>6. requests' \in 0..MaxRequests
  BY OverridesAssumption DEF Types, Handlers, Post
<1>7. Handlers'
  BY <1>5, <1>6 DEF Types, Handlers, Post
<1>8. QED
  BY <1>2, <1>7 DEF Types

(* A step of a handler that sends nothing to the exchange.                    *)
LEMMA HandlerType ==
    ASSUME Types, Rows', NEW c \in Clients, NEW step \in Steps, Goto(c, step),
           UNCHANGED <<levers, req, bounds>>,
           lever' \in [Clients -> Levers], push' \in [Clients -> SUBSET Assets],
           tmp' = tmp \/ \E r : tmp' = [tmp EXCEPT ![c] = r],
           Serves(c)'
    PROVE  Types'
<1>1. /\ pc' \in [Clients -> Steps] /\ \A d \in Clients : Serves(d)'
      /\ DOMAIN req' = Clients /\ DOMAIN tmp' = Clients
  <2>1. Handlers /\ req' = req
    BY DEF Types
  <2>2. QED
    BY <2>1, OneMoves
<1>2. Handlers'
  BY <1>1 DEF Types, Handlers, bounds
<1>3. QED
  BY <1>2 DEF Types

(* The fields of a side of the monitor. *)
LEMMA PartDomain == \A c, F : DOMAIN Part(c, F) \subseteq F
BY DEF Part

LEMMA RowWriters ==
    ASSUME Types, NEW c \in Clients,
           \/ SetPaused(c) \/ SetModel(c) \/ SetProvider(c) \/ WriteRisk(c)
           \/ WriteTp(c) \/ WriteSl(c) \/ SetLeverage(c) \/ SetCross(c)
    PROVE  Types'
<1> USE DEF Types, Write
<1>0. Rows /\ Serves(c) /\ DOMAIN db = Keys
  BY DEF Handlers, Rows
<1>1. CASE SetPaused(c)
  <2>1. Rows'
    BY <1>0, <1>1, Written DEF SetPaused, Rows, Keys
  <2>2. Serves(c)' /\ "idle" \in Steps
    BY <1>1 DEF SetPaused, Serves, Goto, Handlers, Steps
  <2>3. QED
    BY <1>1, <2>1, <2>2, HandlerType DEF SetPaused, Handlers
<1>2. CASE SetModel(c)
  <2>1. req[c].patch.model \in Models
    BY <1>0, <1>2, OverridesAssumption DEF SetModel, Serves
  <2>2. Rows'
    BY <1>0, <1>2, <2>1, Written DEF SetModel, Rows, Keys
  <2>3. Serves(c)' /\ "provider" \in Steps
    BY <1>0, <1>2 DEF SetModel, Serves, Goto, Handlers, Steps
  <2>4. QED
    BY <1>2, <2>2, <2>3, HandlerType DEF SetModel, Handlers
<1>3. CASE SetProvider(c)
  <2>1. req[c].patch.model \in DOMAIN Supported
    BY <1>0, <1>3 DEF SetProvider, Serves
  <2>2. Rows'
    BY <1>0, <1>3, <2>1, Written DEF SetProvider, Rows, Keys
  <2>3. Serves(c)' /\ "idle" \in Steps
    BY <1>3 DEF SetProvider, Serves, Goto, Handlers, Steps
  <2>4. QED
    BY <1>3, <2>2, <2>3, HandlerType DEF SetProvider, Handlers
<1>4. CASE WriteRisk(c)
  <2>1. Merge(tmp[c], req[c].patch) \in RiskPatches
    BY <1>0, <1>4, MergeTypes DEF WriteRisk, Serves
  <2>2. Rows'
    BY <1>0, <1>4, <2>1, Written DEF WriteRisk, Rows, Keys
  <2>3. Serves(c)' /\ "idle" \in Steps
    BY <1>4 DEF WriteRisk, Serves, Goto, Handlers, Steps
  <2>4. QED
    BY <1>4, <2>2, <2>3, HandlerType DEF WriteRisk, Handlers
<1>5. CASE WriteTp(c)
  <2>1. DOMAIN Merge(tmp[c], Part(c, TpFields)) \subseteq TpFields
    BY <1>0, <1>5, MergeTypes, PartDomain DEF WriteTp, Serves
  <2>2. Rows'
    BY <1>0, <1>5, <2>1, Written DEF WriteTp, Rows, Keys
  <2>3. AfterTp(c) \in {"sl_read", "idle"} /\ AfterTp(c) \in Steps
    BY DEF AfterTp, Steps
  <2>4. pc'[c] = AfterTp(c)
    BY <1>5 DEF WriteTp, Goto, Handlers
  <2>5. Serves(c)'
    BY <1>0, <1>5, <2>3, <2>4 DEF WriteTp, Serves
  <2>6. QED
    BY <1>5, <2>2, <2>3, <2>5, HandlerType DEF WriteTp, Handlers
<1>6. CASE WriteSl(c)
  <2>1. DOMAIN Merge(tmp[c], Part(c, SlFields)) \subseteq SlFields
    BY <1>0, <1>6, MergeTypes, PartDomain DEF WriteSl, Serves
  <2>2. Rows'
    BY <1>0, <1>6, <2>1, Written DEF WriteSl, Rows, Keys
  <2>3. Serves(c)' /\ "idle" \in Steps
    BY <1>6 DEF WriteSl, Serves, Goto, Handlers, Steps
  <2>4. QED
    BY <1>6, <2>2, <2>3, HandlerType DEF WriteSl, Handlers
<1>7. CASE SetLeverage(c)
  <2>1. req[c].patch.leverage \in Nat
    BY <1>0, <1>7 DEF SetLeverage, Serves
  <2>2. Rows'
    BY <1>0, <1>7, <2>1, Written DEF SetLeverage, Rows, Keys
  <2> DEFINE step == IF "cross" \in DOMAIN req[c].patch THEN "cross" ELSE "read_leverage"
  <2>3. step \in Steps /\ pc'[c] = step
    BY <1>7 DEF SetLeverage, Goto, Handlers, Steps
  <2>4. Serves(c)'
    BY <1>0, <1>7, <2>3 DEF SetLeverage, Serves
  <2>5. QED
    BY <1>7, <2>2, <2>3, <2>4, HandlerType DEF SetLeverage, Handlers
<1>8. CASE SetCross(c)
  <2>1. req[c].patch.cross \in BOOLEAN
    BY <1>0, <1>8 DEF SetCross, Serves
  <2>2. Rows'
    BY <1>0, <1>8, <2>1, Written DEF SetCross, Rows, Keys
  <2>3. Serves(c)' /\ "read_leverage" \in Steps
    BY <1>8 DEF SetCross, Serves, Goto, Handlers, Steps
  <2>4. QED
    BY <1>8, <2>2, <2>3, HandlerType DEF SetCross, Handlers
<1>9. QED
  BY <1>1, <1>2, <1>3, <1>4, <1>5, <1>6, <1>7, <1>8

LEMMA RowReaders ==
    ASSUME Types, NEW c \in Clients,
           CheckRisk(c) \/ ReadRisk(c) \/ ReadTp(c) \/ ReadSl(c)
    PROVE  Types'
<1> USE DEF Types, Read
<1>0. Rows /\ Serves(c) /\ pc \in [Clients -> Steps] /\ DOMAIN tmp = Clients
  BY DEF Handlers
<1>1. CASE CheckRisk(c)
  <2> DEFINE merged == Merge(EffectiveRisk, req[c].patch)
             step   == IF merged.total < merged.asset THEN "idle" ELSE "risk_read"
  <2>1. Goto(c, step) /\ step \in Steps /\ step \in {"idle", "risk_read"}
    BY <1>1 DEF CheckRisk, Steps
  <2> HIDE DEF step
  <2>2. pc'[c] = step
    BY <1>0, <2>1 DEF Goto
  <2>3. Serves(c)'
    BY <1>0, <1>1, <2>1, <2>2 DEF CheckRisk, Serves
  <2>4. Rows'
    BY <1>1 DEF CheckRisk, Rows
  <2>5. QED
    BY <1>1, <2>1, <2>3, <2>4, HandlerType DEF CheckRisk, Handlers
<1>2. CASE ReadRisk(c)
  <2>1. tmp'[c] = db.risk /\ pc'[c] = "risk_write"
    BY <1>0, <1>2 DEF ReadRisk, Goto
  <2>2. Serves(c)' /\ Rows' /\ "risk_write" \in Steps
    BY <1>0, <1>2, <2>1 DEF ReadRisk, Serves, Rows, Steps
  <2>3. QED
    BY <1>2, <2>2, HandlerType DEF ReadRisk, Handlers
<1>3. CASE ReadTp(c)
  <2>1. tmp'[c] = db.tp /\ pc'[c] = "tp_write"
    BY <1>0, <1>3 DEF ReadTp, Goto
  <2>2. Serves(c)' /\ Rows' /\ "tp_write" \in Steps
    BY <1>0, <1>3, <2>1 DEF ReadTp, Serves, Rows, Steps
  <2>3. QED
    BY <1>3, <2>2, HandlerType DEF ReadTp, Handlers
<1>4. CASE ReadSl(c)
  <2>1. tmp'[c] = db.sl /\ pc'[c] = "sl_write"
    BY <1>0, <1>4 DEF ReadSl, Goto
  <2>2. Serves(c)' /\ Rows' /\ "sl_write" \in Steps
    BY <1>0, <1>4, <2>1 DEF ReadSl, Serves, Rows, Steps
  <2>3. QED
    BY <1>4, <2>2, HandlerType DEF ReadSl, Handlers
<1>5. QED
  BY <1>1, <1>2, <1>3, <1>4

LEMMA Pushers ==
    ASSUME Types, NEW c \in Clients,
           \/ ReadLeverage(c) \/ ReadCross(c) \/ (\E a \in Assets : PushLeverage(c, a))
           \/ ClientUnavailable(c) \/ PushDone(c)
    PROVE  Types'
<1> USE DEF Types
<1>0. /\ Rows /\ Handlers /\ Serves(c) /\ EffectiveLever \in Levers /\ pc \in [Clients -> Steps]
      /\ lever \in [Clients -> Levers] /\ push \in [Clients -> SUBSET Assets]
  BY EffectiveTypes DEF Handlers
<1>1. Rows'
  BY DEF Rows, ReadLeverage, ReadCross, PushLeverage, ClientUnavailable, PushDone
<1>2. CASE ReadLeverage(c)
  <2>1. lever' \in [Clients -> Levers]
    BY <1>0, <1>2 DEF ReadLeverage, Levers
  <2>2. Serves(c)' /\ "read_cross" \in Steps
    BY <1>0, <1>2 DEF ReadLeverage, Serves, Goto, Steps
  <2>3. QED
    BY <1>1, <1>2, <2>1, <2>2, HandlerType DEF ReadLeverage, Handlers
<1>3. CASE ReadCross(c)
  <2>1. lever' \in [Clients -> Levers] /\ push' \in [Clients -> SUBSET Assets]
    BY <1>0, <1>3 DEF ReadCross, Levers
  <2>2. Serves(c)' /\ "push" \in Steps
    BY <1>0, <1>3 DEF ReadCross, Serves, Goto, Steps
  <2>3. QED
    BY <1>1, <1>3, <2>1, <2>2, HandlerType DEF ReadCross, Handlers
<1>4. ASSUME NEW a \in Assets, PushLeverage(c, a) PROVE Types'
  <2>1. levers' \in [Assets -> Levers] /\ push' \in [Clients -> SUBSET Assets]
    BY <1>0, <1>4 DEF PushLeverage, Handlers
  <2>2. \A d \in Clients : Serves(d)'
    BY <1>0, <1>4 DEF PushLeverage, Handlers, Serves
  <2>3. Handlers'
    BY <1>0, <1>4, <2>1, <2>2 DEF PushLeverage, Handlers, bounds
  <2>4. QED
    BY <1>1, <2>3, <1>4 DEF PushLeverage
<1>5. CASE ClientUnavailable(c)
  <2>1. push' \in [Clients -> SUBSET Assets]
    BY <1>0, <1>5 DEF ClientUnavailable
  <2>2. Serves(c)' /\ "idle" \in Steps
    BY <1>0, <1>5 DEF ClientUnavailable, Serves, Goto, Steps
  <2>3. QED
    BY <1>1, <1>5, <2>1, <2>2, HandlerType DEF ClientUnavailable, Handlers
<1>6. CASE PushDone(c)
  <2>1. Serves(c)' /\ "idle" \in Steps
    BY <1>0, <1>6 DEF PushDone, Serves, Goto, Steps
  <2>2. QED
    BY <1>1, <1>6, <2>1, HandlerType DEF PushDone, Handlers
<1>7. QED
  BY <1>2, <1>3, <1>4, <1>5, <1>6

LEMMA RestartType == Types /\ Restart => Types'
<1> SUFFICES ASSUME Types, Restart PROVE Types'
  OBVIOUS
<1>1. Rows' /\ EffectiveLever \in Levers
  BY EffectiveTypes DEF Types, Rows, Restart
<1>2. levers' \in [Assets -> Levers]
  <2>1. PICK failed \in SUBSET Assets : InitializeExchange(failed)
    BY DEF Restart
  <2>2. QED
    BY <1>1, <2>1 DEF InitializeExchange, Types, Handlers
<1>3. pc' \in [Clients -> Steps] /\ \A c \in Clients : Serves(c)'
  BY DEF Restart, Serves, Steps
<1>4. push' \in [Clients -> SUBSET Assets] /\ restarts' \in 0..MaxRestarts
  BY OverridesAssumption DEF Restart, Types, Handlers
<1>5. Handlers'
  BY <1>2, <1>3, <1>4 DEF Restart, Types, Handlers
<1>6. QED
  BY <1>1, <1>5 DEF Types

LEMMA TypesStutter ==
    ASSUME Types, UNCHANGED <<db, levers, clients, bounds>>
    PROVE  Types'
BY DEF Types, Rows, Handlers, Serves, clients, bounds

THEOREM TypesCorrect == Spec => []Types
<1>1. Types /\ [Next]_vars => Types'
  <2> SUFFICES ASSUME Types, [Next]_vars PROVE Types'
    OBVIOUS
  <2>1. ASSUME NEW c \in Clients, Handler(c) PROVE Types'
    BY <2>1, RowWriters, RowReaders, Pushers DEF Handler
  <2>2. ASSUME NEW c \in Clients, NEW r \in Requests[c], Post(c, r) PROVE Types'
    BY <2>2, PostType
  <2>3. CASE CycleReadsModel \/ CycleReadsProvider \/ UNCHANGED vars
    BY <2>3, TypesStutter DEF CycleReadsModel, CycleReadsProvider, vars
  <2>4. QED
    BY <2>1, <2>2, <2>3, RestartType DEF Next
<1>2. QED
  BY <1>1, TypesInit, PTL DEF Spec

(* TypeOK: the rows hold what the handlers admit, so a cycle always finds a    *)
(* model it can call.                                                        *)
THEOREM OverridesTyped == Spec => []TypeOK
<1>1. Types => TypeOK
  <2> SUFFICES ASSUME Types PROVE TypeOK
    OBVIOUS
  <2>1. EffectiveModel \in DOMAIN Supported
    BY EffectiveTypes DEF Types
  <2>2. DOMAIN db.risk \subseteq RiskFields
    BY DEF Types, Rows, RiskPatches
  <2>3. QED
    BY <2>1, <2>2 DEF Types, Rows, Handlers, Levers, TypeOK
<1>2. QED
  BY <1>1, TypesCorrect, PTL

-------------------------------------------------------------------------------
(* Requests that overlap.  While two requests of one kind are in flight, each  *)
(* of them knows that another ran beside it.                                  *)
Beside ==
    /\ beside \in [Clients -> BOOLEAN]
    /\ \A c, d \in Clients :
          c # d /\ pc[c] # "idle" /\ pc[d] # "idle" /\ req[c].kind = req[d].kind
            => beside[c]

(* A handler's step moves its own request only.                               *)
LEMMA HandlerFrame ==
    ASSUME Types, NEW c \in Clients, Handler(c)
    PROVE  /\ pc[c] # "idle" /\ UNCHANGED <<req, beside>>
           /\ \A d \in Clients \ {c} : pc'[d] = pc[d]
<1> USE DEF Types, Handlers, Goto, history
<1>1. CASE \/ SetPaused(c) \/ SetModel(c) \/ SetProvider(c) \/ WriteRisk(c)
           \/ WriteTp(c) \/ WriteSl(c) \/ SetLeverage(c) \/ SetCross(c)
  BY <1>1 DEF SetPaused, SetModel, SetProvider, WriteRisk, WriteTp, WriteSl, SetLeverage,
     SetCross, Write
<1>2. CASE CheckRisk(c) \/ ReadRisk(c) \/ ReadTp(c) \/ ReadSl(c)
  BY <1>2 DEF CheckRisk, ReadRisk, ReadTp, ReadSl, Read
<1>3. CASE \/ ReadLeverage(c) \/ ReadCross(c) \/ (\E a \in Assets : PushLeverage(c, a))
           \/ ClientUnavailable(c) \/ PushDone(c)
  BY <1>3 DEF ReadLeverage, ReadCross, PushLeverage, ClientUnavailable, PushDone
<1>4. QED
  BY <1>1, <1>2, <1>3 DEF Handler

LEMMA BesideHandler ==
    ASSUME Types, Beside, NEW c \in Clients, Handler(c)
    PROVE  Beside'
BY HandlerFrame DEF Beside

LEMMA BesidePost ==
    ASSUME Types, Beside, NEW c \in Clients, NEW r \in Requests[c], Post(c, r)
    PROVE  Beside'
<1> DEFINE others == {d \in Clients \ {c} : pc[d] # "idle" /\ req[d].kind = r.kind}
<1>1. beside' = [d \in Clients |-> IF d = c THEN others # {} ELSE beside[d] \/ d \in others]
  BY DEF Post, Begins
<1>2. /\ req'[c] = r /\ \A d \in Clients \ {c} : pc'[d] = pc[d] /\ req'[d] = req[d]
  BY DEF Post, Goto, Types, Handlers
<1>3. beside' \in [Clients -> BOOLEAN]
  BY <1>1 DEF Beside
<1>4. ASSUME NEW d \in Clients, NEW e \in Clients, d # e, pc'[d] # "idle", pc'[e] # "idle",
             req'[d].kind = req'[e].kind
      PROVE  beside'[d]
  <2>1. CASE d = c
    <3>1. e \in others
      BY <1>2, <1>4, <2>1
    <3>2. QED
      BY <1>1, <2>1, <3>1
  <2>2. CASE e = c
    <3>1. d \in others
      BY <1>2, <1>4, <2>2
    <3>2. QED
      BY <1>1, <1>4, <2>2, <3>1
  <2>3. CASE d # c /\ e # c
    <3>1. beside[d]
      BY <1>2, <1>4, <2>3 DEF Beside
    <3>2. QED
      BY <1>1, <2>3, <3>1
  <2>4. QED
    BY <2>1, <2>2, <2>3
<1>5. QED
  BY <1>3, <1>4 DEF Beside

THEOREM OverlapsSeen == Spec => []Beside
<1>1. Init => Beside
  BY DEF Init, Beside
<1>2. Types /\ Beside /\ [Next]_vars => Beside'
  <2> SUFFICES ASSUME Types, Beside, [Next]_vars PROVE Beside'
    OBVIOUS
  <2>1. CASE CycleReadsModel \/ CycleReadsProvider \/ UNCHANGED vars
    BY <2>1 DEF CycleReadsModel, CycleReadsProvider, vars, clients, history, Beside
  <2>2. CASE Restart
    BY <2>2 DEF Restart, Beside
  <2>3. QED
    BY <2>1, <2>2, BesideHandler, BesidePost DEF Next
<1>3. QED
  BY <1>1, <1>2, TypesCorrect, PTL DEF Spec

-------------------------------------------------------------------------------
(* The model and its provider.  Unless a switch is between its two writes, was  *)
(* cut off there or ran beside another one, the two rows match; a cycle that    *)
(* began to read then is settled until the next switch begins.                *)
Matched == EffectiveProvider = Supported[EffectiveModel]

SwitchInv ==
    /\ reader = [pc |-> reader.pc, model |-> reader.model, settled |-> reader.settled]
    /\ ~HalfSwitched => Matched
    /\ \A c \in Clients : pc[c] = "provider" /\ ~beside[c] => db.model = req[c].patch.model
    /\ reader.pc = "provider" /\ reader.settled
         => ~HalfSwitched /\ EffectiveModel = reader.model

PairInv == SwitchInv /\ MatchedPairWhenSettled

(* Two switches under way know of each other.                                 *)
LEMMA SwitchesKnow ==
    ASSUME Beside, Types, NEW c \in Clients, NEW d \in Clients, c # d,
           pc[c] \in {"model", "provider"}, pc[d] \in {"model", "provider"}
    PROVE  beside[c]
BY DEF Beside, Types, Handlers, Serves

(* A step of which the two rows, the cycle and the switches see nothing.      *)
LEMMA SwitchKept ==
    ASSUME PairInv, Types, db'.model = db.model, db'.provider = db.provider,
           UNCHANGED cycles,
           \A c \in Clients : /\ pc'[c] = "provider" <=> pc[c] = "provider"
                              /\ pc[c] = "provider" =>
                                    req'[c] = req[c] /\ (beside[c] => beside'[c])
    PROVE  PairInv'
<1>1. ModelOverride' = ModelOverride /\ EffectiveModel' = EffectiveModel
      /\ EffectiveProvider' = EffectiveProvider
  BY DEF ModelOverride, EffectiveModel, EffectiveProvider
<1>2. HalfSwitched' <=> HalfSwitched
  BY DEF HalfSwitched, cycles
<1>3. Matched' <=> Matched
  BY <1>1 DEF Matched
<1>4. SwitchInv'
  BY <1>1, <1>2, <1>3 DEF PairInv, SwitchInv, cycles
<1>5. MatchedPairWhenSettled'
  BY DEF PairInv, MatchedPairWhenSettled, cycles
<1>6. QED
  BY <1>4, <1>5 DEF PairInv

LEMMA SwitchInit == Init => PairInv
<1> SUFFICES ASSUME Init PROVE PairInv
  OBVIOUS
<1>1. db.model \notin DOMAIN Supported /\ db.provider = None
  BY OverridesAssumption DEF Init
<1>2. ModelOverride = None
  BY <1>1 DEF ModelOverride
<1>3. EffectiveModel = Base.model /\ EffectiveProvider = Base.provider
  BY <1>1, <1>2 DEF EffectiveModel, EffectiveProvider
<1>4. QED
  BY <1>3, OverridesAssumption
     DEF Init, PairInv, SwitchInv, Matched, MatchedPairWhenSettled

LEMMA SetModelStep ==
    ASSUME Beside, Types, PairInv, NEW c \in Clients, SetModel(c)
    PROVE  PairInv'
<1>1. /\ db'.model = req[c].patch.model /\ UNCHANGED <<req, beside>> /\ pc'[c] = "provider"
      /\ \A d \in Clients \ {c} : pc'[d] = pc[d]
  BY Written DEF SetModel, Write, Goto, Types, Rows, Handlers, Keys
<1>2. \A d \in Clients : pc'[d] = "provider" /\ ~beside'[d] => d = c
  BY <1>1, SwitchesKnow DEF SetModel
<1>3. HalfSwitched'
  BY <1>1 DEF HalfSwitched
<1>4. ~reader.settled' /\ reader' = [reader EXCEPT !.settled = FALSE]
  BY DEF SetModel, PairInv, SwitchInv
<1>5. reader' = [pc |-> reader'.pc, model |-> reader'.model, settled |-> reader'.settled]
  BY <1>4 DEF PairInv, SwitchInv
<1>6. SwitchInv'
  BY <1>1, <1>2, <1>3, <1>4, <1>5 DEF SwitchInv
<1>7. MatchedPairWhenSettled'
  BY DEF SetModel, Write, PairInv, MatchedPairWhenSettled
<1>8. QED
  BY <1>6, <1>7 DEF PairInv

LEMMA SetProviderStep ==
    ASSUME Beside, Types, PairInv, NEW c \in Clients, SetProvider(c)
    PROVE  PairInv'
<1> DEFINE m == req[c].patch.model
<1>1. /\ db'.provider = Supported[m] /\ db'.model = db.model /\ UNCHANGED <<req, beside>>
      /\ pc'[c] = "idle" /\ \A d \in Clients \ {c} : pc'[d] = pc[d]
  BY Written DEF SetProvider, Write, Goto, Types, Rows, Handlers, Keys
<1>2. m \in DOMAIN Supported /\ (~beside[c] => db.model = m)
  BY DEF SetProvider, Types, Handlers, Serves, PairInv, SwitchInv
<1>3. \A d \in Clients : pc'[d] = "provider" => beside'[d]
  BY <1>1, SwitchesKnow DEF SetProvider
<1>4. m # None /\ Supported[m] # None
  BY <1>2, OverridesAssumption
<1>5. ~HalfSwitched' => Matched'
  <2>1. CASE beside[c]
    BY <2>1 DEF HalfSwitched, SetProvider
  <2>2. CASE ~beside[c]
    <3>1. EffectiveModel' = m /\ EffectiveProvider' = Supported[m]
      BY <1>1, <1>2, <1>4, <2>2 DEF ModelOverride, EffectiveModel, EffectiveProvider
    <3>2. QED
      BY <3>1 DEF Matched
  <2>3. QED
    BY <2>1, <2>2
<1>6. ~reader.settled' /\ reader' = [reader EXCEPT !.settled = FALSE]
  BY DEF SetProvider, PairInv, SwitchInv
<1>7. reader' = [pc |-> reader'.pc, model |-> reader'.model, settled |-> reader'.settled]
  BY <1>6 DEF PairInv, SwitchInv
<1>8. SwitchInv'
  BY <1>3, <1>5, <1>6, <1>7 DEF SwitchInv
<1>9. MatchedPairWhenSettled'
  BY DEF SetProvider, Write, PairInv, MatchedPairWhenSettled
<1>10. QED
  BY <1>8, <1>9 DEF PairInv

(* The steps of the cycle that reads the two rows.                            *)
LEMMA CycleReads ==
    ASSUME Types, PairInv, CycleReadsModel \/ CycleReadsProvider
    PROVE  PairInv'
<1> USE DEF clients, history
<1>1. /\ EffectiveModel' = EffectiveModel /\ EffectiveProvider' = EffectiveProvider
      /\ HalfSwitched' <=> HalfSwitched
  BY DEF CycleReadsModel, CycleReadsProvider, ModelOverride, EffectiveModel,
         EffectiveProvider, HalfSwitched
<1>2. Matched' <=> Matched
  BY <1>1 DEF Matched
<1>3. CASE CycleReadsModel
  <2>1. SwitchInv'
    BY <1>1, <1>2, <1>3 DEF CycleReadsModel, PairInv, SwitchInv
  <2>2. MatchedPairWhenSettled'
    BY <1>3 DEF CycleReadsModel, PairInv, MatchedPairWhenSettled
  <2>3. QED
    BY <2>1, <2>2 DEF PairInv
<1>4. CASE CycleReadsProvider
  <2>1. ~reader.settled'
    BY <1>4 DEF CycleReadsProvider, PairInv, SwitchInv
  <2>2. reader' = [pc |-> reader'.pc, model |-> reader'.model, settled |-> reader'.settled]
    BY <1>4 DEF CycleReadsProvider, PairInv, SwitchInv
  <2>3. SwitchInv'
    BY <1>1, <1>2, <1>4, <2>1, <2>2 DEF CycleReadsProvider, PairInv, SwitchInv
  <2>4. used.settled' => used.provider' = Supported[used.model']
    BY <1>4 DEF CycleReadsProvider, PairInv, SwitchInv, Matched
  <2>5. QED
    BY <2>3, <2>4 DEF PairInv, MatchedPairWhenSettled
<1>5. QED
  BY <1>3, <1>4

LEMMA SwitchRestart == PairInv /\ Restart => PairInv'
<1> SUFFICES ASSUME PairInv, Restart PROVE PairInv'
  OBVIOUS
<1>1. EffectiveModel' = EffectiveModel /\ EffectiveProvider' = EffectiveProvider
  BY DEF Restart, ModelOverride, EffectiveModel, EffectiveProvider
<1>2. (HalfSwitched' <=> HalfSwitched) /\ beside' = beside
      /\ \A c \in Clients : pc'[c] # "provider"
  BY DEF Restart, HalfSwitched
<1>3. ~reader.settled'
      /\ reader' = [pc |-> reader'.pc, model |-> reader'.model, settled |-> reader'.settled]
  BY DEF Restart, PairInv, SwitchInv
<1>4. SwitchInv'
  BY <1>1, <1>2, <1>3 DEF PairInv, SwitchInv, Matched
<1>5. MatchedPairWhenSettled'
  BY DEF Restart, PairInv, MatchedPairWhenSettled
<1>6. QED
  BY <1>4, <1>5 DEF PairInv

(* The handlers of the other forms.                                          *)
LEMMA OtherHandlers ==
    ASSUME Types, PairInv, NEW c \in Clients,
           \/ SetPaused(c) \/ CheckRisk(c) \/ ReadRisk(c) \/ WriteRisk(c)
           \/ ReadTp(c) \/ WriteTp(c) \/ ReadSl(c) \/ WriteSl(c)
           \/ SetLeverage(c) \/ SetCross(c) \/ ReadLeverage(c) \/ ReadCross(c)
           \/ (\E a \in Assets : PushLeverage(c, a)) \/ ClientUnavailable(c) \/ PushDone(c)
    PROVE  PairInv'
<1>1. pc \in [Clients -> Steps] /\ DOMAIN db = Keys
  BY DEF Types, Handlers, Rows
<1>2. db'.model = db.model /\ db'.provider = db.provider
  BY <1>1, Written DEF SetPaused, WriteRisk, WriteTp, WriteSl, SetLeverage, SetCross, Write,
     CheckRisk, ReadRisk, ReadTp, ReadSl, Read, ReadLeverage, ReadCross, PushLeverage,
     ClientUnavailable, PushDone, Keys
<1>3. UNCHANGED <<cycles, req, beside>>
  BY DEF SetPaused, WriteRisk, WriteTp, WriteSl, SetLeverage, SetCross, Write, CheckRisk,
     ReadRisk, ReadTp, ReadSl, Read, ReadLeverage, ReadCross, PushLeverage,
     ClientUnavailable, PushDone, cycles, history
<1>4. \A d \in Clients : pc'[d] = "provider" <=> pc[d] = "provider"
  BY <1>1 DEF SetPaused, WriteRisk, WriteTp, WriteSl, SetLeverage, SetCross, CheckRisk,
     ReadRisk, ReadTp, ReadSl, ReadLeverage, ReadCross, PushLeverage, ClientUnavailable,
     PushDone, Goto, AfterTp
<1>5. QED
  BY <1>2, <1>3, <1>4, SwitchKept

(* MatchedPairWhenSettled: a cycle calls a model at a provider that serves it, *)
(* unless a switch ran while it read the two rows, was cut off between them or  *)
(* ran beside another one.                                                   *)
THEOREM PairMatched == Spec => []MatchedPairWhenSettled
<1>1. Types /\ Beside /\ PairInv /\ [Next]_vars => PairInv'
  <2> SUFFICES ASSUME Types, Beside, PairInv, [Next]_vars PROVE PairInv'
    OBVIOUS
  <2>1. ASSUME NEW c \in Clients, Handler(c) PROVE PairInv'
    BY <2>1, SetModelStep, SetProviderStep, OtherHandlers DEF Handler
  <2>2. ASSUME NEW c \in Clients, NEW r \in Requests[c], Post(c, r) PROVE PairInv'
    <3>1. FirstStep(r) # "provider" /\ pc[c] = "idle" /\ pc' = [pc EXCEPT ![c] = FirstStep(r)]
          /\ pc \in [Clients -> Steps] /\ req' = [req EXCEPT ![c] = r] /\ DOMAIN req = Clients
      BY <2>2, FirstStepSuits, OverridesAssumption DEF Post, Goto, Types, Handlers
    <3>2. \A d \in Clients : d # c => (beside[d] => beside'[d])
      BY <2>2 DEF Post, Begins
    <3>3. \A d \in Clients : /\ pc'[d] = "provider" <=> pc[d] = "provider"
                             /\ pc[d] = "provider" =>
                                   req'[d] = req[d] /\ (beside[d] => beside'[d])
      BY <3>1, <3>2
    <3>4. db' = db /\ UNCHANGED cycles
      BY <2>2 DEF Post
    <3>5. QED
      BY <3>3, <3>4, SwitchKept
  <2>3. CASE UNCHANGED vars
    <3>1. UNCHANGED <<db, cycles, pc, req, beside>>
      BY <2>3 DEF vars, clients, history
    <3>2. QED
      BY <3>1, SwitchKept
  <2>4. QED
    BY <2>1, <2>2, <2>3, CycleReads, SwitchRestart DEF Next
<1>2. PairInv => MatchedPairWhenSettled
  BY DEF PairInv
<1>3. QED
  BY <1>1, <1>2, SwitchInit, TypesCorrect, OverlapsSeen, PTL DEF Spec

-------------------------------------------------------------------------------
(* The rows read to be merged.  What a handler is about to write back is the   *)
(* row as it is, but for the fields other requests changed since its own was    *)
(* sent.                                                                     *)
Same(a, b, fields) ==
    \A f \in fields : /\ f \in DOMAIN a <=> f \in DOMAIN b
                      /\ f \in DOMAIN a => a[f] = b[f]

FreshInv ==
    /\ DOMAIN since = Clients
    /\ \A c \in Clients :
          /\ pc[c] = "risk_write" => Same(tmp[c], db.risk, RiskFields \ since[c])
          /\ pc[c] = "tp_write" => Same(tmp[c], db.tp, TpFields \ since[c])
          /\ pc[c] = "sl_write" => Same(tmp[c], db.sl, SlFields \ since[c])

(* A merge, field by field. *)
LEMMA MergeAt ==
    \A a, b, f : /\ f \in DOMAIN Merge(a, b) <=> f \in DOMAIN a \/ f \in DOMAIN b
                 /\ f \in DOMAIN b => Merge(a, b)[f] = b[f]
                 /\ f \in DOMAIN a /\ f \notin DOMAIN b => Merge(a, b)[f] = a[f]
BY DEF Merge

(* What the booking of a write does to the other requests.                    *)
LEMMA Booked ==
    ASSUME DOMAIN since = Clients, NEW c \in Clients, NEW fields, Books(c, fields)
    PROVE  /\ DOMAIN since' = Clients
           /\ since'[c] = since[c]
           /\ \A d \in Clients \ {c} : since'[d] = since[d] \cup DOMAIN Part(c, fields)
                                                \cup (since[c] \cap fields)
BY DEF Books

LEMMA SinceGrows ==
    ASSUME FreshInv, NEW c \in Clients, Handler(c)
    PROVE  DOMAIN since' = Clients /\ \A d \in Clients : since[d] \subseteq since'[d]
<1>1. DOMAIN since = Clients
  BY DEF FreshInv
<1>2. ASSUME NEW fields, Books(c, fields)
      PROVE  DOMAIN since' = Clients /\ \A d \in Clients : since[d] \subseteq since'[d]
  BY <1>1, <1>2, Booked
<1>3. CASE \/ SetPaused(c) \/ SetModel(c) \/ SetProvider(c) \/ WriteRisk(c)
           \/ WriteTp(c) \/ WriteSl(c) \/ SetLeverage(c) \/ SetCross(c)
  <2>1. \E fields : Books(c, fields)
    BY <1>3 DEF SetPaused, SetModel, SetProvider, WriteRisk, WriteTp, WriteSl, SetLeverage,
       SetCross, Write
  <2>2. QED
    BY <1>2, <2>1
<1>4. CASE CheckRisk(c) \/ ReadRisk(c) \/ ReadTp(c) \/ ReadSl(c)
  BY <1>1, <1>4 DEF CheckRisk, ReadRisk, ReadTp, ReadSl, Read, history
<1>5. CASE \/ ReadLeverage(c) \/ ReadCross(c) \/ (\E a \in Assets : PushLeverage(c, a))
           \/ ClientUnavailable(c) \/ PushDone(c)
  BY <1>1, <1>5 DEF ReadLeverage, ReadCross, PushLeverage, ClientUnavailable, PushDone, history
<1>6. QED
  BY <1>3, <1>4, <1>5 DEF Handler

(* A step that changes none of the three rows.                                *)
LEMMA FreshKept ==
    ASSUME FreshInv, db'.risk = db.risk, db'.tp = db.tp, db'.sl = db.sl,
           DOMAIN since' = Clients,
           \A c \in Clients : pc'[c] \in {"risk_write", "tp_write", "sl_write"} =>
              pc'[c] = pc[c] /\ tmp'[c] = tmp[c] /\ since[c] \subseteq since'[c]
    PROVE  FreshInv'
BY DEF FreshInv, Same

(* Reading a row that is to be written back.                                  *)
LEMMA FreshRead ==
    ASSUME Types, FreshInv, NEW c \in Clients, ReadRisk(c) \/ ReadTp(c) \/ ReadSl(c)
    PROVE  FreshInv'
<1>1. /\ db' = db /\ since' = since
      /\ \A d \in Clients \ {c} : pc'[d] = pc[d] /\ tmp'[d] = tmp[d]
  BY DEF ReadRisk, ReadTp, ReadSl, Read, Goto, Types, Handlers, history
<1>2. \/ pc'[c] = "risk_write" /\ tmp'[c] = db.risk
      \/ pc'[c] = "tp_write" /\ tmp'[c] = db.tp
      \/ pc'[c] = "sl_write" /\ tmp'[c] = db.sl
  BY DEF ReadRisk, ReadTp, ReadSl, Read, Goto, Types, Handlers
<1>3. QED
  BY <1>1, <1>2 DEF FreshInv, Same

(* Writing it: another request that read the row still has it as it is now,    *)
(* but for the fields this write changed.                                     *)
LEMMA RowFresh ==
    ASSUME NEW row, NEW read, NEW theirs, NEW patch, NEW fields, NEW mine, NEW others,
           Same(read, row, fields \ mine), Same(theirs, row, fields \ others)
    PROVE  Same(theirs, Merge(read, patch),
                fields \ (others \cup DOMAIN patch \cup (mine \cap fields)))
<1> SUFFICES ASSUME NEW f \in fields, f \notin others, f \notin DOMAIN patch, f \notin mine
             PROVE  /\ f \in DOMAIN theirs <=> f \in DOMAIN Merge(read, patch)
                    /\ f \in DOMAIN theirs => theirs[f] = Merge(read, patch)[f]
  BY DEF Same
<1>1. /\ f \in DOMAIN Merge(read, patch) <=> f \in DOMAIN read
      /\ f \in DOMAIN read => Merge(read, patch)[f] = read[f]
  BY MergeAt
<1>2. QED
  BY <1>1 DEF Same

LEMMA FreshRisk ==
    ASSUME Types, FreshInv, NEW c \in Clients, WriteRisk(c)
    PROVE  FreshInv'
<1> DEFINE patch == req[c].patch
<1>1. /\ db'.risk = Merge(tmp[c], patch) /\ db'.tp = db.tp /\ db'.sl = db.sl
      /\ tmp' = tmp /\ pc'[c] = "idle" /\ \A d \in Clients \ {c} : pc'[d] = pc[d]
  BY Written DEF WriteRisk, Write, Goto, Types, Rows, Handlers, Keys
<1>2. Part(c, RiskFields) = patch
  <2>1. patch \in RiskPatches
    BY DEF WriteRisk, Types, Handlers, Serves
  <2>2. QED
    BY <2>1 DEF Part, RiskPatches
<1>3. /\ DOMAIN since' = Clients
      /\ \A d \in Clients \ {c} : since'[d] = since[d] \cup DOMAIN patch
                                           \cup (since[c] \cap RiskFields)
  BY <1>2, Booked DEF WriteRisk, Write, FreshInv
<1>4. ASSUME NEW d \in Clients \ {c}, pc[d] = "risk_write"
      PROVE  Same(tmp[d], Merge(tmp[c], patch), RiskFields \ since'[d])
  <2>1. Same(tmp[c], db.risk, RiskFields \ since[c]) /\ Same(tmp[d], db.risk, RiskFields \ since[d])
    BY <1>4 DEF WriteRisk, FreshInv
  <2> HIDE DEF patch
  <2>2. QED
    BY <1>3, <2>1, RowFresh
<1>5. \A d \in Clients \ {c} : since[d] \subseteq since'[d]
  BY <1>3
<1>6. QED
  BY <1>1, <1>3, <1>4, <1>5 DEF FreshInv, Same

(* Either side of the monitor. *)
LEMMA FreshTp ==
    ASSUME Types, FreshInv, NEW c \in Clients, WriteTp(c)
    PROVE  FreshInv'
<1> DEFINE patch == Part(c, TpFields)
<1>1. /\ db'.tp = Merge(tmp[c], patch) /\ db'.risk = db.risk /\ db'.sl = db.sl
      /\ tmp' = tmp /\ pc'[c] \in {"sl_read", "idle"} /\ \A d \in Clients \ {c} : pc'[d] = pc[d]
  BY Written DEF WriteTp, Write, AfterTp, Goto, Types, Rows, Handlers, Keys
<1>2. /\ DOMAIN since' = Clients
      /\ \A d \in Clients \ {c} : since'[d] = since[d] \cup DOMAIN patch
                                           \cup (since[c] \cap TpFields)
  BY Booked DEF WriteTp, Write, FreshInv
<1>3. ASSUME NEW d \in Clients \ {c}, pc[d] = "tp_write"
      PROVE  Same(tmp[d], Merge(tmp[c], patch), TpFields \ since'[d])
  <2>1. Same(tmp[c], db.tp, TpFields \ since[c]) /\ Same(tmp[d], db.tp, TpFields \ since[d])
    BY <1>3 DEF WriteTp, FreshInv
  <2>2. QED
    BY <1>2, <2>1, RowFresh
<1>4. \A d \in Clients \ {c} : since[d] \subseteq since'[d]
  BY <1>2
<1>5. QED
  BY <1>1, <1>2, <1>3, <1>4 DEF FreshInv, Same

LEMMA FreshSl ==
    ASSUME Types, FreshInv, NEW c \in Clients, WriteSl(c)
    PROVE  FreshInv'
<1> DEFINE patch == Part(c, SlFields)
<1>1. /\ db'.sl = Merge(tmp[c], patch) /\ db'.risk = db.risk /\ db'.tp = db.tp
      /\ tmp' = tmp /\ pc'[c] = "idle" /\ \A d \in Clients \ {c} : pc'[d] = pc[d]
  BY Written DEF WriteSl, Write, Goto, Types, Rows, Handlers, Keys
<1>2. /\ DOMAIN since' = Clients
      /\ \A d \in Clients \ {c} : since'[d] = since[d] \cup DOMAIN patch
                                           \cup (since[c] \cap SlFields)
  BY Booked DEF WriteSl, Write, FreshInv
<1>3. ASSUME NEW d \in Clients \ {c}, pc[d] = "sl_write"
      PROVE  Same(tmp[d], Merge(tmp[c], patch), SlFields \ since'[d])
  <2>1. Same(tmp[c], db.sl, SlFields \ since[c]) /\ Same(tmp[d], db.sl, SlFields \ since[d])
    BY <1>3 DEF WriteSl, FreshInv
  <2>2. QED
    BY <1>2, <2>1, RowFresh
<1>4. \A d \in Clients \ {c} : since[d] \subseteq since'[d]
  BY <1>2
<1>5. QED
  BY <1>1, <1>2, <1>3, <1>4 DEF FreshInv, Same

(* The steps that write none of the three rows.                               *)
LEMMA FreshApart ==
    ASSUME Types, FreshInv, NEW c \in Clients,
           \/ SetPaused(c) \/ SetModel(c) \/ SetProvider(c) \/ CheckRisk(c)
           \/ SetLeverage(c) \/ SetCross(c) \/ ReadLeverage(c) \/ ReadCross(c)
           \/ (\E a \in Assets : PushLeverage(c, a)) \/ ClientUnavailable(c) \/ PushDone(c)
    PROVE  FreshInv'
<1>1. pc \in [Clients -> Steps] /\ DOMAIN db = Keys
  BY DEF Types, Handlers, Rows
<1>2. db'.risk = db.risk /\ db'.tp = db.tp /\ db'.sl = db.sl
  BY <1>1, Written DEF SetPaused, SetModel, SetProvider, CheckRisk, SetLeverage, SetCross,
     Write, ReadLeverage, ReadCross, PushLeverage, ClientUnavailable, PushDone, Keys
<1>3. tmp' = tmp
  BY DEF SetPaused, SetModel, SetProvider, CheckRisk, SetLeverage, SetCross, Write,
     ReadLeverage, ReadCross, PushLeverage, ClientUnavailable, PushDone
<1>4. DOMAIN since' = Clients /\ \A d \in Clients : since[d] \subseteq since'[d]
  BY SinceGrows DEF Handler
<1>5. \A d \in Clients : pc'[d] \in {"risk_write", "tp_write", "sl_write"} => pc'[d] = pc[d]
  BY <1>1 DEF SetPaused, SetModel, SetProvider, CheckRisk, SetLeverage, SetCross,
     ReadLeverage, ReadCross, PushLeverage, ClientUnavailable, PushDone, Goto
<1>6. QED
  BY <1>2, <1>3, <1>4, <1>5, FreshKept

LEMMA FreshPost ==
    ASSUME Types, FreshInv, NEW c \in Clients, NEW r \in Requests[c], Post(c, r)
    PROVE  FreshInv'
<1>1. /\ FirstStep(r) \notin {"risk_write", "tp_write", "sl_write"}
      /\ pc' = [pc EXCEPT ![c] = FirstStep(r)] /\ pc \in [Clients -> Steps]
  BY FirstStepSuits, OverridesAssumption DEF Post, Goto, Types, Handlers
<1>2. db' = db /\ tmp' = tmp /\ since' = [since EXCEPT ![c] = {}]
  BY DEF Post, Begins
<1>3. DOMAIN since' = Clients /\ \A d \in Clients \ {c} : since'[d] = since[d]
  BY <1>2 DEF FreshInv
<1>4. QED
  BY <1>1, <1>2, <1>3, FreshKept

THEOREM RowsFresh == Spec => []FreshInv
<1>1. Init => FreshInv
  BY DEF Init, FreshInv
<1>2. Types /\ FreshInv /\ [Next]_vars => FreshInv'
  <2> SUFFICES ASSUME Types, FreshInv, [Next]_vars PROVE FreshInv'
    OBVIOUS
  <2>1. ASSUME NEW c \in Clients, Handler(c) PROVE FreshInv'
    BY <2>1, FreshRead, FreshRisk, FreshTp, FreshSl, FreshApart DEF Handler
  <2>2. CASE CycleReadsModel \/ CycleReadsProvider \/ UNCHANGED vars
    <3>1. UNCHANGED <<db, pc, tmp, since>>
      BY <2>2 DEF CycleReadsModel, CycleReadsProvider, vars, clients, history
    <3>2. QED
      BY <3>1, FreshKept DEF FreshInv
  <2>3. CASE Restart
    BY <2>3 DEF Restart, FreshInv
  <2>4. QED
    BY <2>1, <2>2, <2>3, FreshPost DEF Next
<1>3. QED
  BY <1>1, <1>2, TypesCorrect, PTL DEF Spec

-------------------------------------------------------------------------------
(* The risk limits.  A request that passed the sanity check and was not         *)
(* overtaken writes what it checked: the row it merges into is still the one it *)
(* read, and the limits in force are still those of the check.                 *)
Sane(limits) == limits.total >= limits.asset

RiskInv ==
    /\ vetted => Sane(EffectiveRisk)
    /\ \A c \in Clients :
          pc[c] \in {"risk_read", "risk_write"} /\ since[c] \cap RiskFields = {}
            => Sane(Merge(EffectiveRisk, req[c].patch))

LEMMA MergeTwice == \A a, b, c : Merge(a, Merge(b, c)) = Merge(Merge(a, b), c)
<1> SUFFICES ASSUME NEW a, NEW b, NEW c
             PROVE  Merge(a, Merge(b, c)) = Merge(Merge(a, b), c)
  OBVIOUS
<1> DEFINE left == Merge(a, Merge(b, c))
           right == Merge(Merge(a, b), c)
           F == DOMAIN a \cup DOMAIN b \cup DOMAIN c
<1>1. DOMAIN left = F /\ DOMAIN right = F
  BY DEF Merge
<1>2. \A f \in F : left[f] = right[f]
  BY DEF Merge
<1>3. left = [f \in F |-> left[f]] /\ right = [f \in F |-> right[f]]
  BY <1>1 DEF Merge
<1>4. QED
  BY <1>2, <1>3

(* Limits patched over full limits are full. *)
LEMMA LimitsPatched ==
    ASSUME NEW limits \in [RiskFields -> Nat], NEW patch \in RiskPatches
    PROVE  Merge(limits, patch) \in [RiskFields -> Nat]
<1>1. PICK A \in SUBSET RiskFields : patch \in [A -> Nat]
  BY DEF RiskPatches
<1>2. RiskFields \cup A = RiskFields
  OBVIOUS
<1>3. Merge(limits, patch) \in [RiskFields \cup A -> Nat]
  BY <1>1 DEF Merge
<1>4. QED
  BY <1>2, <1>3

(* A step of which the row and the requests about it see nothing.             *)
LEMMA RiskKept ==
    ASSUME RiskInv, db'.risk = db.risk, vetted' = vetted,
           \A c \in Clients : pc'[c] \in {"risk_read", "risk_write"} =>
                /\ pc[c] \in {"risk_read", "risk_write"} /\ req'[c] = req[c]
                /\ since[c] \subseteq since'[c]
    PROVE  RiskInv'
<1>1. EffectiveRisk' = EffectiveRisk
  BY DEF EffectiveRisk
<1>2. QED
  BY <1>1 DEF RiskInv

LEMMA RiskInit == Init => RiskInv
<1> SUFFICES ASSUME Init PROVE RiskInv
  OBVIOUS
<1>1. db.risk = NoPatch /\ DOMAIN NoPatch = {}
  BY DEF Init, NoPatch
<1>2. EffectiveRisk.total = Base.risk.total /\ EffectiveRisk.asset = Base.risk.asset
  BY <1>1, OverridesAssumption DEF EffectiveRisk, Merge, RiskFields
<1>3. QED
  BY <1>2, OverridesAssumption DEF Init, RiskInv, Sane

LEMMA CheckRiskStep ==
    ASSUME Types, RiskInv, NEW c \in Clients, CheckRisk(c)
    PROVE  RiskInv'
<1> DEFINE merged == Merge(EffectiveRisk, req[c].patch)
<1>1. EffectiveRisk \in [RiskFields -> Nat]
  BY LimitsPatched, OverridesAssumption DEF Types, Rows, EffectiveRisk
<1>2. merged \in [RiskFields -> Nat]
  BY <1>1, LimitsPatched DEF CheckRisk, Types, Handlers, Serves
<1>3. merged.total \in Nat /\ merged.asset \in Nat
  BY <1>2 DEF RiskFields
<1> HIDE DEF merged
<1>4. /\ pc'[c] \in {"idle", "risk_read"} /\ (pc'[c] = "risk_read" => Sane(merged))
      /\ \A d \in Clients \ {c} : pc'[d] = pc[d]
  <2>1. pc' = [pc EXCEPT ![c] = IF merged.total < merged.asset THEN "idle" ELSE "risk_read"]
        /\ pc \in [Clients -> Steps]
    BY DEF CheckRisk, Goto, Types, Handlers, merged
  <2>2. QED
    BY <1>3, <2>1 DEF Sane
<1>5. EffectiveRisk' = EffectiveRisk /\ UNCHANGED <<req, since, vetted>>
  BY DEF CheckRisk, EffectiveRisk, history
<1>6. QED
  BY <1>4, <1>5 DEF RiskInv, merged

LEMMA ReadRiskStep ==
    ASSUME Types, RiskInv, NEW c \in Clients, ReadRisk(c)
    PROVE  RiskInv'
<1>1. pc[c] = "risk_read" /\ \A d \in Clients \ {c} : pc'[d] = pc[d]
  BY DEF ReadRisk, Goto, Types, Handlers
<1>2. UNCHANGED <<db, req, since, vetted>>
  BY DEF ReadRisk, Read, history
<1>3. QED
  BY <1>1, <1>2, RiskKept

(* A row read by a request nothing has overtaken is the row as it is.          *)
LEMMA RiskRowSame ==
    ASSUME Types, FreshInv, NEW c \in Clients, pc[c] = "risk_write",
           since[c] \cap RiskFields = {}
    PROVE  tmp[c] = db.risk
<1>1. tmp[c] \in RiskPatches /\ db.risk \in RiskPatches
  BY DEF Types, Rows, Handlers, Serves
<1>2. PICK A \in SUBSET RiskFields : tmp[c] \in [A -> Nat]
  BY <1>1 DEF RiskPatches
<1>3. PICK B \in SUBSET RiskFields : db.risk \in [B -> Nat]
  BY <1>1 DEF RiskPatches
<1>4. RiskFields \ since[c] = RiskFields
  OBVIOUS
<1>5. Same(tmp[c], db.risk, RiskFields)
  BY <1>4 DEF FreshInv
<1>6. A = B
  BY <1>2, <1>3, <1>5 DEF Same
<1>7. \A f \in A : tmp[c][f] = db.risk[f]
  BY <1>2, <1>5 DEF Same
<1>8. QED
  BY <1>2, <1>3, <1>6, <1>7

LEMMA WriteRiskStep ==
    ASSUME Types, FreshInv, RiskInv, NEW c \in Clients, WriteRisk(c)
    PROVE  RiskInv'
<1> DEFINE patch == req[c].patch
           clean == since[c] \cap RiskFields = {}
<1>1. /\ db'.risk = Merge(tmp[c], patch) /\ req' = req /\ vetted' = clean
      /\ pc'[c] = "idle" /\ \A d \in Clients \ {c} : pc'[d] = pc[d]
  BY Written DEF WriteRisk, Write, Goto, Types, Rows, Handlers, Keys
<1>2. patch \in RiskPatches
  BY DEF WriteRisk, Types, Handlers, Serves
<1>3. Part(c, RiskFields) = patch
  BY <1>2 DEF Part, RiskPatches
<1>4. \A d \in Clients \ {c} : since'[d] = since[d] \cup DOMAIN patch
                                         \cup (since[c] \cap RiskFields)
  BY <1>3, Booked DEF WriteRisk, Write, FreshInv
<1>5. clean => EffectiveRisk' = Merge(EffectiveRisk, patch)
  <2> HAVE clean
  <2>1. tmp[c] = db.risk
    BY RiskRowSame DEF WriteRisk
  <2>2. EffectiveRisk' = Merge(Base.risk, Merge(db.risk, patch))
    BY <1>1, <2>1 DEF EffectiveRisk
  <2>3. QED
    BY <2>2, MergeTwice DEF EffectiveRisk
<1>6. vetted' => Sane(EffectiveRisk')
  BY <1>1, <1>5 DEF WriteRisk, RiskInv
<1>7. ASSUME NEW d \in Clients, pc'[d] \in {"risk_read", "risk_write"},
             since'[d] \cap RiskFields = {}
      PROVE  Sane(Merge(EffectiveRisk', req'[d].patch))
  <2>1. d # c /\ pc'[d] = pc[d]
    BY <1>1, <1>7
  <2>2. DOMAIN patch \subseteq RiskFields
    BY <1>2 DEF RiskPatches
  <2>3. DOMAIN patch = {} /\ clean /\ since[d] \cap RiskFields = {}
    BY <1>4, <1>7, <2>1, <2>2
  <2>4. EffectiveRisk \in [RiskFields -> Nat]
    BY LimitsPatched, OverridesAssumption DEF Types, Rows, EffectiveRisk
  <2>5. Merge(EffectiveRisk, patch) = EffectiveRisk
    BY <2>3, <2>4 DEF Merge
  <2>6. QED
    BY <1>1, <1>5, <1>7, <2>1, <2>3, <2>5 DEF RiskInv
<1>8. QED
  BY <1>6, <1>7 DEF RiskInv

(* The handlers of the other forms.                                          *)
LEMMA RiskApart ==
    ASSUME Types, FreshInv, RiskInv, NEW c \in Clients,
           \/ SetPaused(c) \/ SetModel(c) \/ SetProvider(c)
           \/ ReadTp(c) \/ WriteTp(c) \/ ReadSl(c) \/ WriteSl(c)
           \/ SetLeverage(c) \/ SetCross(c) \/ ReadLeverage(c) \/ ReadCross(c)
           \/ (\E a \in Assets : PushLeverage(c, a)) \/ ClientUnavailable(c) \/ PushDone(c)
    PROVE  RiskInv'
<1>1. pc \in [Clients -> Steps] /\ DOMAIN db = Keys /\ DOMAIN tmp = Clients
  BY DEF Types, Handlers, Rows
<1>2. db'.risk = db.risk
  BY <1>1, Written DEF SetPaused, SetModel, SetProvider, WriteTp, WriteSl, SetLeverage,
     SetCross, Write, ReadTp, ReadSl, Read, ReadLeverage, ReadCross, PushLeverage,
     ClientUnavailable, PushDone, Keys
<1>3. req' = req /\ vetted' = vetted
  BY DEF SetPaused, SetModel, SetProvider, WriteTp, WriteSl, SetLeverage, SetCross,
     Write, ReadTp, ReadSl, Read, ReadLeverage, ReadCross, PushLeverage,
     ClientUnavailable, PushDone, history
<1>4. pc'[c] \notin {"risk_read", "risk_write"} /\ \A d \in Clients \ {c} : pc'[d] = pc[d]
  BY <1>1 DEF SetPaused, SetModel, SetProvider, WriteTp, WriteSl, SetLeverage, SetCross,
     ReadTp, ReadSl, ReadLeverage, ReadCross, PushLeverage, ClientUnavailable, PushDone,
     Goto, AfterTp
<1>5. \A d \in Clients : since[d] \subseteq since'[d]
  BY SinceGrows DEF Handler
<1>6. QED
  BY <1>2, <1>3, <1>4, <1>5, RiskKept

(* TotalCapCoversAssetCap: whatever limits requests post and however they       *)
(* overlap, wherever a restart cuts them, the total cap is not below the cap of *)
(* one asset while the last write of the limits was not overtaken between its   *)
(* check and its write.                                                      *)
THEOREM TotalCovers == Spec => []TotalCapCoversAssetCap
<1>1. Types /\ FreshInv /\ RiskInv /\ [Next]_vars => RiskInv'
  <2> SUFFICES ASSUME Types, FreshInv, RiskInv, [Next]_vars PROVE RiskInv'
    OBVIOUS
  <2>1. ASSUME NEW c \in Clients, Handler(c) PROVE RiskInv'
    BY <2>1, CheckRiskStep, ReadRiskStep, WriteRiskStep, RiskApart DEF Handler
  <2>2. ASSUME NEW c \in Clients, NEW r \in Requests[c], Post(c, r) PROVE RiskInv'
    <3>1. /\ FirstStep(r) \notin {"risk_read", "risk_write"}
          /\ pc' = [pc EXCEPT ![c] = FirstStep(r)] /\ pc \in [Clients -> Steps]
          /\ req' = [req EXCEPT ![c] = r] /\ DOMAIN req = Clients
      BY <2>2, FirstStepSuits, OverridesAssumption DEF Post, Goto, Types, Handlers
    <3>2. db' = db /\ vetted' = vetted /\ since' = [since EXCEPT ![c] = {}]
      BY <2>2 DEF Post, Begins
    <3>3. \A d \in Clients : pc'[d] \in {"risk_read", "risk_write"} =>
                             pc'[d] = pc[d] /\ req'[d] = req[d] /\ since'[d] = since[d]
      BY <3>1, <3>2 DEF FreshInv
    <3>4. QED
      BY <3>2, <3>3, RiskKept
  <2>3. CASE CycleReadsModel \/ CycleReadsProvider \/ UNCHANGED vars
    <3>1. UNCHANGED <<db, pc, req, since, vetted>>
      BY <2>3 DEF CycleReadsModel, CycleReadsProvider, vars, clients, history
    <3>2. QED
      BY <3>1, RiskKept
  <2>4. CASE Restart
    <3>1. db' = db /\ vetted' = vetted /\ \A c \in Clients : pc'[c] = "idle"
      BY <2>4 DEF Restart
    <3>2. QED
      BY <3>1, RiskKept
  <2>5. QED
    BY <2>1, <2>2, <2>3, <2>4 DEF Next
<1>2. RiskInv => TotalCapCoversAssetCap
  BY DEF RiskInv, Sane, TotalCapCoversAssetCap
<1>3. QED
  BY <1>1, <1>2, RiskInit, TypesCorrect, RowsFresh, PTL DEF Spec

-------------------------------------------------------------------------------
(* The leverage.  An asset whose last push got through is at the stored        *)
(* leverage, unless the request that changed it is still on its way to that     *)
(* asset, or two requests ran beside each other and the last of them has not    *)
(* ended, or has ended the run of pushes.  What a request that runs alone is    *)
(* about to push is what is stored.                                           *)
LeverSteps == {"leverage", "cross", "read_leverage", "read_cross", "push"}

Pending(c, a) ==
    \/ pc[c] \in {"cross", "read_leverage", "read_cross"}
    \/ pc[c] = "push" /\ a \in push[c]

LeverInv ==
    /\ \A c \in Clients : pc[c] \in LeverSteps => req[c].kind = "leverage"
    /\ \A c \in Clients : ~beside[c] =>
          /\ pc[c] = "read_cross" => lever[c].leverage = EffectiveLever.leverage
          /\ pc[c] = "push" =>
                /\ lever[c] = EffectiveLever
                /\ \A a \in Assets \ (refused \cup push[c]) : levers[a] = EffectiveLever
    /\ \A a \in Assets \ refused :
          \/ crossed \/ levers[a] = EffectiveLever
          \/ \E c \in Clients : Pending(c, a) \/ (pc[c] \in LeverSteps /\ beside[c])

(* Two requests about the leverage know of each other. *)
LEMMA PushersKnow ==
    ASSUME Beside, LeverInv, NEW c \in Clients, NEW d \in Clients, c # d,
           pc[c] \in LeverSteps, pc[d] \in LeverSteps
    PROVE  beside[d]
<1>1. pc[c] # "idle" /\ pc[d] # "idle"
  BY DEF LeverSteps
<1>2. QED
  BY <1>1 DEF Beside, LeverInv

(* A step of which the two rows, the exchange and the requests about them see  *)
(* nothing.                                                                  *)
LEMMA LeverKept ==
    ASSUME LeverInv, db'.leverage = db.leverage, db'.cross = db.cross,
           levers' = levers, refused' = refused, lever' = lever, push' = push,
           crossed' = crossed,
           \A c \in Clients :
              /\ pc[c] \in LeverSteps => pc'[c] = pc[c] /\ (beside[c] => beside'[c])
              /\ pc'[c] \in LeverSteps \ {"leverage", "cross"} => pc'[c] = pc[c]
              /\ pc'[c] \in LeverSteps =>
                    (pc'[c] = pc[c] /\ req'[c] = req[c]) \/ req'[c].kind = "leverage"
    PROVE  LeverInv'
<1>1. EffectiveLever' = EffectiveLever
  BY DEF EffectiveLever
<1>2. \A c \in Clients : /\ pc'[c] \in LeverSteps => req'[c].kind = "leverage"
                         /\ pc'[c] \in {"read_cross", "push"} =>
                               pc'[c] = pc[c] /\ (beside[c] => beside'[c])
  BY DEF LeverInv, LeverSteps
<1>3. \A a \in Assets, c \in Clients :
         /\ Pending(c, a) => Pending(c, a)'
         /\ pc[c] \in LeverSteps /\ beside[c] => pc'[c] \in LeverSteps /\ beside'[c]
  BY DEF Pending, LeverSteps
<1>4. QED
  BY <1>1, <1>2, <1>3 DEF LeverInv

LEMMA LeverInit == Init => LeverInv
<1> SUFFICES ASSUME Init PROVE LeverInv
  OBVIOUS
<1>1. EffectiveLever = [leverage |-> Base.leverage, cross |-> Base.cross]
  BY DEF Init, EffectiveLever
<1>2. QED
  BY <1>1 DEF Init, LeverInv, LeverSteps

(* Storing the leverage or the mode: what follows will push it everywhere.    *)
LEMMA LeverStored ==
    ASSUME Beside, Types, LeverInv, NEW c \in Clients, SetLeverage(c) \/ SetCross(c)
    PROVE  LeverInv'
<1>1. /\ pc[c] \in {"leverage", "cross"} /\ pc'[c] \in {"cross", "read_leverage"}
      /\ UNCHANGED <<req, beside>> /\ \A d \in Clients \ {c} : pc'[d] = pc[d]
  BY DEF SetLeverage, SetCross, Write, Goto, Types, Handlers
<1>2. \A d \in Clients : pc'[d] \in {"read_cross", "push"} => beside'[d]
  BY <1>1, PushersKnow DEF LeverSteps
<1>3. \A d \in Clients : pc'[d] \in LeverSteps => req'[d].kind = "leverage"
  BY <1>1 DEF LeverInv, LeverSteps
<1>4. \A a \in Assets : Pending(c, a)'
  BY <1>1 DEF Pending
<1>5. QED
  BY <1>2, <1>3, <1>4 DEF LeverInv

(* What a step that only moves a request on keeps of the last conjunct.        *)
LEMMA StillOnTheWay ==
    ASSUME LeverInv, EffectiveLever' = EffectiveLever, levers' = levers,
           refused' = refused, crossed' = crossed,
           \A a \in Assets, c \in Clients :
              /\ Pending(c, a) => Pending(c, a)'
              /\ pc[c] \in LeverSteps /\ beside[c] => pc'[c] \in LeverSteps /\ beside'[c]
    PROVE  \A a \in Assets \ refused' :
              \/ crossed' \/ levers'[a] = EffectiveLever'
              \/ \E c \in Clients : Pending(c, a)' \/ (pc'[c] \in LeverSteps /\ beside'[c])
BY DEF LeverInv

(* Reading back what is effective.                                           *)
LEMMA LeverRead ==
    ASSUME Types, LeverInv, NEW c \in Clients, ReadLeverage(c) \/ ReadCross(c)
    PROVE  LeverInv'
<1>1. /\ EffectiveLever' = EffectiveLever
      /\ UNCHANGED <<levers, refused, req, beside, crossed>>
  BY DEF ReadLeverage, ReadCross, EffectiveLever, history
<1>2. /\ pc \in [Clients -> Steps] /\ lever \in [Clients -> Levers]
      /\ push \in [Clients -> SUBSET Assets] /\ EffectiveLever \in Levers
  BY EffectiveTypes DEF Types, Handlers
<1>3. CASE ReadLeverage(c)
  <2>1. /\ pc[c] = "read_leverage" /\ pc'[c] = "read_cross" /\ push' = push
        /\ \A d \in Clients \ {c} : pc'[d] = pc[d] /\ lever'[d] = lever[d]
        /\ lever'[c].leverage = EffectiveLever.leverage
    BY <1>2, <1>3 DEF ReadLeverage, Goto, Levers
  <2>2. \A a \in Assets, d \in Clients :
           /\ Pending(d, a) => Pending(d, a)'
           /\ pc[d] \in LeverSteps /\ beside[d] => pc'[d] \in LeverSteps /\ beside'[d]
    BY <1>1, <2>1 DEF Pending, LeverSteps
  <2>3. \A a \in Assets \ refused' :
           \/ crossed' \/ levers'[a] = EffectiveLever'
           \/ \E d \in Clients : Pending(d, a)' \/ (pc'[d] \in LeverSteps /\ beside'[d])
    BY <1>1, <2>2, StillOnTheWay
  <2>4. \A d \in Clients : pc'[d] \in LeverSteps => req'[d].kind = "leverage"
    BY <1>1, <2>1 DEF LeverInv, LeverSteps
  <2>5. QED
    BY <1>1, <2>1, <2>3, <2>4 DEF LeverInv
<1>4. CASE ReadCross(c)
  <2>1. /\ pc[c] = "read_cross" /\ pc'[c] = "push" /\ push'[c] = Assets
        /\ \A d \in Clients \ {c} : pc'[d] = pc[d] /\ lever'[d] = lever[d] /\ push'[d] = push[d]
    BY <1>2, <1>4 DEF ReadCross, Goto
  <2>2. ~beside[c] => lever'[c] = EffectiveLever
    <3>1. lever'[c] = [leverage |-> lever[c].leverage, cross |-> EffectiveLever.cross]
      BY <1>2, <1>4 DEF ReadCross, Levers
    <3>2. ~beside[c] => lever[c].leverage = EffectiveLever.leverage
      BY <2>1 DEF LeverInv
    <3>3. QED
      BY <1>2, <3>1, <3>2 DEF Levers
  <2>3. \A a \in Assets, d \in Clients :
           /\ Pending(d, a) => Pending(d, a)'
           /\ pc[d] \in LeverSteps /\ beside[d] => pc'[d] \in LeverSteps /\ beside'[d]
    BY <1>1, <2>1 DEF Pending, LeverSteps
  <2>4. \A a \in Assets \ refused' :
           \/ crossed' \/ levers'[a] = EffectiveLever'
           \/ \E d \in Clients : Pending(d, a)' \/ (pc'[d] \in LeverSteps /\ beside'[d])
    BY <1>1, <2>3, StillOnTheWay
  <2>5. \A d \in Clients : pc'[d] \in LeverSteps => req'[d].kind = "leverage"
    BY <1>1, <2>1 DEF LeverInv, LeverSteps
  <2>6. QED
    BY <1>1, <2>1, <2>2, <2>4, <2>5 DEF LeverInv
<1>5. QED
  BY <1>3, <1>4

(* One asset pushed, whether the exchange takes it or not.                    *)
LEMMA LeverPushed ==
    ASSUME Beside, Types, LeverInv, NEW c \in Clients, NEW a \in Assets, PushLeverage(c, a)
    PROVE  LeverInv'
<1>1. /\ pc[c] = "push" /\ EffectiveLever' = EffectiveLever
      /\ UNCHANGED <<pc, req, lever, beside, crossed>>
  BY DEF PushLeverage, EffectiveLever, history
<1>2. /\ \A d \in Clients : \A b \in push[d] \ {a} : b \in push'[d]
      /\ \A d \in Clients \ {c} : push'[d] = push[d]
  BY DEF PushLeverage, Types, Handlers
<1>3. \A b \in Assets \ {a} : levers'[b] = levers[b] /\ (b \in refused' <=> b \in refused)
  BY DEF PushLeverage, Types, Handlers
<1>4. a \notin refused' => levers'[a] = lever[c]
  BY DEF PushLeverage, Types, Handlers
<1>5. \A d \in Clients \ {c} : pc[d] \in LeverSteps => beside[d]
  BY <1>1, PushersKnow DEF LeverSteps
<1>6. ASSUME ~beside[c]
      PROVE  \A b \in Assets \ (refused' \cup push'[c]) : levers'[b] = EffectiveLever
  <2>1. lever[c] = EffectiveLever
        /\ \A b \in Assets \ (refused \cup push[c]) : levers[b] = EffectiveLever
    BY <1>1, <1>6 DEF LeverInv
  <2>2. QED
    BY <1>2, <1>3, <1>4, <2>1
<1>7. \A b \in Assets \ refused' :
         \/ crossed \/ levers'[b] = EffectiveLever
         \/ \E d \in Clients : Pending(d, b)' \/ (pc'[d] \in LeverSteps /\ beside'[d])
  <2>1. CASE beside[c]
    BY <1>1, <2>1 DEF LeverSteps
  <2>2. CASE ~beside[c]
    <3>1. a \notin refused' => levers'[a] = EffectiveLever
      BY <1>1, <1>4, <2>2 DEF LeverInv
    <3>2. \A b \in Assets \ {a}, d \in Clients : Pending(d, b) => Pending(d, b)'
      BY <1>1, <1>2 DEF Pending
    <3>3. QED
      BY <1>1, <1>3, <3>1, <3>2 DEF LeverInv
  <2>3. QED
    BY <2>1, <2>2
<1>8. \A d \in Clients : ~beside'[d] =>
         /\ pc'[d] = "read_cross" => lever'[d].leverage = EffectiveLever'.leverage
         /\ pc'[d] = "push" =>
               /\ lever'[d] = EffectiveLever'
               /\ \A b \in Assets \ (refused' \cup push'[d]) : levers'[b] = EffectiveLever'
  BY <1>1, <1>5, <1>6 DEF LeverInv, LeverSteps
<1>9. \A d \in Clients : pc'[d] \in LeverSteps => req'[d].kind = "leverage"
  BY <1>1 DEF LeverInv
<1>10. QED
  BY <1>1, <1>7, <1>8, <1>9 DEF LeverInv

(* The push ends, with every asset asked for or none.                         *)
LEMMA LeverEnds ==
    ASSUME Beside, Types, LeverInv, NEW c \in Clients, ClientUnavailable(c) \/ PushDone(c)
    PROVE  LeverInv'
<1>1. /\ EffectiveLever' = EffectiveLever /\ UNCHANGED <<levers, req, lever, beside>>
      /\ pc[c] = "push" /\ crossed' = beside[c] /\ pc'[c] = "idle"
      /\ \A d \in Clients \ {c} : pc'[d] = pc[d] /\ push'[d] = push[d]
  BY DEF ClientUnavailable, PushDone, Goto, EffectiveLever, Types, Handlers
<1>2. \A d \in Clients : pc'[d] \in LeverSteps => beside'[d] /\ req'[d].kind = "leverage"
  BY <1>1, PushersKnow DEF LeverInv, LeverSteps
<1>3. \A a \in Assets \ refused' : crossed' \/ levers'[a] = EffectiveLever'
  <2>1. CASE ClientUnavailable(c)
    BY <2>1 DEF ClientUnavailable
  <2>2. CASE PushDone(c)
    BY <1>1, <2>2 DEF PushDone, LeverInv
  <2>3. QED
    BY <2>1, <2>2
<1>4. QED
  BY <1>2, <1>3 DEF LeverInv, LeverSteps

LEMMA LeverRestart == LeverInv /\ Restart => LeverInv'
<1> SUFFICES ASSUME LeverInv, Restart PROVE LeverInv'
  OBVIOUS
<1>1. EffectiveLever' = EffectiveLever /\ \A c \in Clients : pc'[c] \notin LeverSteps
  BY DEF Restart, EffectiveLever, LeverSteps
<1>2. \A a \in Assets \ refused' : levers'[a] = EffectiveLever
  BY DEF Restart, InitializeExchange
<1>3. QED
  BY <1>1, <1>2 DEF LeverInv, LeverSteps

(* The handlers of the other forms.                                          *)
LEMMA LeverApart ==
    ASSUME Types, LeverInv, NEW c \in Clients,
           \/ SetPaused(c) \/ SetModel(c) \/ SetProvider(c)
           \/ CheckRisk(c) \/ ReadRisk(c) \/ WriteRisk(c)
           \/ ReadTp(c) \/ WriteTp(c) \/ ReadSl(c) \/ WriteSl(c)
    PROVE  LeverInv'
<1>1. pc \in [Clients -> Steps] /\ DOMAIN db = Keys
  BY DEF Types, Handlers, Rows
<1>2. db'.leverage = db.leverage /\ db'.cross = db.cross
  BY <1>1, Written DEF SetPaused, SetModel, SetProvider, CheckRisk, ReadRisk, WriteRisk,
     ReadTp, WriteTp, ReadSl, WriteSl, Write, Read, Keys
<1>3. UNCHANGED <<levers, refused, lever, push, req, beside, crossed>>
  BY DEF SetPaused, SetModel, SetProvider, CheckRisk, ReadRisk, WriteRisk, ReadTp, WriteTp,
     ReadSl, WriteSl, Write, Read, history
<1>4. /\ pc[c] \notin LeverSteps /\ pc'[c] \notin LeverSteps
      /\ \A d \in Clients \ {c} : pc'[d] = pc[d]
  BY <1>1 DEF SetPaused, SetModel, SetProvider, CheckRisk, ReadRisk, WriteRisk, ReadTp,
     WriteTp, ReadSl, WriteSl, Goto, AfterTp, LeverSteps
<1>5. QED
  BY <1>2, <1>3, <1>4, LeverKept

(* ExchangeHasStoredLeverage: with nothing in flight, every asset whose last    *)
(* push got through trades at the stored leverage, restarts included, unless    *)
(* the request that pushed last ran beside another one.                        *)
THEOREM LeverageIsStored == Spec => []ExchangeHasStoredLeverage
<1>1. Types /\ Beside /\ LeverInv /\ [Next]_vars => LeverInv'
  <2> SUFFICES ASSUME Types, Beside, LeverInv, [Next]_vars PROVE LeverInv'
    OBVIOUS
  <2>1. ASSUME NEW c \in Clients, Handler(c) PROVE LeverInv'
    BY <2>1, LeverStored, LeverRead, LeverPushed, LeverEnds, LeverApart DEF Handler
  <2>2. ASSUME NEW c \in Clients, NEW r \in Requests[c], Post(c, r) PROVE LeverInv'
    <3>1. /\ pc[c] = "idle" /\ pc' = [pc EXCEPT ![c] = FirstStep(r)] /\ pc \in [Clients -> Steps]
          /\ req' = [req EXCEPT ![c] = r] /\ DOMAIN req = Clients
      BY <2>2 DEF Post, Goto, Types, Handlers
    <3>2. /\ FirstStep(r) \in LeverSteps => r.kind = "leverage"
          /\ FirstStep(r) \notin LeverSteps \ {"leverage", "cross"}
      BY FirstStepSuits, OverridesAssumption DEF LeverSteps
    <3>3. \A d \in Clients : d # c => (beside[d] => beside'[d])
      BY <2>2 DEF Post, Begins
    <3>4. \A d \in Clients :
              /\ pc[d] \in LeverSteps => pc'[d] = pc[d] /\ (beside[d] => beside'[d])
              /\ pc'[d] \in LeverSteps \ {"leverage", "cross"} => pc'[d] = pc[d]
              /\ pc'[d] \in LeverSteps =>
                    (pc'[d] = pc[d] /\ req'[d] = req[d]) \/ req'[d].kind = "leverage"
      BY <3>1, <3>2, <3>3 DEF LeverSteps
    <3>5. UNCHANGED <<db, levers, refused, lever, push, crossed>>
      BY <2>2 DEF Post
    <3>6. QED
      BY <3>4, <3>5, LeverKept
  <2>3. CASE CycleReadsModel \/ CycleReadsProvider \/ UNCHANGED vars
    <3>1. UNCHANGED <<db, levers, refused, pc, req, lever, push, beside, crossed>>
      BY <2>3 DEF CycleReadsModel, CycleReadsProvider, vars, clients, history
    <3>2. QED
      BY <3>1, LeverKept
  <2>4. QED
    BY <2>1, <2>2, <2>3, LeverRestart DEF Next
<1>2. LeverInv => ExchangeHasStoredLeverage
  BY DEF LeverInv, ExchangeHasStoredLeverage, Quiet, Pending, LeverSteps
<1>3. QED
  BY <1>1, <1>2, LeverInit, TypesCorrect, OverlapsSeen, PTL DEF Spec

-------------------------------------------------------------------------------
(* The patches.  A handler writes back the row as it read it, patched; the      *)
(* fields others changed meanwhile are taken out of what is claimed, and the    *)
(* row goes on agreeing with the latest writer of each of the others.          *)
Agree(asked, row, fields) ==
    \A f \in DOMAIN asked \cap fields : f \in DOMAIN row /\ row[f] = asked[f]

StickInv ==
    /\ DOMAIN intent \subseteq PatchFields
    /\ Agree(intent, db.risk, RiskFields)
    /\ Agree(intent, db.tp, TpFields)
    /\ Agree(intent, db.sl, SlFields)

(* What a write claims, field by field.                                       *)
LEMMA Claimed ==
    ASSUME NEW c, NEW fields, Books(c, fields)
    PROVE  /\ \A f : f \in DOMAIN intent' <=>
                 \/ f \in DOMAIN intent /\ f \notin since[c] \cap fields
                 \/ f \in DOMAIN Part(c, fields)
           /\ \A f \in DOMAIN Part(c, fields) : intent'[f] = Part(c, fields)[f]
           /\ \A f \in DOMAIN intent' : f \notin DOMAIN Part(c, fields) => intent'[f] = intent[f]
<1> DEFINE asked == Without(intent, since[c] \cap fields)
           patch == Part(c, fields)
<1>1. intent' = Merge(asked, patch)
  BY DEF Books
<1>2. /\ DOMAIN asked = DOMAIN intent \ (since[c] \cap fields)
      /\ \A f \in DOMAIN asked : asked[f] = intent[f]
  BY DEF Without
<1> HIDE DEF asked, patch
<1>3. QED
  BY <1>1, <1>2, MergeAt DEF patch

(* The row written agrees with the claim, and the other rows still do.         *)
LEMMA RowAgrees ==
    ASSUME NEW c, NEW fields, Books(c, fields), NEW row, NEW read,
           Agree(intent, row, fields), Same(read, row, fields \ since[c])
    PROVE  Agree(intent', Merge(read, Part(c, fields)), fields)
<1> DEFINE patch == Part(c, fields)
           new == Merge(read, patch)
<1> SUFFICES ASSUME NEW f \in DOMAIN intent', f \in fields
             PROVE  f \in DOMAIN new /\ new[f] = intent'[f]
  BY DEF Agree
<1>1. CASE f \in DOMAIN patch
  BY <1>1, Claimed, MergeAt
<1>2. CASE f \notin DOMAIN patch
  <2>1. f \in DOMAIN intent /\ f \notin since[c] /\ intent'[f] = intent[f]
    BY <1>2, Claimed
  <2>2. f \in DOMAIN read /\ read[f] = intent[f]
    BY <2>1 DEF Agree, Same
  <2> HIDE DEF patch
  <2>3. QED
    BY <1>2, <2>1, <2>2, MergeAt
<1>3. QED
  BY <1>1, <1>2

LEMMA RowsApart ==
    ASSUME NEW c, NEW fields, Books(c, fields), NEW row, NEW others,
           Agree(intent, row, others), fields \cap others = {}
    PROVE  Agree(intent', row, others)
<1> SUFFICES ASSUME NEW f \in DOMAIN intent', f \in others
             PROVE  f \in DOMAIN row /\ row[f] = intent'[f]
  BY DEF Agree
<1>1. f \notin DOMAIN Part(c, fields)
  BY PartDomain
<1>2. f \in DOMAIN intent /\ intent'[f] = intent[f]
  BY <1>1, Claimed
<1>3. QED
  BY <1>2 DEF Agree

LEMMA ClaimsTyped ==
    ASSUME StickInv, NEW c, NEW fields \in SUBSET PatchFields, Books(c, fields)
    PROVE  DOMAIN intent' \subseteq PatchFields
BY Claimed, PartDomain DEF StickInv

LEMMA FieldsApart ==
    /\ RiskFields \cap TpFields = {} /\ RiskFields \cap SlFields = {}
    /\ TpFields \cap SlFields = {}
    /\ RiskFields \subseteq PatchFields /\ TpFields \subseteq PatchFields
    /\ SlFields \subseteq PatchFields
BY DEF RiskFields, TpFields, SlFields, PatchFields

LEMMA StickRisk ==
    ASSUME Types, FreshInv, StickInv, NEW c \in Clients, WriteRisk(c)
    PROVE  StickInv'
<1> DEFINE patch == req[c].patch
<1>1. /\ db'.risk = Merge(tmp[c], patch) /\ db'.tp = db.tp /\ db'.sl = db.sl
      /\ Books(c, RiskFields)
  BY Written DEF WriteRisk, Write, Types, Rows, Keys
<1>2. Part(c, RiskFields) = patch
  <2>1. patch \in RiskPatches
    BY DEF WriteRisk, Types, Handlers, Serves
  <2>2. QED
    BY <2>1 DEF Part, RiskPatches
<1>3. Same(tmp[c], db.risk, RiskFields \ since[c])
  BY DEF WriteRisk, FreshInv
<1>4. Agree(intent', db'.risk, RiskFields)
  BY <1>1, <1>2, <1>3, RowAgrees DEF StickInv
<1>5. Agree(intent', db'.tp, TpFields) /\ Agree(intent', db'.sl, SlFields)
  BY <1>1, RowsApart, FieldsApart DEF StickInv
<1>6. QED
  BY <1>1, <1>4, <1>5, ClaimsTyped, FieldsApart DEF StickInv

(* Either side of the monitor. *)
LEMMA StickTp ==
    ASSUME Types, FreshInv, StickInv, NEW c \in Clients, WriteTp(c)
    PROVE  StickInv'
<1>1. /\ db'.tp = Merge(tmp[c], Part(c, TpFields)) /\ db'.risk = db.risk /\ db'.sl = db.sl
      /\ Books(c, TpFields)
  BY Written DEF WriteTp, Write, Types, Rows, Keys
<1>2. Same(tmp[c], db.tp, TpFields \ since[c])
  BY DEF WriteTp, FreshInv
<1>3. Agree(intent', db'.tp, TpFields)
  BY <1>1, <1>2, RowAgrees DEF StickInv
<1>4. Agree(intent', db'.risk, RiskFields) /\ Agree(intent', db'.sl, SlFields)
  BY <1>1, RowsApart, FieldsApart DEF StickInv
<1>5. QED
  BY <1>1, <1>3, <1>4, ClaimsTyped, FieldsApart DEF StickInv

LEMMA StickSl ==
    ASSUME Types, FreshInv, StickInv, NEW c \in Clients, WriteSl(c)
    PROVE  StickInv'
<1>1. /\ db'.sl = Merge(tmp[c], Part(c, SlFields)) /\ db'.risk = db.risk /\ db'.tp = db.tp
      /\ Books(c, SlFields)
  BY Written DEF WriteSl, Write, Types, Rows, Keys
<1>2. Same(tmp[c], db.sl, SlFields \ since[c])
  BY DEF WriteSl, FreshInv
<1>3. Agree(intent', db'.sl, SlFields)
  BY <1>1, <1>2, RowAgrees DEF StickInv
<1>4. Agree(intent', db'.risk, RiskFields) /\ Agree(intent', db'.tp, TpFields)
  BY <1>1, RowsApart, FieldsApart DEF StickInv
<1>5. QED
  BY <1>1, <1>3, <1>4, ClaimsTyped, FieldsApart DEF StickInv

(* The rows that are not merged.                                              *)
LEMMA StickOther ==
    ASSUME Types, StickInv, NEW c \in Clients,
           SetPaused(c) \/ SetModel(c) \/ SetProvider(c) \/ SetLeverage(c) \/ SetCross(c)
    PROVE  StickInv'
<1>1. db'.risk = db.risk /\ db'.tp = db.tp /\ db'.sl = db.sl
  BY Written DEF SetPaused, SetModel, SetProvider, SetLeverage, SetCross, Write, Types, Rows,
     Keys
<1>2. Books(c, {})
  BY DEF SetPaused, SetModel, SetProvider, SetLeverage, SetCross, Write
<1>3. /\ Agree(intent', db'.risk, RiskFields) /\ Agree(intent', db'.tp, TpFields)
      /\ Agree(intent', db'.sl, SlFields)
  BY <1>1, <1>2, RowsApart DEF StickInv
<1>4. QED
  BY <1>2, <1>3, ClaimsTyped DEF StickInv

(* PatchesStick: no request undoes a field it did not mention, unless another   *)
(* request changed that field after it was sent.                              *)
THEOREM PatchesAreKept == Spec => []PatchesStick
<1>1. Init => StickInv
  <2>1. DOMAIN NoPatch = {}
    BY DEF NoPatch
  <2>2. QED
    BY <2>1 DEF Init, StickInv, Agree
<1>2. Types /\ FreshInv /\ StickInv /\ [Next]_vars => StickInv'
  <2> SUFFICES ASSUME Types, FreshInv, StickInv, [Next]_vars PROVE StickInv'
    OBVIOUS
  <2>1. UNCHANGED <<db, intent>> => StickInv'
    BY DEF StickInv, Agree
  <2>2. ASSUME NEW c \in Clients, Handler(c) PROVE StickInv'
    <3>1. CASE CheckRisk(c) \/ ReadRisk(c) \/ ReadTp(c) \/ ReadSl(c)
      BY <2>1, <3>1 DEF CheckRisk, ReadRisk, ReadTp, ReadSl, Read, history
    <3>2. CASE \/ ReadLeverage(c) \/ ReadCross(c) \/ (\E a \in Assets : PushLeverage(c, a))
               \/ ClientUnavailable(c) \/ PushDone(c)
      BY <2>1, <3>2 DEF ReadLeverage, ReadCross, PushLeverage, ClientUnavailable, PushDone,
                        history
    <3>3. QED
      BY <2>2, <3>1, <3>2, StickRisk, StickTp, StickSl, StickOther DEF Handler
  <2>3. ASSUME NEW c \in Clients, NEW r \in Requests[c], Post(c, r) PROVE StickInv'
    BY <2>1, <2>3 DEF Post
  <2>4. CASE CycleReadsModel \/ CycleReadsProvider \/ Restart \/ UNCHANGED vars
    BY <2>1, <2>4 DEF CycleReadsModel, CycleReadsProvider, Restart, vars, history
  <2>5. QED
    BY <2>2, <2>3, <2>4 DEF Next
<1>3. Types /\ StickInv => PatchesStick
  <2> SUFFICES ASSUME Types, StickInv, NEW f \in DOMAIN intent
               PROVE  f \in DOMAIN Stored /\ Stored[f] = intent[f]
    BY DEF PatchesStick
  <2>1. DOMAIN db.risk \subseteq RiskFields /\ DOMAIN db.tp \subseteq TpFields
        /\ DOMAIN db.sl \subseteq SlFields
    BY DEF Types, Rows, RiskPatches
  <2>2. CASE f \in RiskFields
    BY <2>2, MergeAt DEF Stored, StickInv, Agree
  <2>3. CASE f \in SlFields
    BY <2>1, <2>3, MergeAt, FieldsApart DEF Stored, StickInv, Agree
  <2>4. CASE f \in TpFields
    BY <2>1, <2>4, MergeAt, FieldsApart DEF Stored, StickInv, Agree
  <2>5. f \in RiskFields \/ f \in TpFields \/ f \in SlFields
    BY DEF StickInv, PatchFields
  <2>6. QED
    BY <2>2, <2>3, <2>4, <2>5
<1>4. QED
  BY <1>1, <1>2, <1>3, TypesCorrect, RowsFresh, PTL DEF Spec
===============================================================================
