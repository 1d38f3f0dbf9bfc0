----------------------------- MODULE ModelRollout -----------------------------
(***************************************************************************)
(* The way of a tree model from scripts/retrain_tree.py, which archives the   *)
(* one in place and has train_tree.py write the next, over scripts/deploy.sh, *)
(* which copies data/models to the droplet, to the server that loads it when  *)
(* it starts and predicts with it.                                           *)
(*                                                                          *)
(* Three parties act on two files in two places: the operator's retraining   *)
(* and deployment, in two terminals, and systemd restarting the server.  A    *)
(* model is known by the training that made it; 0 is the one in place.        *)
(* A training that computes touches neither file, so, as a bound, it does so  *)
(* while no deployment runs, and the others act before it or after it.       *)
(***************************************************************************)
EXTENDS TreeTraining

CONSTANTS Candles15, Candles1h,  \* config.market_data.candles_15m, candles_1h
          Contexts,              \* the buffers' readings a prediction may have
          MaxTrainings,          \* bound: trainings that get to saving
          MaxDeploys,            \* bound: deployments begun
          None,                  \* no file, no model
          Partial                \* a file that is not written out

ASSUME RolloutAssumption ==
    /\ MaxTrainings \in Nat
    /\ None \notin Nat /\ Partial \notin Nat /\ None # Partial

VARIABLES
    \* data/models of the repository, its archive, data/models of the droplet
    local, archive, droplet,
    \* the server: the model and the metadata it loaded, its last prediction's
    \* features; history: whether the droplet's files were torn when it loaded them
    served, live, servedTorn,
    \* step of the retraining, of the deployment, files the latter has synced
    retrain, deploy, synced,
    \* history: what the rows of each model's training went by; what a deployment
    \* found when it synced its first file; whether the last one that copied
    \* anything copied half, or did not find the same finished pair for both files;
    \* whether a retraining died between the two moves of its archiving.
    \* Bounds: trainings and deployments so far
    models, found, torn, halfMoved, trainings, deploys

files    == <<local, archive, droplet>>
server   == <<served, live, servedTorn>>
scripts  == <<retrain, deploy, synced>>
history  == <<models, found, torn, halfMoved, trainings, deploys>>
vars     == <<training, files, server, scripts, history>>

Kinds == {"pkl", "meta"}

Pair(v) == [pkl |-> v, meta |-> v]

Versions == 0..MaxTrainings

(* The model in place was trained by the same script. *)
FirstRow == BuildFeatures(WarmupBars + 1, WarmupBars \div 4, NoContext)

RolloutInit ==
    /\ Init
    /\ local = Pair(0) /\ droplet = Pair(0)
    /\ archive = [k \in Kinds |-> {}]
    /\ served = Pair(0) /\ live = None /\ servedTorn = FALSE
    /\ retrain = "idle" /\ deploy = "idle" /\ synced = {}
    /\ models = [v \in {0} |-> {FirstRow}]
    /\ found = None /\ torn = FALSE /\ halfMoved = FALSE /\ trainings = 0 /\ deploys = 0

-------------------------------------------------------------------------------
(* scripts/retrain_tree.py, as its documentation runs it: with an archive.    *)

(* Mutant: the archive keeps one model, under one name. *)
MoveOver(k) == archive' = [archive EXCEPT ![k] = {local[k]}]

(* shutil.move under a name with the time in it. *)
Move(k) == archive' = [archive EXCEPT ![k] = @ \cup {local[k]}]

(* _archive: without a pickle in place it returns at once.                    *)
ArchiveModel ==
    /\ retrain = "idle" /\ trainings < MaxTrainings
    /\ IF local.pkl = None
       THEN retrain' = "train" /\ UNCHANGED <<local, archive>>
       ELSE /\ Move("pkl")
            /\ local' = [local EXCEPT !.pkl = None]
            /\ retrain' = "archive"
    /\ UNCHANGED <<training, droplet, server, deploy, synced, history>>

ArchiveMeta ==
    /\ retrain = "archive"
    /\ IF local.meta = None THEN UNCHANGED <<local, archive>>
       ELSE Move("meta") /\ local' = [local EXCEPT !.meta = None]
    /\ retrain' = "train"
    /\ UNCHANGED <<training, droplet, server, deploy, synced, history>>

(* train_tree.py runs up to the final fit.                                    *)
Train ==
    /\ retrain = "train" /\ deploy = "idle"
    /\ Begin \/ Compute
    /\ UNCHANGED <<files, server, scripts, history>>

(* _save_model opens one file after the other and writes it out, whether or   *)
(* not the gate passed.                                                      *)
OpenPickle ==
    /\ step = "fit"
    /\ local' = [local EXCEPT !.pkl = Partial]
    /\ trainings' = trainings + 1
    /\ models' = [v \in 0..trainings' |-> IF v = trainings' THEN reads ELSE models[v]]
    /\ Exit
    /\ retrain' = "pickle"
    /\ UNCHANGED <<archive, droplet, server, deploy, synced, found, torn, halfMoved,
                   deploys>>

Write(from, to, kind, content) ==
    /\ retrain = from
    /\ local' = [local EXCEPT ![kind] = content]
    /\ retrain' = to
    /\ UNCHANGED <<training, archive, droplet, server, deploy, synced, history>>

DumpPickle == Write("pickle", "open", "pkl", trainings)
OpenMeta   == Write("open", "meta", "meta", Partial)
DumpMeta   == Write("meta", "idle", "meta", trainings)

(* The scripts are interrupted together, or one raises; what was moved and     *)
(* written stays.                                                            *)
RetrainDies ==
    /\ retrain # "idle"
    /\ retrain' = "idle"
    /\ halfMoved' = (halfMoved \/ retrain = "archive")
    /\ IF step = "idle" THEN UNCHANGED training ELSE Over
    /\ UNCHANGED <<files, server, deploy, synced, models, found, torn, trainings, deploys>>

-------------------------------------------------------------------------------
(* scripts/deploy.sh.                                                        *)

StartDeploy ==
    /\ step = "idle" /\ deploy = "idle" /\ deploys < MaxDeploys
    /\ deploy' = "sync" /\ synced' = {}
    /\ deploys' = deploys + 1
    /\ UNCHANGED <<training, files, server, retrain, models, found, torn, halfMoved,
                   trainings>>

(* Mutant: pickles are excluded, as the compiled Python files are. *)
CopiedButPickles(k) == k = "meta" /\ local[k] # None

(* rsync copies what is there and deletes nothing. *)
Copied(k) == local[k] # None

(* One file, in any order; it appears under its name when it is complete.     *)
(* Where neither file is in place, nothing is copied, and nothing torn.        *)
Sync(k) ==
    /\ step = "idle" /\ deploy = "sync" /\ k \notin synced
    /\ synced' = synced \cup {k}
    /\ droplet' = IF Copied(k) THEN [droplet EXCEPT ![k] = local[k]] ELSE droplet
    /\ found' = IF synced = {} THEN local ELSE found
    /\ torn' = IF local = Pair(None) /\ found' = local THEN torn
               ELSE ~(synced' = Kinds /\ found' = local /\ local.pkl = local.meta)
    /\ UNCHANGED <<training, local, archive, server, retrain, deploy, models, halfMoved,
                   trainings, deploys>>

(* try_build_predictor. *)
Loaded ==
    IF droplet.pkl \in Versions /\ droplet.meta \in Versions THEN droplet ELSE None

StartServer == served' = Loaded /\ live' = None /\ servedTorn' = torn

(* The restart that ends a deployment, unless it was told not to.             *)
EndDeploy ==
    /\ step = "idle" /\ deploy = "sync" /\ synced = Kinds
    /\ deploy' = "idle" /\ synced' = {} /\ found' = None
    /\ StartServer \/ UNCHANGED server
    /\ UNCHANGED <<training, files, retrain, models, torn, halfMoved, trainings, deploys>>

(* The connection breaks. *)
DeployFails ==
    /\ step = "idle" /\ deploy = "sync"
    /\ deploy' = "idle" /\ synced' = {} /\ found' = None
    /\ UNCHANGED <<training, files, server, retrain, models, torn, halfMoved, trainings,
                   deploys>>

-------------------------------------------------------------------------------
(* The server. *)

(* systemd restarts it. *)
Restart ==
    /\ step = "idle"
    /\ StartServer
    /\ UNCHANGED <<training, files, scripts, history>>

(* predict: the snapshot has as many candles as config.yaml says, and the      *)
(* buffers hold at least the reading just taken.                             *)
Predict ==
    /\ step = "idle" /\ served # None
    /\ \E ctx \in Contexts : live' = BuildFeatures(Candles15, Candles1h, ctx)
    /\ UNCHANGED <<training, files, served, servedTorn, scripts, history>>

RolloutNext ==
    \/ ArchiveModel \/ ArchiveMeta \/ Train \/ OpenPickle \/ DumpPickle \/ OpenMeta
    \/ DumpMeta \/ RetrainDies
    \/ StartDeploy \/ EndDeploy \/ DeployFails \/ \E k \in Kinds : Sync(k)
    \/ Restart \/ Predict

RolloutSpec == RolloutInit /\ [][RolloutNext]_vars

-------------------------------------------------------------------------------
(* Properties. *)

Contents == Versions \cup {None, Partial}

(* The shape of the files and of the scripts' states.                         *)
TypeOK ==
    /\ step \in {"idle", "load", "matrix", "folds", "fit"}
    /\ local \in [Kinds -> Contents] /\ droplet \in [Kinds -> Contents]
    /\ archive \in [Kinds -> SUBSET Contents]
    /\ served \in [Kinds -> Versions] \cup {None}
    /\ retrain \in {"idle", "archive", "train", "pickle", "open", "meta"}
    /\ step # "idle" => retrain = "train"
    /\ deploy \in {"idle", "sync"} /\ synced \subseteq Kinds
    /\ DOMAIN models = 0..trainings /\ trainings \in Versions

(* The server pairs a model with the metadata of another only if a step of a    *)
(* retraining, a death or a broken connection came between the two copies of the  *)
(* last deployment that reached data/models (deploy.sh:58): trainings that run    *)
(* beside a deployment, that move or write before its first copy or after its      *)
(* second, or that die, do no harm, and a deployment that finds one finished pair  *)
(* makes good, from the next start on, whatever torn ones left (tree_model.py:90).  *)
ServedPairMatches == served # None /\ ~servedTorn => served.pkl = served.meta

(* "the previous one is moved to archive ... so rollback is a single mv"       *)
(* (retrain_tree.py:6): both files of what the droplet has are still there    *)
(* in the repository's place or its archive, however many trainings followed  *)
(* or failed, unless one died between the two moves.                         *)
RollbackKept ==
    \A k \in Kinds :
        droplet[k] # Partial /\ ~halfMoved => droplet[k] \in archive[k] \cup {local[k]}

(* "guarantees that training and inference compute features identically"      *)
(* (train_tree.py:46): apart from the two buffers that refill after a restart *)
(* (README.md:628), a prediction has the features its model was trained on.   *)
LiveFeaturesAsTrained ==
    served # None /\ live # None =>
        \A row \in models[served.pkl], f \in FeatureNames \ HistoryFeatures :
            live[f] = row[f]
===============================================================================
