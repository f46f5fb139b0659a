------------------------- MODULE ModelLifecycle_proofs -------------------------
(***************************************************************************)
(* What the registry, the training and the files promise, for every market,  *)
(* every configuration and every bound.                                     *)
(*                                                                         *)
(* RegistryInv: the stage that lets a model run was given to that model by    *)
(* a person.  ModelsLeakFree: labels look into the future of their own symbol *)
(* only, and the split is one of samples in order of time.  KeptWhole: while  *)
(* nothing was cut off, a file of a downloaded window has that window's rows. *)
(***************************************************************************)
EXTENDS ModelLifecycle, Accounting_proofs

(* A manifest with its four fields, of a model that has been trained. *)
IsManifest(manifest) ==
  /\ manifest = [feature_names |-> manifest.feature_names, created_at |-> manifest.created_at,
                 stage |-> manifest.stage, approved_by |-> manifest.approved_by]
  /\ manifest.created_at \in 0..trained

(* A registry holds one model at most, and nothing in it, or on its way into it,
   is of a training still to come. *)
Numbered ==
  /\ trained \in Nat
  /\ registry = [artifact |-> registry.artifact, manifest |-> registry.manifest]
  /\ \A model \in registry.artifact : model.trained_at \in 0..trained
  /\ \A model, other \in registry.artifact : model = other
  /\ \A manifest \in registry.manifest : IsManifest(manifest)
  /\ \A save \in saving : save.model.trained_at \in 0..trained

(* A manifest that says approved, of the model it lies beside, records an
   approval. *)
ApprovalRecorded ==
  \A manifest \in registry.manifest, model \in registry.artifact :
    manifest.stage = "approved" /\ manifest.created_at = model.trained_at
      => model.trained_at \in approved

RegistryInv == Numbered /\ ApprovalRecorded
-----------------------------------------------------------------------------
(* What from_model makes is a manifest of its model, in the stage asked for. *)
LEMMA FromModelFacts ==
  ASSUME NEW model, NEW stage, NEW actor, NEW manifest \in from_model(model, stage, actor)
  PROVE  manifest = [feature_names |-> model.feature_names, created_at |-> model.trained_at,
                     stage |-> stage, approved_by |-> actor]
BY DEF from_model

(* A manifest that a loading goes by is the registry's own, or a legacy one. *)
LEMMA ManifestForModelFacts ==
  ASSUME NEW model \in registry.artifact,
         NEW manifest \in manifest_for_model(registry, model)
  PROVE  \/ manifest \in registry.manifest
         \/ manifest = [feature_names |-> model.feature_names,
                        created_at |-> model.trained_at,
                        stage |-> "legacy", approved_by |-> Nobody]
<1>1. CASE registry.manifest # {}
  BY <1>1 DEF manifest_for_model
<1>2. CASE registry.manifest = {}
  <2>1. manifest \in from_model(model, "legacy", Nobody)
    BY <1>2 DEF manifest_for_model
  <2>2. QED
    BY <2>1, FromModelFacts
<1>3. QED
  BY <1>1, <1>2

(* What a transition writes has the stage asked for, and the number of a model
   that has been trained. *)
LEMMA TransitionFacts ==
  ASSUME Numbered, NEW stage, NEW actor, NEW updated \in transition(registry, stage, actor)
  PROVE  IsManifest(updated) /\ updated.stage = stage
<1>1. PICK model \in load_model(registry) :
        \E manifest \in manifest_for_model(registry, model) :
          updated \in with_stage(manifest, stage, actor)
  BY DEF transition
<1>2. PICK manifest \in manifest_for_model(registry, model) :
        updated \in with_stage(manifest, stage, actor)
  BY <1>1
<1>3. model \in registry.artifact
  BY DEF load_model
<1>4. IsManifest(manifest)
  <2>1. CASE manifest \in registry.manifest
    BY <2>1 DEF Numbered
  <2>2. CASE manifest = [feature_names |-> model.feature_names,
                         created_at |-> model.trained_at,
                         stage |-> "legacy", approved_by |-> Nobody]
    <3>1. model.trained_at \in 0..trained
      BY <1>3 DEF Numbered
    <3>2. QED
      BY <2>2, <3>1 DEF IsManifest
  <2>3. QED
    BY <1>2, <1>3, <2>1, <2>2, ManifestForModelFacts
<1>5. updated = [manifest EXCEPT !.stage = stage,
                                 !.approved_by = IF stage = "approved" THEN actor ELSE @]
  BY <1>2 DEF with_stage
<1>6. updated = [feature_names |-> manifest.feature_names, created_at |-> manifest.created_at,
                 stage |-> stage,
                 approved_by |-> IF stage = "approved" THEN actor ELSE manifest.approved_by]
  BY <1>4, <1>5 DEF IsManifest
<1>7. manifest.created_at \in 0..trained
  BY <1>4 DEF IsManifest
<1>8. QED
  BY <1>6, <1>7 DEF IsManifest
-----------------------------------------------------------------------------
LEMMA RegistryInvInit == Init => RegistryInv
BY DEF Init, RegistryInv, Numbered, ApprovalRecorded, EmptyRegistry

(* The steps that leave the registry and its trainings alone. *)
LEMMA RegistryInvStutter ==
  ASSUME RegistryInv, UNCHANGED registryVars
  PROVE  RegistryInv'
BY DEF RegistryInv, Numbered, ApprovalRecorded, IsManifest, registryVars

(* A training writes a model newer than the manifest that lies there. *)
LEMMA RegistryInvTrain ==
  ASSUME RegistryInv, Train
  PROVE  RegistryInv'
<1>1. PICK model, stage, actor :
        /\ model.trained_at = trained + 1
        /\ registry' = write_artifact(registry, model)
        /\ saving' = {[model |-> model, stage |-> stage, approved_by |-> actor]}
  <2>1. PICK config \in setup.trainings, bars \in provider_bars(files) :
          \E split \in train_directional_pipeline(
                         filter_bars(bars, config.symbols, config.window), config) :
            LET model == [trained_at |-> trained + 1,
                          feature_names |-> feature_names(config.specs), split |-> split]
            IN  /\ registry' = write_artifact(registry, model)
                /\ saving' = {[model |-> model, stage |-> config.stage,
                               approved_by |-> config.approved_by]}
    BY DEF Train
  <2>2. QED
    BY <2>1
<1>2. trained \in Nat /\ trained' = trained + 1
  BY DEF Train, RegistryInv, Numbered
<1>3. registry' = [artifact |-> {model}, manifest |-> registry.manifest]
  BY <1>1 DEF write_artifact, RegistryInv, Numbered
<1>4. \A manifest \in registry'.manifest :
        IsManifest(manifest)' /\ manifest.created_at # model.trained_at
  BY <1>1, <1>2, <1>3 DEF RegistryInv, Numbered, IsManifest
<1>5. Numbered'
  <2>1. model.trained_at \in 0..trained'
    BY <1>1, <1>2
  <2>2. QED
    BY <1>1, <1>2, <1>3, <1>4, <2>1 DEF Numbered
<1>6. ApprovalRecorded'
  BY <1>3, <1>4 DEF ApprovalRecorded
<1>7. QED
  BY <1>5, <1>6 DEF RegistryInv

(* A manifest that is written in the stage approved names a person, and the
   approval is that of its model. *)
LEMMA RegistryInvSaveManifest ==
  ASSUME RegistryInv, SaveManifest
  PROVE  RegistryInv'
<1>1. PICK save \in saving :
        LET manifests == from_model(save.model, save.stage, save.approved_by)
        IN  /\ IF manifests = {} THEN UNCHANGED <<registry, approved>>
               ELSE /\ \E manifest \in manifests : registry' = save_manifest(registry, manifest)
                    /\ approved' = approved \cup {t \in {save.model.trained_at} :
                                                    save.stage = "approved"}
            /\ saving' = {}
            /\ UNCHANGED <<setup, storeVars, trained, loaded>>
  BY DEF SaveManifest
<1>2. saving' = {} /\ trained' = trained
  BY <1>1
<1>3. CASE from_model(save.model, save.stage, save.approved_by) = {}
  <2>1. registry' = registry /\ approved' = approved
    BY <1>1, <1>3
  <2>2. QED
    BY <1>2, <2>1 DEF RegistryInv, Numbered, ApprovalRecorded, IsManifest
<1>4. CASE from_model(save.model, save.stage, save.approved_by) # {}
  <2>1. PICK manifest \in from_model(save.model, save.stage, save.approved_by) :
          registry' = save_manifest(registry, manifest)
    BY <1>1, <1>4
  <2>2. approved' = approved \cup {t \in {save.model.trained_at} : save.stage = "approved"}
    BY <1>1, <1>4
  <2>3. manifest = [feature_names |-> save.model.feature_names,
                    created_at |-> save.model.trained_at,
                    stage |-> save.stage, approved_by |-> save.approved_by]
    BY <2>1, FromModelFacts
  <2>4. registry' = [artifact |-> registry.artifact, manifest |-> {manifest}]
    BY <2>1 DEF save_manifest, RegistryInv, Numbered
  <2>5. save.model.trained_at \in 0..trained
    BY <1>1 DEF RegistryInv, Numbered
  <2>6. IsManifest(manifest)'
    BY <1>2, <2>3, <2>5 DEF IsManifest
  <2>7. Numbered'
    BY <1>2, <2>4, <2>6 DEF RegistryInv, Numbered
  <2>8. ApprovalRecorded'
    BY <2>2, <2>3, <2>4 DEF ApprovalRecorded
  <2>9. QED
    BY <2>7, <2>8 DEF RegistryInv
<1>5. QED
  BY <1>3, <1>4

(* A stage and the approval it stands for move together. *)
LEMMA RegistryInvTransition ==
  ASSUME RegistryInv, Transition
  PROVE  RegistryInv'
<1>1. PICK stage \in Stages, actor \in setup.actors :
        \E manifest \in transition(registry, stage, actor), model \in registry.artifact :
          /\ registry' = save_manifest(registry, manifest)
          /\ approved' = IF stage = "approved" THEN approved \cup {model.trained_at}
                         ELSE approved \ {model.trained_at}
          /\ UNCHANGED <<setup, storeVars, saving, trained, loaded>>
  BY DEF Transition
<1>2. PICK manifest \in transition(registry, stage, actor), model \in registry.artifact :
        /\ registry' = save_manifest(registry, manifest)
        /\ approved' = IF stage = "approved" THEN approved \cup {model.trained_at}
                       ELSE approved \ {model.trained_at}
        /\ UNCHANGED <<setup, storeVars, saving, trained, loaded>>
  BY <1>1
<1>3. trained' = trained /\ saving' = saving
  BY <1>2
<1>4. IsManifest(manifest) /\ manifest.stage = stage
  BY <1>2, TransitionFacts DEF RegistryInv
<1>5. registry' = [artifact |-> registry.artifact, manifest |-> {manifest}]
  BY <1>2 DEF save_manifest, RegistryInv, Numbered
<1>6. Numbered'
  BY <1>3, <1>4, <1>5 DEF RegistryInv, Numbered, IsManifest
<1>7. ApprovalRecorded'
  <2>1. SUFFICES ASSUME stage = "approved",
                        NEW other \in registry.artifact, manifest.created_at = other.trained_at
                 PROVE  other.trained_at \in approved'
    BY <1>4, <1>5 DEF ApprovalRecorded
  <2>2. other = model
    BY DEF RegistryInv, Numbered
  <2>3. QED
    BY <1>2, <2>1, <2>2
<1>8. QED
  BY <1>6, <1>7 DEF RegistryInv

LEMMA RegistryInvNext == RegistryInv /\ [Next]_vars => RegistryInv'
<1>1. SUFFICES ASSUME RegistryInv, [Next]_vars
               PROVE  RegistryInv'
  OBVIOUS
<1>2. CASE Train
  BY <1>1, <1>2, RegistryInvTrain
<1>3. CASE SaveManifest
  BY <1>1, <1>3, RegistryInvSaveManifest
<1>4. CASE Transition
  BY <1>1, <1>4, RegistryInvTransition
<1>5. CASE CrashTraining
  BY <1>1, <1>5 DEF CrashTraining, RegistryInv, Numbered, ApprovalRecorded, IsManifest
<1>6. CASE \/ StartDownload \/ ReceivePage \/ OpenFile \/ CloseFile
           \/ FinishDownload \/ StopDownload \/ Load \/ Unload
  <2>1. UNCHANGED registryVars
    BY <1>6 DEF StartDownload, ReceivePage, OpenFile, CloseFile, FinishDownload,
                StopDownload, Load, Unload, registryVars
  <2>2. QED
    BY <1>1, <2>1, RegistryInvStutter
<1>7. CASE UNCHANGED vars
  <2>1. UNCHANGED registryVars
    BY <1>7 DEF vars, registryVars
  <2>2. QED
    BY <1>1, <2>1, RegistryInvStutter
<1>8. QED
  BY <1>1, <1>2, <1>3, <1>4, <1>5, <1>6, <1>7 DEF Next

(* In every reachable state an approved manifest that belongs to the model
   beside it stands for a person's approval of that model (registry.py:
   save_model, transition_model_stage). *)
THEOREM ApprovalsAreRecorded == Spec => []RegistryInv
<1>1. Init => RegistryInv
  BY RegistryInvInit
<1>2. RegistryInv /\ [Next]_vars => RegistryInv'
  BY RegistryInvNext
<1>3. QED
  BY <1>1, <1>2, PTL DEF Spec
-----------------------------------------------------------------------------
(* Only a loading adds to what is loaded. *)
LEMMA OnlyLoadLoads ==
  ASSUME [Next]_vars, ~Load
  PROVE  loaded' \subseteq loaded
<1>1. CASE Unload
  BY <1>1 DEF Unload
<1>2. CASE Transition
  BY <1>2 DEF Transition
<1>3. CASE SaveManifest
  BY <1>3 DEF SaveManifest
<1>4. CASE \/ StartDownload \/ ReceivePage \/ OpenFile \/ CloseFile
           \/ FinishDownload \/ StopDownload \/ Train \/ CrashTraining
  BY <1>4 DEF StartDownload, ReceivePage, OpenFile, CloseFile, FinishDownload,
              StopDownload, Train, CrashTraining
<1>5. CASE UNCHANGED vars
  BY <1>5 DEF vars
<1>6. QED
  BY <1>1, <1>2, <1>3, <1>4, <1>5 DEF Next

(* What a policy that requires approval lets in: the manifest is the registry's,
   for a legacy one does not say approved. *)
LEMMA LoadedByRegistry ==
  ASSUME NEW policy, NEW run \in inference_load(registry, policy),
         run.policy.require_approved_model
  PROVE  /\ run.model \in registry.artifact
         /\ run.manifest \in registry.manifest
         /\ run.manifest.stage = "approved"
<1>1. PICK model \in load_model(registry), other \in load_model(registry) :
        \E manifest \in manifest_for_model(registry, other) :
          /\ StageAllowed(manifest, policy)
          /\ run = [model |-> model, manifest |-> manifest, policy |-> policy]
  BY DEF inference_load
<1>2. PICK manifest \in manifest_for_model(registry, other) :
        /\ StageAllowed(manifest, policy)
        /\ run = [model |-> model, manifest |-> manifest, policy |-> policy]
  BY <1>1
<1>3. model \in registry.artifact /\ other \in registry.artifact
  BY DEF load_model
<1>4. run.model = model /\ run.manifest = manifest /\ run.policy = policy
  BY <1>2
<1>5. manifest.stage = "approved"
  BY <1>2, <1>4 DEF StageAllowed
<1>6. manifest \in registry.manifest
  BY <1>2, <1>3, <1>5, ManifestForModelFacts
<1>7. QED
  BY <1>3, <1>4, <1>5, <1>6

(* A runtime that insists on an approved model gets one a person approved, for
   the manifest it went by is that model's own (inference.py: load_model with
   _validate_stage_policy). *)
THEOREM ModelsAreApproved == Spec => ApprovedIsLoaded
<1>1. RegistryInv /\ [Next]_vars =>
        [\A run \in loaded' \ loaded :
           run.policy.require_approved_model /\ run.manifest.created_at = run.model.trained_at
             => run.model.trained_at \in approved]_vars
  <2>1. SUFFICES ASSUME RegistryInv, [Next]_vars, NEW run \in loaded' \ loaded,
                        run.policy.require_approved_model,
                        run.manifest.created_at = run.model.trained_at
                 PROVE  run.model.trained_at \in approved
    OBVIOUS
  <2>2. Load
    BY <2>1, OnlyLoadLoads
  <2>3. PICK policy \in setup.policies : loaded' = inference_load(registry, policy)
    BY <2>2 DEF Load
  <2>4. run \in inference_load(registry, policy)
    BY <2>1, <2>3
  <2>5. /\ run.model \in registry.artifact
        /\ run.manifest \in registry.manifest
        /\ run.manifest.stage = "approved"
    BY <2>1, <2>4, LoadedByRegistry
  <2>6. QED
    BY <2>1, <2>5 DEF RegistryInv, ApprovalRecorded
<1>2. QED
  BY <1>1, ApprovalsAreRecorded, PTL DEF Spec, ApprovedIsLoaded
-----------------------------------------------------------------------------
(* The bars the vendor has, and lists of them that name none twice. *)
Bars == Range(Market)

BarLists == {rows \in Seq(Bars) : \A i, j \in DOMAIN rows : rows[i] = rows[j] => i = j}

(* The bars of a list, or of any other function. *)
Held(rows) == {rows[i] : i \in DOMAIN rows}

LEMMA RankFacts ==
  ASSUME NEW s \in Range(Listing), NEW t \in Range(Listing)
  PROVE  Rank(s) \in Nat /\ (Rank(s) = Rank(t) => s = t)
<1>1. Listing \in Seq(Range(Listing))
  BY LifecycleAssumption DEF MarketAssumption
<1>2. DOMAIN Listing \subseteq Nat
  BY <1>1
<1>3. \A x \in Range(Listing) : Rank(x) \in DOMAIN Listing /\ Listing[Rank(x)] = x
  BY DEF Rank, Range
<1>4. QED
  BY <1>2, <1>3

(* What is known of a bar; its key tells it from the others. *)
LEMMA BarFacts ==
  ASSUME NEW x \in Bars
  PROVE  /\ x.symbol \in Range(Listing) /\ x.timestamp \in Nat
         /\ SortKey(x) \in Int \X Int
         /\ \A y \in Bars : SortKey(x) = SortKey(y) => x = y
         /\ \A y \in Bars : x.symbol = y.symbol /\ x.timestamp = y.timestamp => x = y
<1>1. \A b \in Bars : b.symbol \in Range(Listing) /\ b.timestamp \in Nat
  BY LifecycleAssumption DEF MarketAssumption, Bars
<1>2. \A b, y \in Bars : b.symbol = y.symbol /\ b.timestamp = y.timestamp => b = y
  BY LifecycleAssumption DEF MarketAssumption, Bars, Range
<1>3. \A b \in Bars : Rank(b.symbol) \in Nat
  BY <1>1, RankFacts
<1>4. ASSUME NEW y \in Bars, SortKey(x) = SortKey(y)
      PROVE  x = y
  <2>1. x.timestamp = y.timestamp /\ Rank(x.symbol) = Rank(y.symbol)
    BY <1>4 DEF SortKey
  <2>2. x.symbol = y.symbol
    BY <1>1, <2>1, RankFacts
  <2>3. QED
    BY <1>2, <2>1, <2>2
<1>5. QED
  BY <1>1, <1>2, <1>3, <1>4 DEF SortKey

(* Sorting bars by any key that tells them apart lists them without repetition. *)
LEMMA SortedBars ==
  ASSUME NEW rows, IsFiniteSet(DOMAIN rows), NEW key \in [DOMAIN rows -> Int \X Int],
         \A i \in DOMAIN rows : rows[i] \in Bars,
         \A i, j \in DOMAIN rows : rows[i] = rows[j] \/ key[i] = key[j] => i = j
  PROVE  /\ SortedBy(rows, key) \in BarLists
         /\ Held(SortedBy(rows, key)) = Held(rows)
<1>1. PICK n \in Nat : \E at \in [1..n -> DOMAIN rows] :
        /\ n = Cardinality(DOMAIN rows)
        /\ SortedBy(rows, key) = [k \in 1..n |-> rows[at[k]]]
        /\ \A k, l \in 1..n : k < l => Precedes(key[at[k]], key[at[l]])
        /\ \A i \in DOMAIN rows : \E k \in 1..n : at[k] = i
  <2>1. \A i, j \in DOMAIN rows : key[i] = key[j] => i = j
    OBVIOUS
  <2>2. QED
    BY SMTT(20), ZenonT(40), <2>1, SortedByFacts
<1> DEFINE list == SortedBy(rows, key)
<1>2. PICK at \in [1..n -> DOMAIN rows] :
        /\ list = [k \in 1..n |-> rows[at[k]]]
        /\ \A k, l \in 1..n : k < l => Precedes(key[at[k]], key[at[l]])
        /\ \A i \in DOMAIN rows : \E k \in 1..n : at[k] = i
  BY <1>1
<1>3. list \in Seq(Bars) /\ DOMAIN list = 1..n
  <2> HIDE DEF list
  <2>1. QED
    BY <1>2
<1>4. ASSUME NEW k \in 1..n, NEW l \in 1..n, list[k] = list[l]
      PROVE  k = l
  <2>1. at[k] = at[l]
    BY <1>2, <1>4
  <2>2. ~Precedes(key[at[k]], key[at[k]])
    <3>1. key[at[k]][1] \in Int /\ key[at[k]][2] \in Int
      BY <1>2
    <3>2. QED
      BY <3>1 DEF Precedes
  <2>3. ~(k < l) /\ ~(l < k)
    BY <1>2, <2>1, <2>2
  <2>4. k \in Int /\ l \in Int
    BY <1>1
  <2>5. QED
    BY <2>3, <2>4
<1>5. Held(list) = Held(rows)
  <2>1. \A k \in 1..n : list[k] = rows[at[k]] /\ at[k] \in DOMAIN rows
    BY <1>2
  <2>2. \A i \in DOMAIN rows : \E k \in 1..n : list[k] = rows[i]
    BY <1>2, <2>1
  <2> HIDE DEF list
  <2>3. Held(list) \subseteq Held(rows)
    BY <1>3, <2>1 DEF Held
  <2>4. Held(rows) \subseteq Held(list)
    <3>1. SUFFICES ASSUME NEW i \in DOMAIN rows
                   PROVE  rows[i] \in Held(list)
      BY DEF Held
    <3>2. PICK k \in 1..n : list[k] = rows[i]
      BY <2>2
    <3>3. QED
      BY <1>3, <3>2 DEF Held
  <2>5. QED
    BY <2>3, <2>4
<1>6. list \in BarLists
  <2> HIDE DEF list
  <2>1. QED
    BY <1>3, <1>4 DEF BarLists
<1>7. QED
  BY <1>5, <1>6

(* A list of bars sorted by time and symbol. *)
LEMMA SortedFacts ==
  ASSUME NEW rows, IsFiniteSet(DOMAIN rows), \A i \in DOMAIN rows : rows[i] \in Bars,
         \A i, j \in DOMAIN rows : rows[i] = rows[j] => i = j
  PROVE  /\ Sorted(rows) \in BarLists
         /\ Held(Sorted(rows)) = Held(rows)
         /\ \A k, l \in DOMAIN Sorted(rows) :
              k < l => Precedes(SortKey(Sorted(rows)[k]), SortKey(Sorted(rows)[l]))
<1>1. PICK key \in [DOMAIN rows -> Int \X Int] :
        \A i \in DOMAIN rows : key[i] = SortKey(rows[i])
  <2>1. [i \in DOMAIN rows |-> SortKey(rows[i])] \in [DOMAIN rows -> Int \X Int]
    BY BarFacts
  <2>2. QED
    BY <2>1
<1>2. \A i, j \in DOMAIN rows : key[i] = key[j] => i = j
  BY <1>1, BarFacts
<1>3. Sorted(rows) = SortedBy(rows, key)
  <2>1. key = [i \in DOMAIN rows |-> SortKey(rows[i])]
    BY <1>1
  <2>2. QED
    BY <2>1 DEF Sorted
<1>4. PICK n \in Nat : \E at \in [1..n -> DOMAIN rows] :
        /\ n = Cardinality(DOMAIN rows)
        /\ SortedBy(rows, key) = [k \in 1..n |-> rows[at[k]]]
        /\ \A k, l \in 1..n : k < l => Precedes(key[at[k]], key[at[l]])
        /\ \A i \in DOMAIN rows : \E k \in 1..n : at[k] = i
  BY <1>2, SortedByFacts, ZenonT(60)
<1>5. PICK at \in [1..n -> DOMAIN rows] :
        /\ SortedBy(rows, key) = [k \in 1..n |-> rows[at[k]]]
        /\ \A k, l \in 1..n : k < l => Precedes(key[at[k]], key[at[l]])
  BY <1>4
<1>6. \A k, l \in DOMAIN Sorted(rows) :
        k < l => Precedes(SortKey(Sorted(rows)[k]), SortKey(Sorted(rows)[l]))
  <2>1. \A k \in 1..n : SortKey(rows[at[k]]) = key[at[k]]
    BY <1>1, <1>5
  <2>2. QED
    BY <1>3, <1>5, <2>1
<1>7. SortedBy(rows, key) \in BarLists /\ Held(SortedBy(rows, key)) = Held(rows)
  <2>1. \A i, j \in DOMAIN rows : rows[i] = rows[j] \/ key[i] = key[j] => i = j
    BY <1>2
  <2>2. QED
    BY <2>1, SortedBars
<1>8. QED
  BY <1>3, <1>6, <1>7

(* What a filter keeps. *)
LEMMA WhereFacts ==
  ASSUME NEW rows \in BarLists, NEW places \in SUBSET DOMAIN rows
  PROVE  /\ Where(rows, places) \in BarLists
         /\ Held(Where(rows, places)) = {rows[i] : i \in places}
<1> DEFINE kept == [i \in places |-> rows[i]]
           key == [i \in places |-> <<i, 0>>]
<1>1. rows \in Seq(Bars) /\ DOMAIN rows = 1..Len(rows) /\ Len(rows) \in Nat
  BY DEF BarLists
<1>2. IsFiniteSet(places)
  <2>1. IsFiniteSet(1..Len(rows))
    BY <1>1, FS_Interval
  <2>2. QED
    BY <1>1, <2>1, FS_Subset
<1>3. \A i \in places : i \in Int /\ rows[i] \in Bars
  BY <1>1
<1>4. \A i, j \in places : rows[i] = rows[j] => i = j
  BY DEF BarLists
<1>5. DOMAIN kept = places /\ key \in [DOMAIN kept -> Int \X Int]
  BY <1>3
<1>6. \A i, j \in DOMAIN kept : kept[i] = kept[j] \/ key[i] = key[j] => i = j
  BY <1>4
<1>7. \A i \in DOMAIN kept : kept[i] \in Bars
  BY <1>3
<1>8. Held(kept) = {rows[i] : i \in places}
  BY DEF Held
<1>9. SortedBy(kept, key) \in BarLists /\ Held(SortedBy(kept, key)) = Held(kept)
  <2> HIDE DEF kept, key
  <2>1. QED
    BY <1>2, <1>5, <1>6, <1>7, SortedBars
<1>10. QED
  BY <1>8, <1>9 DEF Where
-----------------------------------------------------------------------------
LEMMA ImageIsFinite ==
  ASSUME NEW S, IsFiniteSet(S), NEW f, DOMAIN f = S
  PROVE  IsFiniteSet({f[x] : x \in S})
<1> DEFINE T == {f[x] : x \in S}
<1>1. PICK g \in [S -> T] : \A x \in S : g[x] = f[x]
  <2>1. [x \in S |-> f[x]] \in [S -> T]
    OBVIOUS
  <2>2. QED
    BY <2>1
<1>2. g \in Surjection(S, T)
  BY <1>1 DEF Surjection
<1>3. QED
  BY <1>2, FS_Surjection

(* A finite set of numbers has a greatest member, and a least one. *)
LEMMA Extremes ==
  ASSUME NEW S, S \subseteq Nat, IsFiniteSet(S), S # {}
  PROVE  /\ Max(S) \in S /\ \A y \in S : Max(S) >= y
         /\ Min(S) \in S /\ \A y \in S : Min(S) <= y
<1> DEFINE C == {T \in SUBSET S : T = {} \/ \E x \in T : \A y \in T : x >= y}
<1>1. {} \in C
  OBVIOUS
<1>2. ASSUME NEW T \in SUBSET S, NEW z \in S \ T, T \in C
      PROVE  T \cup {z} \in C
  <2>1. CASE T = {}
    <3>1. T \cup {z} = {z} /\ z >= z
      BY <2>1
    <3>2. QED
      BY <3>1
  <2>2. CASE \E x \in T : \A y \in T : x >= y
    <3>1. PICK x \in T : \A y \in T : x >= y
      BY <2>2
    <3>2. x \in Nat /\ z \in Nat /\ \A y \in T : y \in Nat
      OBVIOUS
    <3>3. CASE x >= z
      <4>1. \A y \in T \cup {z} : x >= y
        BY <3>1, <3>3
      <4>2. QED
        BY <4>1
    <3>4. CASE ~(x >= z)
      <4>1. \A y \in T \cup {z} : z >= y
        BY <3>1, <3>2, <3>4
      <4>2. QED
        BY <4>1
    <3>5. QED
      BY <3>3, <3>4
  <2>3. QED
    BY <1>2, <2>1, <2>2
<1>3. S \in C
  <2> HIDE DEF C
  <2>1. QED
    BY <1>1, <1>2, SubsetInduction
<1>4. \E x \in S : \A y \in S : x >= y
  BY <1>3
<1>5. \E x \in S : \A y \in S : x <= y
  <2>1. PICK x \in S : \A y \in S : ~(y < x)
    BY LeastElement
  <2>2. \A y \in S : x <= y
    BY <2>1
  <2>3. QED
    BY <2>2
<1>6. QED
  BY <1>4, <1>5 DEF Max, Min
-----------------------------------------------------------------------------
(* What a provider makes of the files, with its local definitions named. *)
Content(name) == CHOOSE rows \in files[name] : TRUE

Places == UNION {{name} \X DOMAIN Content(name) : name \in DOMAIN files}

Read == [place \in Places |-> Content(place[1])[place[2]]]

NoneTwice ==
  \A p, q \in Places :
    Read[p].symbol = Read[q].symbol /\ Read[p].timestamp = Read[q].timestamp => p = q

LEMMA ProviderReads ==
  provider_bars(files) =
    IF files = <<>> \/ (\E name \in DOMAIN files : files[name] = {}) \/ ~NoneTwice THEN {}
    ELSE {Sorted(Read)}
BY DEF provider_bars, Content, Places, Read, NoneTwice

(* There are finitely many files, and each holds a list of the vendor's bars. *)
FilesTyped ==
  /\ IsFiniteSet(DOMAIN files)
  /\ \A name \in DOMAIN files : \A rows \in files[name] : rows \in BarLists

LEMMA PlacesFacts ==
  ASSUME FilesTyped, \A name \in DOMAIN files : files[name] # {}
  PROVE  /\ IsFiniteSet(Places) /\ DOMAIN Read = Places
         /\ \A p \in Places : Read[p] \in Bars
         /\ \A name \in DOMAIN files : Content(name) \in files[name] /\ Content(name) \in BarLists
         /\ Held(Read) = UNION {Held(Content(name)) : name \in DOMAIN files}
<1>1. \A name \in DOMAIN files : Content(name) \in files[name] /\ Content(name) \in BarLists
  BY DEF FilesTyped, Content
<1>2. \A name \in DOMAIN files :
        /\ Content(name) \in Seq(Bars)
        /\ DOMAIN Content(name) = 1..Len(Content(name)) /\ Len(Content(name)) \in Nat
  BY <1>1 DEF BarLists
<1>3. IsFiniteSet(Places)
  <2> DEFINE f == [name \in DOMAIN files |-> {name} \X DOMAIN Content(name)]
             parts == {f[name] : name \in DOMAIN files}
  <2>1. \A name \in DOMAIN files : IsFiniteSet(f[name])
    <3>1. TAKE name \in DOMAIN files
    <3>2. IsFiniteSet(DOMAIN Content(name))
      BY <1>2, FS_Interval
    <3>3. IsFiniteSet({name} \X DOMAIN Content(name))
      BY <3>2, FS_Singleton, FS_Product
    <3>4. QED
      BY <3>3
  <2>2. IsFiniteSet(parts)
    <3>1. DOMAIN f = DOMAIN files /\ IsFiniteSet(DOMAIN files)
      BY DEF FilesTyped
    <3> HIDE DEF f
    <3>2. QED
      BY <3>1, ImageIsFinite
  <2>3. Places = UNION parts
    BY DEF Places
  <2>4. \A T \in parts : IsFiniteSet(T)
    BY <2>1
  <2> HIDE DEF parts
  <2>5. QED
    BY <2>2, <2>3, <2>4, FS_UNION
<1>4. \A p \in Places : p[1] \in DOMAIN files /\ p[2] \in DOMAIN Content(p[1])
  BY DEF Places
<1>5. \A p \in Places : Read[p] = Content(p[1])[p[2]] /\ Read[p] \in Bars
  BY <1>2, <1>4 DEF Read
<1>6. DOMAIN Read = Places
  BY DEF Read
<1>7. Held(Read) = UNION {Held(Content(name)) : name \in DOMAIN files}
  <2>1. ASSUME NEW bar \in Held(Read)
        PROVE  bar \in UNION {Held(Content(name)) : name \in DOMAIN files}
    <3>1. PICK p \in Places : bar = Read[p]
      BY <1>6 DEF Held
    <3>2. bar \in Held(Content(p[1]))
      BY <1>4, <1>5, <3>1 DEF Held
    <3>3. QED
      BY <1>4, <3>2
  <2>2. ASSUME NEW name \in DOMAIN files, NEW bar \in Held(Content(name))
        PROVE  bar \in Held(Read)
    <3>1. PICK i \in DOMAIN Content(name) : bar = Content(name)[i]
      BY <2>2 DEF Held
    <3>2. <<name, i>> \in Places
      BY DEF Places
    <3>3. Read[<<name, i>>] = bar
      BY <1>5, <3>1, <3>2
    <3>4. QED
      BY <1>6, <3>2, <3>3 DEF Held
  <2>3. QED
    BY <2>1, <2>2
<1>8. QED
  BY <1>1, <1>3, <1>5, <1>6, <1>7

(* The bars a provider returns: those of all the files. *)
LEMMA ProviderFacts ==
  ASSUME FilesTyped, NEW bars \in provider_bars(files)
  PROVE  /\ bars \in BarLists
         /\ Held(bars) = UNION {Held(Content(name)) : name \in DOMAIN files}
<1>1. /\ \A name \in DOMAIN files : files[name] # {}
      /\ NoneTwice
      /\ bars = Sorted(Read)
  BY ProviderReads
<1>2. /\ IsFiniteSet(DOMAIN Read)
      /\ \A p \in DOMAIN Read : Read[p] \in Bars
      /\ DOMAIN Read = Places
      /\ Held(Read) = UNION {Held(Content(name)) : name \in DOMAIN files}
  BY <1>1, PlacesFacts
<1>3. \A p, q \in DOMAIN Read : Read[p] = Read[q] => p = q
  BY <1>1, <1>2 DEF NoneTwice
<1>4. Sorted(Read) \in BarLists /\ Held(Sorted(Read)) = Held(Read)
  BY <1>2, <1>3, SortedFacts
<1>5. QED
  BY <1>1, <1>2, <1>4
-----------------------------------------------------------------------------
LEMMA FilteredFacts ==
  ASSUME NEW bars \in BarLists, NEW symbols, NEW window
  PROVE  filter_bars(bars, symbols, window) \in BarLists
<1>1. {i \in DOMAIN bars : bars[i].symbol \in symbols /\ In(bars[i], window)} \in SUBSET DOMAIN bars
  OBVIOUS
<1>2. QED
  BY <1>1, WhereFacts DEF filter_bars

(* The series of a symbol: its bars, from the earliest to the latest. *)
LEMMA SeriesFacts ==
  ASSUME NEW bars \in BarLists, NEW symbol
  PROVE  LET own == Sorted(BarsOf(bars, symbol))
         IN  /\ own \in BarLists
             /\ \A i \in DOMAIN own : own[i].symbol = symbol
             /\ \A i, j \in DOMAIN own : i < j => own[i].timestamp < own[j].timestamp
<1> DEFINE kept == BarsOf(bars, symbol)
           own == Sorted(kept)
<1>1. kept \in BarLists /\ Held(kept) = {bars[i] : i \in {j \in DOMAIN bars : bars[j].symbol = symbol}}
  <2>1. {i \in DOMAIN bars : bars[i].symbol = symbol} \in SUBSET DOMAIN bars
    OBVIOUS
  <2>2. QED
    BY <2>1, WhereFacts DEF BarsOf
<1>2. /\ IsFiniteSet(DOMAIN kept)
      /\ \A i \in DOMAIN kept : kept[i] \in Bars
      /\ \A i, j \in DOMAIN kept : kept[i] = kept[j] => i = j
  <2> HIDE DEF kept
  <2>1. kept \in Seq(Bars) /\ DOMAIN kept = 1..Len(kept) /\ Len(kept) \in Nat
    BY <1>1 DEF BarLists
  <2>2. IsFiniteSet(DOMAIN kept)
    BY <2>1, FS_Interval
  <2>3. QED
    BY <1>1, <2>1, <2>2 DEF BarLists
<1>3. /\ own \in BarLists /\ Held(own) = Held(kept)
      /\ \A i, j \in DOMAIN own : i < j => Precedes(SortKey(own[i]), SortKey(own[j]))
  <2> HIDE DEF kept
  <2>1. QED
    BY <1>2, SortedFacts
<1>4. \A i \in DOMAIN own : own[i].symbol = symbol
  <2> HIDE DEF own
  <2>1. \A i \in DOMAIN own : own[i] \in Held(own)
    BY DEF Held
  <2>2. QED
    BY <1>1, <1>3, <2>1
<1>5. ASSUME NEW i \in DOMAIN own, NEW j \in DOMAIN own, i < j
      PROVE  own[i].timestamp < own[j].timestamp
  <2> HIDE DEF own
  <2>1. own[i] \in Bars /\ own[j] \in Bars
    BY <1>3 DEF BarLists
  <2>2. Precedes(SortKey(own[i]), SortKey(own[j]))
    BY <1>3, <1>5
  <2>3. Rank(own[i].symbol) = Rank(own[j].symbol) /\ Rank(own[i].symbol) \in Nat
    BY <1>4, <2>1, BarFacts, RankFacts
  <2>4. QED
    BY <2>2, <2>3 DEF Precedes, SortKey
<1>6. QED
  <2> HIDE DEF own
  <2>1. QED
    BY <1>3, <1>4, <1>5 DEF own, kept

(* A labelled sample, and a data set: finite, its samples told apart by symbol
   and time. *)
IsSample(sample) ==
  sample.symbol \in Range(Listing) /\ sample.timestamp \in Nat /\ sample.label_end \in Nat

IsDataset(samples) ==
  /\ IsFiniteSet(samples)
  /\ \A sample \in samples : IsSample(sample)
  /\ \A s, t \in samples : s.symbol = t.symbol /\ s.timestamp = t.timestamp => s = t

(* The trainings of the configurations. *)
IsTraining(config) ==
  /\ config.horizon_bars \in Nat \ {0} /\ config.embargo_bars \in Nat
  /\ config.train_fraction \in Nat /\ config.validation_fraction \in Nat
  /\ config.test_fraction \in Nat
  /\ config.train_fraction + config.validation_fraction + config.test_fraction > 0

LEMMA LabelFacts ==
  ASSUME NEW bars \in BarLists, NEW symbol, NEW config, IsTraining(config)
  PROVE  LET own == Sorted(BarsOf(bars, symbol))
             labels == build_forward_return_labels(own, config)
         IN  /\ IsFiniteSet({labels[i] : i \in DOMAIN labels})
             /\ \A i \in DOMAIN labels : IsSample(labels[i]) /\ labels[i].symbol = symbol
             /\ \A i, j \in DOMAIN labels : labels[i].timestamp = labels[j].timestamp => i = j
<1> DEFINE own == Sorted(BarsOf(bars, symbol))
           last == Len(own) - config.horizon_bars
           labels == build_forward_return_labels(own, config)
<1>1. /\ own \in BarLists
      /\ \A i \in DOMAIN own : own[i].symbol = symbol
      /\ \A i, j \in DOMAIN own : i < j => own[i].timestamp < own[j].timestamp
  BY SeriesFacts
<1> HIDE DEF own
<1>2. own \in Seq(Bars) /\ DOMAIN own = 1..Len(own) /\ Len(own) \in Nat
  BY <1>1 DEF BarLists
<1>3. last \in Int /\ \A i \in 1..last : i \in DOMAIN own /\ i + config.horizon_bars \in DOMAIN own
  BY SMTT(20), ZenonT(40), <1>2 DEF IsTraining
<1>4. /\ DOMAIN labels = 1..last
      /\ \A i \in 1..last : /\ labels[i].symbol = own[i].symbol
                            /\ labels[i].timestamp = own[i].timestamp
                            /\ labels[i].label_end = own[i + config.horizon_bars].timestamp
  <2> HIDE DEF last
  <2>1. QED
    BY DEF build_forward_return_labels, last
<1> HIDE DEF last, labels
<1>5. \A i \in 1..last : own[i] \in Bars /\ own[i + config.horizon_bars] \in Bars
  BY <1>2, <1>3
<1>6. \A i \in DOMAIN labels : IsSample(labels[i]) /\ labels[i].symbol = symbol
  BY SMTT(20), ZenonT(40), <1>1, <1>3, <1>4, <1>5, BarFacts DEF IsSample
<1>7. ASSUME NEW i \in DOMAIN labels, NEW j \in DOMAIN labels,
             labels[i].timestamp = labels[j].timestamp
      PROVE  i = j
  <2>1. /\ i \in DOMAIN own /\ j \in DOMAIN own /\ own[i].timestamp = own[j].timestamp
        /\ i \in Int /\ j \in Int
    BY <1>3, <1>4, <1>7
  <2>2. own[i].timestamp \in Nat
    BY <1>2, <2>1, BarFacts
  <2>3. ~(i < j) /\ ~(j < i)
    BY <1>1, <2>1, <2>2
  <2>4. QED
    BY <2>1, <2>3
<1>8. IsFiniteSet({labels[i] : i \in DOMAIN labels})
  <2>1. IsFiniteSet(1..last)
    BY <1>3, FS_Interval
  <2>2. IsFiniteSet(DOMAIN labels)
    BY <1>4, <2>1
  <2>3. QED
    BY <2>2, ImageIsFinite
<1>9. QED
  BY <1>6, <1>7, <1>8 DEF labels, own

LEMMA DatasetFacts ==
  ASSUME NEW bars \in BarLists, NEW config, IsTraining(config)
  PROVE  IsDataset(build_ml_dataset(bars, config))
<1> DEFINE labels(symbol) == build_forward_return_labels(Sorted(BarsOf(bars, symbol)), config)
           all(symbol) == {labels(symbol)[i] : i \in DOMAIN labels(symbol)}
           samples(symbol) ==
             {labels(symbol)[i] :
                i \in {j \in DOMAIN labels(symbol) :
                         \A name \in DOMAIN RowsOf(config.specs, bars, symbol)[j].values :
                           RowsOf(config.specs, bars, symbol)[j].values[name] # {}}}
           symbols == {bars[i].symbol : i \in DOMAIN bars}
           dataset == UNION {samples(symbol) : symbol \in symbols}
<1>1. build_ml_dataset(bars, config) = dataset
  BY DEF build_ml_dataset
<1>2. \A symbol : samples(symbol) \in SUBSET all(symbol)
  OBVIOUS
<1>3. \A symbol :
        /\ IsFiniteSet(all(symbol))
        /\ \A s \in all(symbol) : IsSample(s) /\ s.symbol = symbol
        /\ \A s, t \in all(symbol) : s.timestamp = t.timestamp => s = t
  <2>1. TAKE symbol
  <2>2. /\ IsFiniteSet({labels(symbol)[i] : i \in DOMAIN labels(symbol)})
        /\ \A i \in DOMAIN labels(symbol) :
             IsSample(labels(symbol)[i]) /\ labels(symbol)[i].symbol = symbol
        /\ \A i, j \in DOMAIN labels(symbol) :
             labels(symbol)[i].timestamp = labels(symbol)[j].timestamp => i = j
    BY LabelFacts
  <2> HIDE DEF labels
  <2>3. QED
    BY <2>2
<1> HIDE DEF labels, all, samples
<1>4. \A symbol : /\ IsFiniteSet(samples(symbol))
                  /\ \A s \in samples(symbol) : s \in all(symbol)
  BY <1>2, <1>3, FS_Subset
<1>5. IsFiniteSet(symbols)
  <2> DEFINE f == [i \in DOMAIN bars |-> bars[i].symbol]
  <2>1. DOMAIN bars = 1..Len(bars) /\ Len(bars) \in Nat
    BY DEF BarLists
  <2>2. IsFiniteSet(DOMAIN bars)
    BY <2>1, FS_Interval
  <2>3. symbols = {f[i] : i \in DOMAIN bars} /\ DOMAIN f = DOMAIN bars
    OBVIOUS
  <2> HIDE DEF f, symbols
  <2>4. QED
    BY <2>2, <2>3, ImageIsFinite
<1> HIDE DEF symbols
<1>6. IsFiniteSet(dataset)
  <2> DEFINE f == [symbol \in symbols |-> samples(symbol)]
             parts == {f[symbol] : symbol \in symbols}
  <2>1. DOMAIN f = symbols /\ dataset = UNION parts /\ \A T \in parts : IsFiniteSet(T)
    BY <1>4
  <2>2. IsFiniteSet(parts)
    <3> HIDE DEF f
    <3>1. QED
      BY <1>5, <2>1, ImageIsFinite
  <2> HIDE DEF parts
  <2>3. QED
    BY <2>1, <2>2, FS_UNION
<1>7. \A s \in dataset : \E symbol \in symbols : s \in all(symbol)
  BY <1>4
<1> HIDE DEF dataset
<1>8. \A s, t \in dataset : s.symbol = t.symbol /\ s.timestamp = t.timestamp => s = t
  <2>1. SUFFICES ASSUME NEW s \in dataset, NEW t \in dataset, s.symbol = t.symbol,
                        s.timestamp = t.timestamp
                 PROVE  s = t
    OBVIOUS
  <2>2. PICK x \in symbols : s \in all(x)
    BY <1>7
  <2>3. PICK y \in symbols : t \in all(y)
    BY <1>7
  <2>4. x = y
    BY <1>3, <2>1, <2>2, <2>3
  <2>5. QED
    BY <1>3, <2>1, <2>2, <2>3, <2>4
<1>9. \A s \in dataset : IsSample(s)
  BY <1>3, <1>7
<1>10. QED
  BY <1>1, <1>6, <1>8, <1>9 DEF IsDataset
-----------------------------------------------------------------------------
(* The samples in the order of time. *)
LEMMA OrderedSamples ==
  ASSUME NEW samples, IsDataset(samples)
  PROVE  LET ordered == Sorted(Members(samples))
         IN  /\ ordered \in Seq(samples)
             /\ \A i, j \in DOMAIN ordered : i < j => ordered[i].timestamp <= ordered[j].timestamp
<1>1. PICK key \in [samples -> Int \X Int] : \A s \in samples : key[s] = SortKey(s)
  <2>1. \A s \in samples : SortKey(s) \in Int \X Int
    BY RankFacts DEF IsDataset, IsSample, SortKey
  <2>2. [s \in samples |-> SortKey(s)] \in [samples -> Int \X Int]
    BY <2>1
  <2>3. QED
    BY <2>2
<1> DEFINE rows == Members(samples)
<1>2. rows = [s \in samples |-> s] /\ DOMAIN rows = samples
  BY DEF Members
<1>3. \A s, t \in samples : key[s] = key[t] => s = t
  <2>1. SUFFICES ASSUME NEW s \in samples, NEW t \in samples, key[s] = key[t]
                 PROVE  s = t
    OBVIOUS
  <2>2. s.timestamp = t.timestamp /\ Rank(s.symbol) = Rank(t.symbol)
    BY <1>1, <2>1 DEF SortKey
  <2>3. s.symbol = t.symbol
    BY <2>2, RankFacts DEF IsDataset, IsSample
  <2>4. QED
    BY <2>2, <2>3 DEF IsDataset
<1>4. Sorted(rows) = SortedBy(rows, key)
  <2>1. [i \in DOMAIN rows |-> SortKey(rows[i])] = key
    BY <1>1, <1>2
  <2>2. QED
    BY <2>1 DEF Sorted
<1> HIDE DEF rows
<1>5. PICK n \in Nat : \E at \in [1..n -> DOMAIN rows] :
        /\ n = Cardinality(DOMAIN rows)
        /\ SortedBy(rows, key) = [k \in 1..n |-> rows[at[k]]]
        /\ \A k, l \in 1..n : k < l => Precedes(key[at[k]], key[at[l]])
        /\ \A i \in DOMAIN rows : \E k \in 1..n : at[k] = i
  <2>1. IsFiniteSet(DOMAIN rows) /\ key \in [DOMAIN rows -> Int \X Int]
    BY <1>2 DEF IsDataset
  <2>2. \A i, j \in DOMAIN rows : key[i] = key[j] => i = j
    BY <1>2, <1>3
  <2>3. QED
    BY <2>1, <2>2, SortedByFacts, ZenonT(60)
<1>6. PICK at \in [1..n -> samples] :
        /\ Sorted(rows) = [k \in 1..n |-> at[k]]
        /\ \A k, l \in 1..n : k < l => Precedes(key[at[k]], key[at[l]])
  <2>1. PICK at \in [1..n -> DOMAIN rows] :
          /\ SortedBy(rows, key) = [k \in 1..n |-> rows[at[k]]]
          /\ \A k, l \in 1..n : k < l => Precedes(key[at[k]], key[at[l]])
    BY <1>5
  <2>2. at \in [1..n -> samples] /\ \A k \in 1..n : rows[at[k]] = at[k]
    BY <1>2, <2>1
  <2>3. Sorted(rows) = [k \in 1..n |-> at[k]]
    BY <1>4, <2>1, <2>2
  <2>4. QED
    BY <2>1, <2>2, <2>3
<1>7. Sorted(rows) \in Seq(samples) /\ DOMAIN Sorted(rows) = 1..n
  BY <1>6
<1>8. ASSUME NEW i \in 1..n, NEW j \in 1..n, i < j
      PROVE  Sorted(rows)[i].timestamp <= Sorted(rows)[j].timestamp
  <2>1. /\ Sorted(rows)[i] = at[i] /\ Sorted(rows)[j] = at[j]
        /\ at[i] \in samples /\ at[j] \in samples
    BY <1>6
  <2>2. Precedes(SortKey(at[i]), SortKey(at[j]))
    BY <1>1, <1>6, <1>8, <2>1
  <2>3. at[i].timestamp \in Nat /\ at[j].timestamp \in Nat
    BY <2>1 DEF IsDataset, IsSample
  <2>4. QED
    BY SMTT(20), ZenonT(40), <2>1, <2>2, <2>3 DEF Precedes, SortKey
<1>9. QED
  BY <1>7, <1>8 DEF rows

(* The larger and the smaller of two numbers. *)
LEMMA LargerOfTwo ==
  ASSUME NEW x \in Int, NEW y \in Int
  PROVE  Max({x, y}) \in {x, y} /\ Max({x, y}) >= x /\ Max({x, y}) >= y
<1>1. \E z \in {x, y} : \A w \in {x, y} : z >= w
  <2>1. CASE x >= y
    BY <2>1
  <2>2. CASE y >= x
    BY <2>2
  <2>3. QED
    BY <2>1, <2>2
<1>2. QED
  BY <1>1 DEF Max

LEMMA SmallerOfTwo ==
  ASSUME NEW x \in Int, NEW y \in Int
  PROVE  Min({x, y}) \in {x, y} /\ Min({x, y}) <= x /\ Min({x, y}) <= y
<1>1. \E z \in {x, y} : \A w \in {x, y} : z <= w
  <2>1. CASE x <= y
    BY <2>1
  <2>2. CASE y <= x
    BY <2>2
  <2>3. QED
    BY <2>1, <2>2
<1>2. QED
  BY <1>1 DEF Min

(* The parts of a split are consecutive pieces of the ordered samples, in the
   order train, validation, test. *)
LEMMA SplitFacts ==
  ASSUME NEW samples, IsDataset(samples), NEW config, IsTraining(config),
         NEW split \in chronological_split(samples, config)
  PROVE  \E ordered \in Seq(samples), a \in Nat, b \in Nat, c \in Nat, d \in Nat :
           /\ \A i, j \in DOMAIN ordered :
                i < j => ordered[i].timestamp <= ordered[j].timestamp
           /\ split.train = SubSeq(ordered, 1, a) /\ a <= Len(ordered)
           /\ split.validation = SubSeq(ordered, b + 1, c) /\ c <= Len(ordered)
           /\ split.test = SubSeq(ordered, d + 1, Len(ordered)) /\ c <= d
           /\ split.train # <<>> /\ split.validation # <<>> /\ split.test # <<>>
<1> DEFINE ordered == Sorted(Members(samples))
           n == Len(ordered)
           total == config.train_fraction + config.validation_fraction + config.test_fraction
           share(fraction) == (n * fraction) \div total
           train_end == Max({1, share(config.train_fraction)})
           validation_end ==
             Min({Max({train_end + 1,
                       share(config.train_fraction + config.validation_fraction)}), n - 1})
           validation_start == Min({train_end + config.embargo_bars, validation_end})
           test_start == Min({validation_end + config.embargo_bars, n})
<1>1. /\ ordered \in Seq(samples)
      /\ \A i, j \in DOMAIN ordered : i < j => ordered[i].timestamp <= ordered[j].timestamp
  BY OrderedSamples
<1>2. /\ n >= 3
      /\ split = [train |-> SubSeq(ordered, 1, train_end),
                  validation |-> SubSeq(ordered, validation_start + 1, validation_end),
                  test |-> SubSeq(ordered, test_start + 1, n)]
      /\ split.train # <<>> /\ split.validation # <<>> /\ split.test # <<>>
  <2>1. chronological_split(samples, config) # {}
    OBVIOUS
  <2>2. ~(n < 3)
    BY <2>1 DEF chronological_split
  <2>3. n \in Nat
    BY <1>1
  <2>4. split \in {s \in {[train |-> SubSeq(ordered, 1, train_end),
                           validation |-> SubSeq(ordered, validation_start + 1, validation_end),
                           test |-> SubSeq(ordered, test_start + 1, n)]} :
                     <<>> \notin {s.train, s.validation, s.test}}
    <3> HIDE DEF ordered
    <3>1. QED
      BY <2>2 DEF chronological_split, ordered
  <2> HIDE DEF n, ordered, train_end, validation_end, validation_start, test_start
  <2>5. QED
    BY <2>2, <2>3, <2>4
<1>3. n \in Nat /\ n >= 3
  <2>1. n >= 3
    BY <1>2
  <2> HIDE DEF ordered
  <2>2. n \in Nat
    BY <1>1
  <2>3. QED
    BY <2>1, <2>2
<1>4. share(config.train_fraction) \in Int
      /\ share(config.train_fraction + config.validation_fraction) \in Int
  <2>1. total \in Int /\ total > 0
    BY DEF IsTraining
  <2>2. config.train_fraction \in Int /\ config.train_fraction + config.validation_fraction \in Int
    BY DEF IsTraining
  <2> HIDE DEF n, total
  <2>3. n * config.train_fraction \in Int
        /\ n * (config.train_fraction + config.validation_fraction) \in Int
    BY <1>3, <2>2
  <2>4. QED
    BY <2>1, <2>3, Z3
<1>5. /\ train_end \in Int /\ train_end >= 1
  <2> DEFINE s == share(config.train_fraction)
  <2>1. s \in Int /\ 1 \in Int
    BY <1>4
  <2> HIDE DEF s
  <2>2. Max({1, s}) \in {1, s} /\ Max({1, s}) >= 1
    BY <2>1, LargerOfTwo, Zenon
  <2>3. Max({1, s}) \in Int
    BY <2>1, <2>2
  <2>4. QED
    BY <2>2, <2>3 DEF s
<1>6. validation_end \in Int /\ validation_end <= n - 1
  <2> DEFINE s == share(config.train_fraction + config.validation_fraction)
             next == train_end + 1
             most == Max({next, s})
  <2> HIDE DEF n, train_end
  <2>1. s \in Int /\ next \in Int
    BY <1>4, <1>5
  <2> HIDE DEF s, next
  <2>2. Max({next, s}) \in {next, s}
    BY <2>1, LargerOfTwo, Zenon
  <2>3. most \in Int
    BY <2>1, <2>2
  <2> HIDE DEF most
  <2>4. n - 1 \in Int
    BY <1>3
  <2>5. Min({most, n - 1}) \in Int /\ Min({most, n - 1}) <= n - 1
    BY <2>3, <2>4, SmallerOfTwo
  <2>6. QED
    BY <2>5 DEF most, next, s
<1>7. /\ validation_start \in {train_end + config.embargo_bars, validation_end}
      /\ validation_start \in Int
  <2> HIDE DEF n, train_end, validation_end
  <2>1. config.embargo_bars \in Int /\ train_end + config.embargo_bars \in Int
    BY <1>5 DEF IsTraining
  <2>2. QED
    BY <1>6, <2>1, SmallerOfTwo
<1>8. test_start \in {validation_end + config.embargo_bars, n} /\ test_start \in Int
  <2> HIDE DEF n, validation_end
  <2> DEFINE later == validation_end + config.embargo_bars
  <2>1. later \in Int /\ n \in Int
    BY <1>3, <1>6 DEF IsTraining
  <2> HIDE DEF later
  <2>2. Min({later, n}) \in {later, n}
    BY <2>1, SmallerOfTwo, Zenon
  <2>3. Min({later, n}) \in Int
    BY <2>1, <2>2
  <2>4. QED
    BY <2>2, <2>3 DEF later
<1> HIDE DEF train_end, validation_end, validation_start, test_start
<1>9. validation_start < validation_end
  <2>1. ASSUME validation_end < validation_start + 1
        PROVE  SubSeq(ordered, validation_start + 1, validation_end) = <<>>
    BY <1>6, <1>7, <2>1, SubSeqEmpty
  <2> HIDE DEF ordered
  <2>2. split.validation = SubSeq(ordered, validation_start + 1, validation_end)
    BY <1>2
  <2>3. ~(validation_end < validation_start + 1)
    BY <1>2, <2>1, <2>2
  <2>4. QED
    BY <1>6, <1>7, <2>3
<1>10. config.embargo_bars \in Nat
  BY DEF IsTraining
<1>11. train_end <= validation_start /\ validation_end <= test_start
  <2> HIDE DEF n
  <2>1. QED
    BY <1>3, <1>5, <1>6, <1>7, <1>8, <1>9, <1>10
<1>12. /\ train_end \in Nat /\ train_end <= n /\ validation_start \in Nat
       /\ validation_end \in Nat /\ validation_end <= n
       /\ test_start \in Nat /\ validation_end <= test_start
  <2> HIDE DEF n
  <2>1. QED
    BY <1>3, <1>5, <1>6, <1>7, <1>8, <1>9, <1>11
<1>13. /\ split.train = SubSeq(ordered, 1, train_end)
       /\ split.validation = SubSeq(ordered, validation_start + 1, validation_end)
       /\ split.test = SubSeq(ordered, test_start + 1, Len(ordered))
       /\ train_end <= Len(ordered) /\ validation_end <= Len(ordered)
  <2> HIDE DEF ordered
  <2>1. QED
    BY <1>2, <1>12
<1>14. QED
  <2> HIDE DEF ordered
  <2>1. QED
    BY <1>1, <1>2, <1>12, <1>13

(* A piece of a sequence holds what the sequence holds at its places. *)
LEMMA PieceFacts ==
  ASSUME NEW S, NEW seq \in Seq(S), NEW m \in Nat, NEW n \in Nat, n <= Len(seq)
  PROVE  LET piece == SubSeq(seq, m + 1, n)
         IN  /\ piece \in Seq(S)
             /\ \A i \in DOMAIN piece : m + i \in DOMAIN seq /\ m + i <= n /\ piece[i] = seq[m + i]
<1>1. m + 1 \in Int /\ n \in Int /\ \A i \in (m + 1)..n : seq[i] \in S
  OBVIOUS
<1> DEFINE piece == SubSeq(seq, m + 1, n)
<1>2. /\ piece \in Seq(S)
      /\ Len(piece) = IF m + 1 <= n THEN n - (m + 1) + 1 ELSE 0
      /\ \A i \in 1..(n - (m + 1) + 1) : piece[i] = seq[(m + 1) + i - 1]
  BY <1>1, SubSeqProperties
<1> HIDE DEF piece
<1>3. DOMAIN piece = 1..Len(piece) /\ Len(piece) \in Nat
  BY <1>2
<1>4. \A i \in DOMAIN piece : i \in 1..(n - (m + 1) + 1) /\ m + i \in DOMAIN seq /\ m + i <= n
  BY <1>2, <1>3
<1>5. \A i \in DOMAIN piece : piece[i] = seq[m + i]
  <2>1. TAKE i \in DOMAIN piece
  <2>2. piece[i] = seq[(m + 1) + i - 1]
    BY <1>2, <1>4
  <2>3. i \in Int /\ (m + 1) + i - 1 = m + i
    BY <1>4
  <2>4. QED
    BY <2>2, <2>3
<1>6. QED
  BY <1>2, <1>4, <1>5 DEF piece

(* What the leakage check lets through: every label of the one part is decided
   before every bar of the other. *)
LEMMA NoLeakageFacts ==
  ASSUME NEW S, \A sample \in S : IsSample(sample),
         NEW training \in Seq(S), NEW evaluation \in Seq(S),
         training # <<>>, evaluation # <<>>,
         validate_no_temporal_leakage(training, evaluation)
  PROVE  \A i \in DOMAIN training, j \in DOMAIN evaluation :
           training[i].label_end < evaluation[j].timestamp
<1> DEFINE ends == {training[i].label_end : i \in DOMAIN training}
           times == {evaluation[i].timestamp : i \in DOMAIN evaluation}
<1>1. Max(ends) < Min(times)
  BY DEF validate_no_temporal_leakage
<1>2. /\ IsFiniteSet(DOMAIN training) /\ IsFiniteSet(DOMAIN evaluation)
      /\ DOMAIN training # {} /\ DOMAIN evaluation # {}
  <2>1. /\ DOMAIN training = 1..Len(training) /\ Len(training) \in Nat /\ Len(training) # 0
        /\ DOMAIN evaluation = 1..Len(evaluation) /\ Len(evaluation) \in Nat
        /\ Len(evaluation) # 0
    OBVIOUS
  <2>2. IsFiniteSet(1..Len(training)) /\ IsFiniteSet(1..Len(evaluation))
    BY <2>1, FS_Interval
  <2>3. 1 \in 1..Len(training) /\ 1 \in 1..Len(evaluation)
    BY <2>1
  <2>4. QED
    BY <2>1, <2>2, <2>3
<1>3. IsFiniteSet(ends) /\ IsFiniteSet(times)
  <2> DEFINE f == [i \in DOMAIN training |-> training[i].label_end]
             g == [i \in DOMAIN evaluation |-> evaluation[i].timestamp]
  <2>1. /\ DOMAIN f = DOMAIN training /\ ends = {f[i] : i \in DOMAIN training}
        /\ DOMAIN g = DOMAIN evaluation /\ times = {g[i] : i \in DOMAIN evaluation}
    OBVIOUS
  <2> HIDE DEF f, g, ends, times
  <2>2. QED
    BY <1>2, <2>1, ImageIsFinite
<1>4. /\ \A i \in DOMAIN training : training[i].label_end \in Nat
      /\ \A j \in DOMAIN evaluation : evaluation[j].timestamp \in Nat
  BY DEF IsSample
<1>5. ends \subseteq Nat /\ times \subseteq Nat /\ ends # {} /\ times # {}
  BY <1>2, <1>4
<1>6. /\ Max(ends) \in Nat /\ \A y \in ends : Max(ends) >= y
      /\ Min(times) \in Nat /\ \A y \in times : Min(times) <= y
  <2> HIDE DEF ends, times
  <2>1. QED
    BY <1>3, <1>5, Extremes
<1>7. SUFFICES ASSUME NEW i \in DOMAIN training, NEW j \in DOMAIN evaluation
               PROVE  training[i].label_end < evaluation[j].timestamp
  OBVIOUS
<1>8. training[i].label_end \in ends /\ evaluation[j].timestamp \in times
  OBVIOUS
<1> HIDE DEF ends, times
<1>9. Max(ends) >= training[i].label_end /\ Min(times) <= evaluation[j].timestamp
  BY <1>6, <1>8
<1>10. QED
  BY <1>1, <1>4, <1>6, <1>9

(* A model's parts leak nothing, in the three pairs that matter. *)
LeakFree(split) ==
  \A parts \in {<<"train", "validation">>, <<"train", "test">>, <<"validation", "test">>} :
    \A learned \in Range(split[parts[1]]), judged \in Range(split[parts[2]]) :
      learned.label_end < judged.timestamp

(* What a training returns leaks nothing.  The code compares neighbouring parts
   only; the training samples come before the test because a validation sample
   lies between them and the samples are in the order of time. *)
LEMMA TrainingFacts ==
  ASSUME NEW bars \in BarLists, NEW config, IsTraining(config),
         NEW split \in train_directional_pipeline(bars, config)
  PROVE  LeakFree(split)
<1> DEFINE samples == build_ml_dataset(bars, config)
<1>1. IsDataset(samples)
  BY DatasetFacts
<1>2. split \in chronological_split(samples, config) /\ validate_split_no_leakage(split)
  BY DEF train_directional_pipeline
<1> HIDE DEF samples
<1>3. PICK ordered \in Seq(samples), a \in Nat, b \in Nat, c \in Nat, d \in Nat :
        /\ \A i, j \in DOMAIN ordered : i < j => ordered[i].timestamp <= ordered[j].timestamp
        /\ split.train = SubSeq(ordered, 1, a) /\ a <= Len(ordered)
        /\ split.validation = SubSeq(ordered, b + 1, c) /\ c <= Len(ordered)
        /\ split.test = SubSeq(ordered, d + 1, Len(ordered)) /\ c <= d
        /\ split.train # <<>> /\ split.validation # <<>> /\ split.test # <<>>
  BY <1>1, <1>2, SplitFacts
<1>4. split.train \in Seq(samples)
  <2>1. 0 \in Nat /\ 0 + 1 = 1
    OBVIOUS
  <2>2. SubSeq(ordered, 0 + 1, a) \in Seq(samples)
    BY <1>3, PieceFacts
  <2>3. QED
    BY <1>3, <2>1, <2>2
<1>5. /\ split.validation \in Seq(samples)
      /\ \A i \in DOMAIN split.validation :
           b + i \in DOMAIN ordered /\ b + i <= c /\ split.validation[i] = ordered[b + i]
  BY <1>3, PieceFacts
<1>6. /\ split.test \in Seq(samples)
      /\ \A i \in DOMAIN split.test :
           d + i \in DOMAIN ordered /\ split.test[i] = ordered[d + i]
  <2> DEFINE n == Len(ordered)
  <2>1. n \in Nat /\ n <= Len(ordered)
    OBVIOUS
  <2> HIDE DEF n
  <2>2. /\ SubSeq(ordered, d + 1, n) \in Seq(samples)
        /\ \A i \in DOMAIN SubSeq(ordered, d + 1, n) :
             d + i \in DOMAIN ordered /\ SubSeq(ordered, d + 1, n)[i] = ordered[d + i]
    BY <2>1, PieceFacts
  <2>3. split.test = SubSeq(ordered, d + 1, n)
    BY <1>3 DEF n
  <2>4. QED
    BY <2>2, <2>3
<1>7. \A sample \in samples : IsSample(sample)
  BY <1>1 DEF IsDataset
<1>8. \A i \in DOMAIN split.train, j \in DOMAIN split.validation :
        split.train[i].label_end < split.validation[j].timestamp
  <2>1. validate_no_temporal_leakage(split.train, split.validation)
    BY <1>2 DEF validate_split_no_leakage
  <2>2. QED
    BY <1>3, <1>4, <1>5, <1>7, <2>1, NoLeakageFacts
<1>9. \A i \in DOMAIN split.validation, j \in DOMAIN split.test :
        split.validation[i].label_end < split.test[j].timestamp
  <2>1. validate_no_temporal_leakage(split.validation, split.test)
    BY <1>2 DEF validate_split_no_leakage
  <2>2. QED
    BY <1>3, <1>5, <1>6, <1>7, <2>1, NoLeakageFacts
<1>10. \A i \in DOMAIN split.train, j \in DOMAIN split.test :
         split.train[i].label_end < split.test[j].timestamp
  <2>1. TAKE i \in DOMAIN split.train, j \in DOMAIN split.test
  <2>2. 1 \in DOMAIN split.validation
    BY <1>3, <1>5
  <2>3. /\ b + 1 \in DOMAIN ordered /\ b + 1 <= c /\ split.validation[1] = ordered[b + 1]
        /\ d + j \in DOMAIN ordered /\ split.test[j] = ordered[d + j]
    BY <1>5, <1>6, <2>2
  <2>4. j \in Nat \ {0}
    <3>1. split.test \in Seq(samples)
      BY <1>6
    <3>2. j \in 1..Len(split.test) /\ Len(split.test) \in Nat
      BY <2>1, <3>1
    <3>3. QED
      BY ONLY <3>2
  <2>5. b + 1 < d + j
    BY <1>3, <2>3, <2>4
  <2>6. split.validation[1].timestamp <= split.test[j].timestamp
    BY <1>3, <2>3, <2>5
  <2>7. split.train[i].label_end < split.validation[1].timestamp
    BY <1>8, <2>2
  <2>8. /\ split.train[i] \in samples /\ split.validation[1] \in samples
        /\ split.test[j] \in samples
    BY <1>4, <1>5, <1>6, <2>2
  <2>9. /\ split.train[i].label_end \in Nat /\ split.validation[1].timestamp \in Nat
        /\ split.test[j].timestamp \in Nat
    BY <1>7, <2>8 DEF IsSample
  <2>10. QED
    BY <2>6, <2>7, <2>9
<1>11. QED
  BY <1>8, <1>9, <1>10 DEF LeakFree, Range
-----------------------------------------------------------------------------
(* What the vendor answers: its bars of the window, each once. *)
LEMMA AnswerFacts ==
  ASSUME NEW window
  PROVE  /\ Answer(Market, window) \in BarLists
         /\ Held(Answer(Market, window)) =
              {Market[i] : i \in {j \in DOMAIN Market : In(Market[j], window)}}
<1> DEFINE places == {i \in DOMAIN Market : In(Market[i], window)}
           rows == [i \in places |-> Market[i]]
           key == [i \in places |-> <<Rank(Market[i].symbol), Market[i].timestamp>>]
<1>1. Answer(Market, window) = SortedBy(rows, key)
  BY DEF Answer
<1>2. /\ Market \in Seq(Bars)
      /\ \A i \in DOMAIN Market : Market[i] \in Bars
  BY LifecycleAssumption DEF MarketAssumption, Bars, Range
<1>3. IsFiniteSet(places)
  <2>1. DOMAIN Market = 1..Len(Market) /\ Len(Market) \in Nat
    BY <1>2
  <2>2. IsFiniteSet(DOMAIN Market) /\ places \subseteq DOMAIN Market
    BY <2>1, FS_Interval
  <2>3. QED
    BY <2>2, FS_Subset
<1>4. \A i \in places : /\ Market[i].symbol \in Range(Listing) /\ Market[i].timestamp \in Nat
                        /\ Rank(Market[i].symbol) \in Nat
  BY <1>2, BarFacts, RankFacts
<1>5. /\ DOMAIN rows = places /\ DOMAIN key = places
      /\ \A i \in places : rows[i] = Market[i] /\ rows[i] \in Bars
      /\ \A i \in places : key[i] = <<Rank(Market[i].symbol), Market[i].timestamp>>
  BY <1>2
<1>6. key \in [places -> Int \X Int]
  BY <1>4
<1>7. ASSUME NEW i \in places, NEW j \in places, rows[i] = rows[j] \/ key[i] = key[j]
      PROVE  i = j
  <2>1. Market[i].symbol = Market[j].symbol /\ Market[i].timestamp = Market[j].timestamp
    <3>1. CASE rows[i] = rows[j]
      BY <1>5, <3>1
    <3>2. CASE key[i] = key[j]
      <4>1. Rank(Market[i].symbol) = Rank(Market[j].symbol)
            /\ Market[i].timestamp = Market[j].timestamp
        BY <1>5, <3>2
      <4>2. QED
        BY <1>4, <4>1, RankFacts
    <3>3. QED
      BY <1>7, <3>1, <3>2
  <2>2. i \in DOMAIN Market /\ j \in DOMAIN Market
    OBVIOUS
  <2>3. QED
    BY <2>1, <2>2, LifecycleAssumption DEF MarketAssumption
<1>8. Held(rows) = {Market[i] : i \in places}
  <2> HIDE DEF places
  <2>1. QED
    BY DEF Held
<1> HIDE DEF places, rows, key
<1>9. SortedBy(rows, key) \in BarLists /\ Held(SortedBy(rows, key)) = Held(rows)
  BY <1>3, <1>5, <1>6, <1>7, SortedBars
<1>10. QED
  BY <1>1, <1>8, <1>9 DEF places

(* The first rows of a list. *)
LEMMA PrefixFacts ==
  ASSUME NEW list \in BarLists, NEW n \in Nat, n <= Len(list)
  PROVE  SubSeq(list, 1, n) \in BarLists /\ Len(SubSeq(list, 1, n)) = n
<1>1. list \in Seq(Bars) /\ 0 \in Nat /\ 0 + 1 = 1
  BY DEF BarLists
<1> DEFINE piece == SubSeq(list, 0 + 1, n)
<1>2. /\ piece \in Seq(Bars)
      /\ \A i \in DOMAIN piece : 0 + i \in DOMAIN list /\ piece[i] = list[0 + i]
  BY <1>1, PieceFacts
<1>3. \A i \in DOMAIN piece : i \in Nat /\ i \in DOMAIN list /\ piece[i] = list[i]
  <2> HIDE DEF piece
  <2>1. \A i \in DOMAIN piece : i \in Nat
    BY <1>2
  <2>2. QED
    BY <1>2, <2>1
<1>4. \A i, j \in DOMAIN piece : piece[i] = piece[j] => i = j
  <2> HIDE DEF piece
  <2>1. QED
    BY <1>3 DEF BarLists
<1>5. Len(piece) = n
  <2>1. 0 + 1 \in Int /\ n \in Int /\ \A i \in (0 + 1)..n : list[i] \in Bars
    BY <1>1
  <2>2. Len(piece) = IF 0 + 1 <= n THEN n - (0 + 1) + 1 ELSE 0
    BY <2>1, SubSeqProperties
  <2>3. QED
    BY <2>2
<1>6. piece = SubSeq(list, 1, n)
  OBVIOUS
<1> HIDE DEF piece
<1>7. piece \in BarLists
  BY <1>2, <1>4 DEF BarLists
<1>8. QED
  BY <1>5, <1>6, <1>7

(* A page continues where the last one ended. *)
LEMMA PageFacts ==
  ASSUME NEW answer \in BarLists, NEW n \in Nat, n <= Len(answer), NEW limit \in Nat \ {0}
  PROVE  LET page == get_stock_bars_page(answer, n, limit)
             all == SubSeq(answer, 1, n) \o page.rows
         IN  /\ page.next => \E m \in Nat : m <= Len(answer) /\ all = SubSeq(answer, 1, m)
             /\ ~page.next => all = answer
<1> DEFINE last == Min({n + limit, Len(answer)})
           piece == SubSeq(answer, n + 1, last)
<1>1. answer \in Seq(Bars) /\ Len(answer) \in Nat
  BY DEF BarLists
<1>2. last \in Nat /\ last <= Len(answer) /\ n <= last
  <2> DEFINE more == n + limit
             length == Len(answer)
  <2>1. more \in Int /\ length \in Int /\ n <= more /\ n <= length
    BY <1>1
  <2> HIDE DEF more, length
  <2>2. Min({more, length}) \in {more, length} /\ Min({more, length}) <= length
    BY <2>1, SmallerOfTwo
  <2>3. last = Min({more, length})
    BY DEF more, length
  <2> HIDE DEF last
  <2>4. last \in {more, length} /\ last <= length
    BY <2>2, <2>3
  <2>5. n <= last /\ last \in Int
    BY <2>1, <2>4
  <2>6. QED
    BY <2>4, <2>5 DEF length
<1> HIDE DEF last
<1>3. get_stock_bars_page(answer, n, limit) = [rows |-> piece, next |-> last < Len(answer)]
  BY DEF get_stock_bars_page, last
<1>4. SubSeq(answer, 1, n) \o piece = SubSeq(answer, 1, last)
  <2>1. /\ SubSeq(answer, 1, n) \in Seq(Bars) /\ Len(SubSeq(answer, 1, n)) = n
        /\ \A i \in 1..n : SubSeq(answer, 1, n)[i] = answer[i]
    <3>1. 1 \in Int /\ n \in Int /\ \A i \in 1..n : answer[i] \in Bars
      BY <1>1
    <3>2. /\ SubSeq(answer, 1, n) \in Seq(Bars)
          /\ Len(SubSeq(answer, 1, n)) = IF 1 <= n THEN n - 1 + 1 ELSE 0
          /\ \A i \in 1..(n - 1 + 1) : SubSeq(answer, 1, n)[i] = answer[1 + i - 1]
      BY <3>1, SubSeqProperties
    <3>3. QED
      BY <3>2
  <2>2. /\ SubSeq(answer, 1, last) \in Seq(Bars) /\ Len(SubSeq(answer, 1, last)) = last
        /\ \A i \in 1..last : SubSeq(answer, 1, last)[i] = answer[i]
    <3>1. 1 \in Int /\ last \in Int /\ \A i \in 1..last : answer[i] \in Bars
      BY <1>1, <1>2
    <3>2. /\ SubSeq(answer, 1, last) \in Seq(Bars)
          /\ Len(SubSeq(answer, 1, last)) = IF 1 <= last THEN last - 1 + 1 ELSE 0
          /\ \A i \in 1..(last - 1 + 1) : SubSeq(answer, 1, last)[i] = answer[1 + i - 1]
      BY <3>1, SubSeqProperties
    <3>3. QED
      BY <1>2, <3>2
  <2>3. /\ piece \in Seq(Bars) /\ Len(piece) = last - n
        /\ \A i \in 1..(last - n) : piece[i] = answer[n + i]
    <3>1. n + 1 \in Int /\ last \in Int /\ \A i \in (n + 1)..last : answer[i] \in Bars
      BY <1>1, <1>2
    <3>2. /\ piece \in Seq(Bars)
          /\ Len(piece) = IF n + 1 <= last THEN last - (n + 1) + 1 ELSE 0
          /\ \A i \in 1..(last - (n + 1) + 1) : piece[i] = answer[(n + 1) + i - 1]
      BY <3>1, SubSeqProperties
    <3> HIDE DEF piece
    <3>3. QED
      BY <1>2, <3>2
  <2> DEFINE before == SubSeq(answer, 1, n)
             whole == SubSeq(answer, 1, last)
             both == before \o piece
  <2>4. /\ both \in Seq(Bars) /\ Len(both) = Len(before) + Len(piece)
        /\ \A i \in 1..(Len(before) + Len(piece)) :
             both[i] = IF i <= Len(before) THEN before[i] ELSE piece[i - Len(before)]
    BY <2>1, <2>3, ConcatProperties
  <2> HIDE DEF before, whole, both, piece
  <2>5. Len(both) = last /\ Len(whole) = last /\ whole \in Seq(Bars)
    BY <1>2, <2>1, <2>2, <2>3, <2>4 DEF before, whole
  <2>6. ASSUME NEW i \in 1..last
        PROVE  both[i] = whole[i]
    <3>1. CASE i <= n
      BY <1>2, <2>1, <2>2, <2>3, <2>4, <3>1 DEF before, whole
    <3>2. CASE ~(i <= n)
      <4>1. i - n \in 1..(last - n) /\ n + (i - n) = i
        BY <1>2, <3>2
      <4>2. both[i] = piece[i - n] /\ piece[i - n] = answer[n + (i - n)]
        BY <1>2, <2>1, <2>3, <2>4, <3>2, <4>1 DEF before
      <4>3. QED
        BY <2>2, <4>1, <4>2 DEF whole
    <3>3. QED
      BY <3>1, <3>2
  <2>7. both = whole
    BY <2>4, <2>5, <2>6, SeqEqual
  <2>8. QED
    BY <2>7 DEF both, before, whole
<1>5. ~(last < Len(answer)) => SubSeq(answer, 1, last) = answer
  <2>1. ASSUME ~(last < Len(answer))
        PROVE  last = Len(answer)
    BY <1>1, <1>2, <2>1
  <2>2. SubSeq(answer, 1, Len(answer)) = answer
    BY <1>1, SubSeqFull
  <2>3. QED
    BY <2>1, <2>2
<1> DEFINE page == get_stock_bars_page(answer, n, limit)
           all == SubSeq(answer, 1, n) \o page.rows
<1>6. page.rows = piece /\ page.next = (last < Len(answer))
  <2> DEFINE more == last < Len(answer)
  <2>1. page = [rows |-> piece, next |-> more]
    BY <1>3
  <2> HIDE DEF page, piece, more
  <2>2. page.rows = piece /\ page.next = more
    BY <2>1
  <2>3. QED
    BY <2>2 DEF more
<1>7. all = SubSeq(answer, 1, last)
  BY <1>4, <1>6
<1> HIDE DEF page, all, piece
<1>8. /\ page.next => \E m \in Nat : m <= Len(answer) /\ all = SubSeq(answer, 1, m)
      /\ ~page.next => all = answer
  BY <1>2, <1>5, <1>6, <1>7
<1>9. QED
  BY <1>8 DEF page, all

(* Sorting a list keeps what it holds. *)
LEMMA SortedList ==
  ASSUME NEW rows \in BarLists
  PROVE  Sorted(rows) \in BarLists /\ Held(Sorted(rows)) = Held(rows)
<1>1. rows \in Seq(Bars) /\ DOMAIN rows = 1..Len(rows) /\ Len(rows) \in Nat
  BY DEF BarLists
<1>2. IsFiniteSet(DOMAIN rows) /\ \A i \in DOMAIN rows : rows[i] \in Bars
  BY <1>1, FS_Interval
<1>3. \A i, j \in DOMAIN rows : rows[i] = rows[j] => i = j
  BY DEF BarLists
<1>4. QED
  BY <1>2, <1>3, SortedFacts

(* The rows of an answer that belong into the files, in their order. *)
LEMMA SessionRowsFacts ==
  ASSUME NEW rows \in BarLists, NEW enabled
  PROVE  /\ Sorted(filter_alpaca_session_rows(rows, enabled)) \in BarLists
         /\ Held(Sorted(filter_alpaca_session_rows(rows, enabled))) =
              {rows[i] : i \in {j \in DOMAIN rows :
                 ~enabled \/ is_regular_session(rows[j].timestamp, DefaultSessionConfig)}}
<1> DEFINE kept == filter_alpaca_session_rows(rows, enabled)
           places == {j \in DOMAIN rows :
                        ~enabled \/ is_regular_session(rows[j].timestamp, DefaultSessionConfig)}
<1>1. kept = Where(rows, places)
  BY DEF filter_alpaca_session_rows
<1>2. places \in SUBSET DOMAIN rows
  OBVIOUS
<1> HIDE DEF places
<1>3. kept \in BarLists /\ Held(kept) = {rows[i] : i \in places}
  BY <1>1, <1>2, WhereFacts
<1> HIDE DEF kept
<1>4. Sorted(kept) \in BarLists /\ Held(Sorted(kept)) = Held(kept)
  BY <1>3, SortedList
<1>5. QED
  BY <1>3, <1>4 DEF kept, places
-----------------------------------------------------------------------------
(* The rows of a window that go into its files. *)
Final(window) ==
  Sorted(filter_alpaca_session_rows(Answer(Market, window), setup.session_filter))

(* A download has the first rows of the answer until it has the last page, and
   those of the files from then on. *)
IsDownload(d) ==
  /\ d = [window |-> d.window, rows |-> d.rows, phase |-> d.phase, todo |-> d.todo]
  /\ d.phase = "fetch" =>
       \E n \in Nat : n <= Len(Answer(Market, d.window)) /\ d.rows = SubSeq(Answer(Market, d.window), 1, n)
  /\ d.phase # "fetch" => d.rows = Final(d.window)

StoreTyped == setup \in Setups /\ FilesTyped /\ \A d \in download : IsDownload(d)

(* A download with some of its fields changed. *)
LEMMA ChangedDownload ==
  ASSUME NEW d, d = [window |-> d.window, rows |-> d.rows, phase |-> d.phase, todo |-> d.todo],
         NEW newRows, NEW newPhase, NEW newTodo
  PROVE  /\ [d EXCEPT !.rows = newRows] =
              [window |-> d.window, rows |-> newRows, phase |-> d.phase, todo |-> d.todo]
         /\ [d EXCEPT !.phase = newPhase] =
              [window |-> d.window, rows |-> d.rows, phase |-> newPhase, todo |-> d.todo]
         /\ [d EXCEPT !.phase = newPhase, !.todo = newTodo] =
              [window |-> d.window, rows |-> d.rows, phase |-> newPhase, todo |-> newTodo]
<1>1. PICK window, rows, phase, todo :
        /\ window = d.window /\ rows = d.rows /\ phase = d.phase /\ todo = d.todo
        /\ d = [window |-> window, rows |-> rows, phase |-> phase, todo |-> todo]
  OBVIOUS
<1>2. [d EXCEPT !.rows = newRows] =
              [window |-> window, rows |-> newRows, phase |-> phase, todo |-> todo]
  BY <1>1
<1>3. [d EXCEPT !.phase = newPhase] =
              [window |-> window, rows |-> rows, phase |-> newPhase, todo |-> todo]
  BY <1>1
<1>4. [d EXCEPT !.phase = newPhase, !.todo = newTodo] =
              [window |-> window, rows |-> rows, phase |-> newPhase, todo |-> newTodo]
  <2>1. \A e : e = [window |-> window, rows |-> rows, phase |-> newPhase, todo |-> todo]
         => [e EXCEPT !.todo = newTodo] = [window |-> window, rows |-> rows, phase |-> newPhase, todo |-> newTodo]
    OBVIOUS
  <2>2. QED
    BY <1>3, <2>1
<1>5. QED
  BY <1>1, <1>2, <1>3, <1>4

LEMMA FetchedDownload ==
  ASSUME NEW d, d = [window |-> d.window, rows |-> d.rows, phase |-> d.phase, todo |-> d.todo],
         NEW newRows, NEW newPhase, NEW newTodo
  PROVE  [d EXCEPT !.rows = newRows, !.phase = newPhase, !.todo = newTodo] =
           [window |-> d.window, rows |-> newRows, phase |-> newPhase, todo |-> newTodo]
<1>1. PICK e : e = [d EXCEPT !.rows = newRows]
  OBVIOUS
<1>2. e = [window |-> d.window, rows |-> newRows, phase |-> d.phase, todo |-> d.todo]
  BY <1>1, ChangedDownload
<1>3. e = [window |-> e.window, rows |-> e.rows, phase |-> e.phase, todo |-> e.todo]
      /\ e.window = d.window /\ e.rows = newRows
  BY <1>2
<1>4. [e EXCEPT !.phase = newPhase, !.todo = newTodo] =
        [window |-> e.window, rows |-> e.rows, phase |-> newPhase, todo |-> newTodo]
  BY <1>3, ChangedDownload
<1>5. QED
  BY <1>1, <1>3, <1>4

LEMMA FinalFacts ==
  ASSUME NEW window
  PROVE  Final(window) \in BarLists
BY AnswerFacts, SessionRowsFacts DEF Final

LEMMA RowsOfFileFacts ==
  ASSUME NEW rows \in BarLists, NEW name, NEW output, NEW window
  PROVE  /\ RowsOfFile(rows, name, output, window) \in BarLists
         /\ Held(RowsOfFile(rows, name, output, window)) =
              {bar \in Held(rows) : file_name(bar, output, window) = name}
<1> DEFINE places == {i \in DOMAIN rows : file_name(rows[i], output, window) = name}
<1>1. RowsOfFile(rows, name, output, window) = Where(rows, places)
  BY DEF RowsOfFile
<1>2. places \in SUBSET DOMAIN rows
  OBVIOUS
<1>3. {rows[i] : i \in places} = {bar \in Held(rows) : file_name(bar, output, window) = name}
  BY DEF Held
<1> HIDE DEF places
<1>4. QED
  BY <1>1, <1>2, <1>3, WhereFacts

LEMMA StoreTypedInit == Init => StoreTyped
<1> SUFFICES ASSUME Init PROVE StoreTyped
  OBVIOUS
<1>1. DOMAIN files = {}
  BY DEF Init
<1>2. QED
  BY <1>1, FS_EmptySet DEF Init, StoreTyped, FilesTyped

(* After a page the download has more of the answer, or its rows and the names of
   its files. *)
LEMMA ReceivePageFacts ==
  ASSUME StoreTyped, ReceivePage
  PROVE  /\ UNCHANGED <<setup, files, completed, torn>>
         /\ \E d \in download : \E e :
              /\ d.phase = "fetch" /\ download' = {e}
              /\ e = [window |-> d.window, rows |-> e.rows, phase |-> e.phase, todo |-> e.todo]
              /\ \/ /\ e.phase = "fetch"
                    /\ \E m \in Nat : /\ m <= Len(Answer(Market, d.window))
                                     /\ e.rows = SubSeq(Answer(Market, d.window), 1, m)
                 \/ /\ e.phase = "write" /\ e.rows = Final(d.window)
                    /\ e.todo = output_files(Final(d.window), setup.output, d.window)
<1>1. PICK d \in download :
        LET page == get_stock_bars_page(Answer(Market, d.window), Len(d.rows), setup.limit)
            all  == d.rows \o page.rows
            rows == Sorted(filter_alpaca_session_rows(all, setup.session_filter))
        IN  /\ d.phase = "fetch"
            /\ download' =
                 {IF page.next THEN [d EXCEPT !.rows = all]
                  ELSE [d EXCEPT !.rows = rows, !.phase = "write",
                                 !.todo = output_files(rows, setup.output, d.window)]}
            /\ UNCHANGED <<setup, files, completed, torn, registryVars, loaded>>
  BY DEF ReceivePage
<1> DEFINE answer == Answer(Market, d.window)
           page == get_stock_bars_page(answer, Len(d.rows), setup.limit)
           all == d.rows \o page.rows
           rows == Sorted(filter_alpaca_session_rows(all, setup.session_filter))
           todo == output_files(rows, setup.output, d.window)
<1>2. /\ d.phase = "fetch" /\ setup' = setup /\ files' = files
      /\ download' = {IF page.next THEN [d EXCEPT !.rows = all]
                      ELSE [d EXCEPT !.rows = rows, !.phase = "write", !.todo = todo]}
  BY <1>1
<1>3. IsDownload(d) /\ answer \in BarLists
  BY <1>1, AnswerFacts DEF StoreTyped
<1>4. PICK n \in Nat : n <= Len(answer) /\ d.rows = SubSeq(answer, 1, n)
  BY <1>2, <1>3 DEF IsDownload
<1>5. Len(d.rows) = n
  BY <1>3, <1>4, PrefixFacts
<1>6. setup.limit \in Nat \ {0}
  BY LifecycleAssumption DEF SetupsAssumption, StoreTyped
<1>7. /\ page.next => \E m \in Nat : m <= Len(answer) /\ all = SubSeq(answer, 1, m)
      /\ ~page.next => all = answer
  <2> DEFINE p == get_stock_bars_page(answer, n, setup.limit)
             a == SubSeq(answer, 1, n) \o p.rows
  <2>1. /\ p.next => \E m \in Nat : m <= Len(answer) /\ a = SubSeq(answer, 1, m)
        /\ ~p.next => a = answer
    <3> HIDE DEF answer
    <3>1. QED
      BY <1>3, <1>4, <1>6, PageFacts
  <2> HIDE DEF answer
  <2>2. page = p /\ all = a
    BY <1>4, <1>5
  <2> HIDE DEF page, all, p, a
  <2>3. QED
    BY <2>1, <2>2
<1> HIDE DEF page, all, todo
<1>8. UNCHANGED <<setup, files, completed, torn>>
  BY <1>1
<1>9. CASE page.next
  <2>1. PICK e : /\ download' = {e}
                 /\ e = [window |-> d.window, rows |-> all, phase |-> "fetch", todo |-> d.todo]
    <3>1. [d EXCEPT !.rows = all] =
            [window |-> d.window, rows |-> all, phase |-> d.phase, todo |-> d.todo]
      BY <1>3, ChangedDownload DEF IsDownload
    <3>2. QED
      BY <1>2, <1>9, <3>1
  <2>2. PICK m \in Nat : m <= Len(answer) /\ all = SubSeq(answer, 1, m)
    BY <1>7, <1>9
  <2>3. /\ e = [window |-> d.window, rows |-> e.rows, phase |-> e.phase, todo |-> e.todo]
        /\ e.phase = "fetch" /\ e.rows = SubSeq(answer, 1, m)
    BY <2>1, <2>2
  <2>4. QED
    BY <1>2, <1>8, <2>1, <2>2, <2>3
<1>10. CASE ~page.next
  <2>1. rows = Final(d.window) /\ todo = output_files(Final(d.window), setup.output, d.window)
    BY <1>7, <1>10 DEF Final, todo
  <2> HIDE DEF rows
  <2>2. PICK e : /\ download' = {e}
                 /\ e = [window |-> d.window, rows |-> rows, phase |-> "write", todo |-> todo]
    <3>1. d = [window |-> d.window, rows |-> d.rows, phase |-> d.phase, todo |-> d.todo]
      BY <1>3 DEF IsDownload
    <3>2. \A x, y, z : [d EXCEPT !.rows = x, !.phase = y, !.todo = z] =
                         [window |-> d.window, rows |-> x, phase |-> y, todo |-> z]
      BY <3>1, FetchedDownload
    <3>3. [d EXCEPT !.rows = rows, !.phase = "write", !.todo = todo] =
            [window |-> d.window, rows |-> rows, phase |-> "write", todo |-> todo]
      BY <3>2
    <3>4. QED
      BY <1>2, <1>10, <3>3
  <2>3. /\ e = [window |-> d.window, rows |-> e.rows, phase |-> e.phase, todo |-> e.todo]
        /\ e.phase = "write" /\ e.rows = Final(d.window)
        /\ e.todo = output_files(Final(d.window), setup.output, d.window)
    BY <2>1, <2>2
  <2>4. QED
    BY <1>2, <1>8, <2>2, <2>3
<1>11. QED
  BY <1>9, <1>10

LEMMA StoreTypedReceivePage ==
  ASSUME StoreTyped, ReceivePage
  PROVE  StoreTyped'
<1>1. PICK d \in download : \E e :
        /\ d.phase = "fetch" /\ download' = {e}
        /\ e = [window |-> d.window, rows |-> e.rows, phase |-> e.phase, todo |-> e.todo]
        /\ \/ /\ e.phase = "fetch"
              /\ \E m \in Nat : /\ m <= Len(Answer(Market, d.window))
                               /\ e.rows = SubSeq(Answer(Market, d.window), 1, m)
           \/ e.phase = "write" /\ e.rows = Final(d.window)
  BY ReceivePageFacts
<1>2. PICK e :
        /\ download' = {e}
        /\ e = [window |-> d.window, rows |-> e.rows, phase |-> e.phase, todo |-> e.todo]
        /\ \/ /\ e.phase = "fetch"
              /\ \E m \in Nat : /\ m <= Len(Answer(Market, d.window))
                               /\ e.rows = SubSeq(Answer(Market, d.window), 1, m)
           \/ e.phase = "write" /\ e.rows = Final(d.window)
  BY <1>1
<1>3. setup' = setup /\ files' = files
  BY ReceivePageFacts
<1>4. e.window = d.window
  BY <1>2
<1>5. Final(d.window)' = Final(d.window)
  BY <1>3 DEF Final
<1>6. IsDownload(e)'
  BY <1>2, <1>4, <1>5 DEF IsDownload
<1>7. FilesTyped' /\ setup' \in Setups
  BY <1>3 DEF StoreTyped, FilesTyped
<1>8. QED
  BY <1>2, <1>6, <1>7 DEF StoreTyped

(* The next file appears, with some of its rows or none. *)
LEMMA OpenFileFacts ==
  ASSUME StoreTyped, OpenFile
  PROVE  /\ UNCHANGED <<setup, completed, torn>>
         /\ \E d \in download : \E e, content :
              /\ d.phase = "write" /\ d.todo # <<>>
              /\ download' = {e} /\ d.rows = Final(d.window)
              /\ e = [window |-> d.window, rows |-> d.rows, phase |-> "open", todo |-> d.todo]
              /\ files' = [name \in DOMAIN files \cup {Head(d.todo)} |->
                             IF name = Head(d.todo) THEN content ELSE files[name]]
              /\ \A list \in content : list \in BarLists
<1>1. PICK d \in download :
        /\ d.phase = "write" /\ d.todo # <<>>
        /\ LET rows == RowsOfFile(d.rows, Head(d.todo), setup.output, d.window)
           IN  \E content \in {{}} \cup {{SubSeq(rows, 1, n)} :
                                       n \in setup.flushed \cap 0..(Len(rows) - 1)} :
                 files' = [name \in DOMAIN files \cup {Head(d.todo)} |->
                             IF name = Head(d.todo) THEN content ELSE files[name]]
        /\ download' = {[d EXCEPT !.phase = "open"]}
        /\ UNCHANGED <<setup, completed, torn, registryVars, loaded>>
  BY DEF OpenFile
<1> DEFINE rows == RowsOfFile(d.rows, Head(d.todo), setup.output, d.window)
           next == Head(d.todo)
<1>2. PICK content \in {{}} \cup {{SubSeq(rows, 1, n)} :
                                n \in setup.flushed \cap 0..(Len(rows) - 1)} :
        files' = [name \in DOMAIN files \cup {next} |->
                    IF name = next THEN content ELSE files[name]]
  BY <1>1
<1>3. IsDownload(d) /\ d.rows \in BarLists /\ d.rows = Final(d.window)
  BY <1>1, FinalFacts DEF StoreTyped, IsDownload
<1>4. rows \in BarLists
  BY <1>3, RowsOfFileFacts
<1>5. \A list \in content : list \in BarLists
  <2> HIDE DEF rows
  <2>1. Len(rows) \in Nat
    BY <1>4 DEF BarLists
  <2>2. \A n \in 0..(Len(rows) - 1) : SubSeq(rows, 1, n) \in BarLists
    BY <1>4, <2>1, PrefixFacts
  <2>3. QED
    BY <1>2, <2>2
<1>6. PICK e : /\ download' = {e}
               /\ e = [window |-> d.window, rows |-> d.rows, phase |-> "open", todo |-> d.todo]
  <2>1. [d EXCEPT !.phase = "open"] =
          [window |-> d.window, rows |-> d.rows, phase |-> "open", todo |-> d.todo]
    BY <1>3, ChangedDownload DEF IsDownload
  <2>2. QED
    BY <1>1, <2>1
<1>7. QED
  BY <1>1, <1>2, <1>3, <1>5, <1>6

LEMMA StoreTypedOpenFile ==
  ASSUME StoreTyped, OpenFile
  PROVE  StoreTyped'
<1>1. PICK d, e, content :
        /\ d \in download
        /\ download' = {e} /\ d.rows = Final(d.window)
        /\ e = [window |-> d.window, rows |-> d.rows, phase |-> "open", todo |-> d.todo]
        /\ files' = [name \in DOMAIN files \cup {Head(d.todo)} |->
                       IF name = Head(d.todo) THEN content ELSE files[name]]
        /\ \A list \in content : list \in BarLists
  BY OpenFileFacts
<1>2. setup' = setup
  BY OpenFileFacts
<1>3. DOMAIN files' = DOMAIN files \cup {Head(d.todo)}
  BY <1>1
<1>4. FilesTyped'
  <2>1. IsFiniteSet(DOMAIN files')
    BY <1>3, FS_AddElement DEF StoreTyped, FilesTyped
  <2>2. \A name \in DOMAIN files' : \A list \in files'[name] : list \in BarLists
    BY <1>1, <1>3 DEF StoreTyped, FilesTyped
  <2>3. QED
    BY <2>1, <2>2 DEF FilesTyped
<1>5. IsDownload(e)'
  <2>1. d.rows = Final(d.window)'
    BY <1>1, <1>2 DEF Final
  <2>2. QED
    BY <1>1, <2>1 DEF IsDownload
<1>6. QED
  BY <1>1, <1>2, <1>4, <1>5 DEF StoreTyped

(* The file that is open gets all its rows. *)
LEMMA CloseFileFacts ==
  ASSUME StoreTyped, CloseFile
  PROVE  /\ UNCHANGED <<setup, completed, torn>>
         /\ \E d \in download : \E e :
              /\ d.phase = "open" /\ download' = {e} /\ d.rows = Final(d.window)
              /\ e = [window |-> d.window, rows |-> d.rows, phase |-> "write",
                      todo |-> Tail(d.todo)]
              /\ files' = [files EXCEPT ![Head(d.todo)] =
                             {RowsOfFile(Final(d.window), Head(d.todo), setup.output, d.window)}]
<1>1. PICK d \in download :
        /\ d.phase = "open"
        /\ files' = [files EXCEPT ![Head(d.todo)] =
                       {RowsOfFile(d.rows, Head(d.todo), setup.output, d.window)}]
        /\ download' = {[d EXCEPT !.phase = "write", !.todo = Tail(@)]}
        /\ UNCHANGED <<setup, completed, torn, registryVars, loaded>>
  BY DEF CloseFile
<1>2. IsDownload(d) /\ d.rows = Final(d.window)
  BY <1>1 DEF StoreTyped, IsDownload
<1>3. PICK e : /\ download' = {e}
               /\ e = [window |-> d.window, rows |-> d.rows, phase |-> "write",
                       todo |-> Tail(d.todo)]
  <2>1. [d EXCEPT !.phase = "write", !.todo = Tail(d.todo)] =
          [window |-> d.window, rows |-> d.rows, phase |-> "write", todo |-> Tail(d.todo)]
    BY <1>2, ChangedDownload DEF IsDownload
  <2>2. QED
    BY <1>1, <2>1
<1>4. files' = [files EXCEPT ![Head(d.todo)] =
                  {RowsOfFile(Final(d.window), Head(d.todo), setup.output, d.window)}]
  BY <1>1, <1>2
<1>5. QED
  BY <1>1, <1>2, <1>3, <1>4

LEMMA StoreTypedCloseFile ==
  ASSUME StoreTyped, CloseFile
  PROVE  StoreTyped'
<1>1. PICK d, e :
        /\ d \in download
        /\ download' = {e} /\ d.rows = Final(d.window)
        /\ e = [window |-> d.window, rows |-> d.rows, phase |-> "write", todo |-> Tail(d.todo)]
        /\ files' = [files EXCEPT ![Head(d.todo)] =
                       {RowsOfFile(Final(d.window), Head(d.todo), setup.output, d.window)}]
  BY CloseFileFacts
<1>2. setup' = setup
  BY CloseFileFacts
<1> DEFINE rows == RowsOfFile(Final(d.window), Head(d.todo), setup.output, d.window)
<1>3. rows \in BarLists
  BY FinalFacts, RowsOfFileFacts
<1>4. FilesTyped'
  <2> HIDE DEF rows
  <2>1. DOMAIN files' = DOMAIN files
    BY <1>1
  <2>2. \A name \in DOMAIN files : files'[name] = files[name] \/ files'[name] = {rows}
    BY <1>1 DEF rows
  <2>3. QED
    BY <1>3, <2>1, <2>2 DEF StoreTyped, FilesTyped
<1>5. IsDownload(e)'
  <2>1. d.rows = Final(d.window)'
    BY <1>1, <1>2 DEF Final
  <2>2. QED
    BY <1>1, <2>1 DEF IsDownload
<1>6. QED
  BY <1>1, <1>2, <1>4, <1>5 DEF StoreTyped

LEMMA StoreTypedStart ==
  ASSUME StoreTyped, StartDownload
  PROVE  StoreTyped'
<1>1. PICK window \in setup.windows :
        download' = {[window |-> window, rows |-> <<>>, phase |-> "fetch", todo |-> <<>>]}
  BY DEF StartDownload
<1>2. SubSeq(Answer(Market, window), 1, 0) = <<>>
  BY SubSeqEmpty
<1>3. 0 \in Nat /\ 0 <= Len(Answer(Market, window))
  BY AnswerFacts DEF BarLists
<1> DEFINE e == [window |-> window, rows |-> <<>>, phase |-> "fetch", todo |-> <<>>]
<1>4. IsDownload(e)'
  BY <1>2, <1>3 DEF IsDownload
<1>5. QED
  BY <1>1, <1>4 DEF StartDownload, StoreTyped, FilesTyped

(* The steps that leave the files alone and start no download. *)
LEMMA StoreTypedOther ==
  ASSUME StoreTyped, UNCHANGED <<setup, files>>, download' \subseteq download
  PROVE  StoreTyped'
<1>1. ASSUME NEW d \in download'
      PROVE  IsDownload(d)'
  <2>1. IsDownload(d)
    BY <1>1 DEF StoreTyped
  <2>2. Final(d.window)' = Final(d.window)
    BY DEF Final
  <2>3. QED
    BY <2>1, <2>2 DEF IsDownload
<1>2. QED
  BY <1>1 DEF StoreTyped, FilesTyped

LEMMA StoreTypedNext == StoreTyped /\ [Next]_vars => StoreTyped'
<1>1. SUFFICES ASSUME StoreTyped, [Next]_vars
               PROVE  StoreTyped'
  OBVIOUS
<1>2. CASE StartDownload
  BY <1>1, <1>2, StoreTypedStart
<1>3. CASE ReceivePage
  BY <1>1, <1>3, StoreTypedReceivePage
<1>4. CASE OpenFile
  BY <1>1, <1>4, StoreTypedOpenFile
<1>5. CASE CloseFile
  BY <1>1, <1>5, StoreTypedCloseFile
<1>6. CASE FinishDownload \/ StopDownload
  <2>1. UNCHANGED <<setup, files>> /\ download' = {}
    BY <1>6 DEF FinishDownload, StopDownload
  <2>2. QED
    BY <1>1, <2>1, StoreTypedOther
<1>7. CASE Train \/ SaveManifest \/ CrashTraining \/ Transition \/ Load \/ Unload \/ UNCHANGED vars
  <2>1. UNCHANGED <<setup, storeVars>>
    <3>1. CASE Train
      BY <3>1 DEF Train
    <3>2. CASE SaveManifest
      BY <3>2 DEF SaveManifest
    <3>3. CASE Transition
      BY <3>3 DEF Transition
    <3>4. CASE CrashTraining \/ Load \/ Unload \/ UNCHANGED vars
      BY <3>4 DEF CrashTraining, Load, Unload, vars
    <3>5. QED
      BY <1>7, <3>1, <3>2, <3>3, <3>4
  <2>2. UNCHANGED <<setup, files>> /\ download' = download
    BY <2>1 DEF storeVars
  <2>3. QED
    BY <1>1, <2>2, StoreTypedOther
<1>8. QED
  BY <1>1, <1>2, <1>3, <1>4, <1>5, <1>6, <1>7 DEF Next
-----------------------------------------------------------------------------
(* The model in the registry leaks nothing. *)
ModelsLeakFree == \A model \in registry.artifact : LeakFree(model.split)

LearningInv == RegistryInv /\ StoreTyped /\ ModelsLeakFree

LEMMA ModelsLeakFreeTrain ==
  ASSUME LearningInv, Train
  PROVE  ModelsLeakFree'
<1>1. PICK config \in setup.trainings, bars \in provider_bars(files) :
        \E split \in train_directional_pipeline(
                       filter_bars(bars, config.symbols, config.window), config) :
          LET model == [trained_at |-> trained + 1,
                        feature_names |-> feature_names(config.specs), split |-> split]
          IN  /\ registry' = write_artifact(registry, model)
              /\ saving' = {[model |-> model, stage |-> config.stage,
                             approved_by |-> config.approved_by]}
  BY DEF Train
<1>2. PICK split \in train_directional_pipeline(
                       filter_bars(bars, config.symbols, config.window), config) :
        LET model == [trained_at |-> trained + 1,
                      feature_names |-> feature_names(config.specs), split |-> split]
        IN  registry' = write_artifact(registry, model)
  BY <1>1
<1> DEFINE model == [trained_at |-> trained + 1,
                     feature_names |-> feature_names(config.specs), split |-> split]
<1>3. IsTraining(config)
  BY <1>1, LifecycleAssumption DEF LearningInv, StoreTyped, SetupsAssumption, IsTraining
<1>4. bars \in BarLists
  BY <1>1, ProviderFacts DEF LearningInv, StoreTyped
<1>5. filter_bars(bars, config.symbols, config.window) \in BarLists
  BY <1>4, FilteredFacts
<1>6. LeakFree(split)
  BY <1>2, <1>3, <1>5, TrainingFacts
<1>7. model.split = split
  OBVIOUS
<1>8. registry' = write_artifact(registry, model)
  BY <1>2
<1> HIDE DEF model
<1>9. registry'.artifact = {model}
  BY <1>8 DEF write_artifact, LearningInv, RegistryInv, Numbered
<1>10. QED
  BY <1>6, <1>7, <1>9 DEF ModelsLeakFree

(* Nothing but a training writes an artifact. *)
LEMMA OnlyTrainWrites ==
  ASSUME RegistryInv, [Next]_vars, ~Train
  PROVE  registry'.artifact = registry.artifact
<1>1. \A manifest : save_manifest(registry, manifest).artifact = registry.artifact
  BY DEF save_manifest, RegistryInv, Numbered
<1>2. CASE SaveManifest
  <2>1. PICK save \in saving :
          IF from_model(save.model, save.stage, save.approved_by) = {} THEN UNCHANGED registry
          ELSE \E manifest \in from_model(save.model, save.stage, save.approved_by) :
                 registry' = save_manifest(registry, manifest)
    BY <1>2 DEF SaveManifest
  <2>2. QED
    BY <1>1, <2>1
<1>3. CASE Transition
  <2>1. PICK stage \in Stages, actor \in setup.actors :
          \E manifest \in transition(registry, stage, actor) :
            registry' = save_manifest(registry, manifest)
    BY <1>3 DEF Transition
  <2>2. QED
    BY <1>1, <2>1
<1>4. CASE \/ StartDownload \/ ReceivePage \/ OpenFile \/ CloseFile \/ FinishDownload
           \/ StopDownload \/ CrashTraining \/ Load \/ Unload \/ UNCHANGED vars
  BY <1>4 DEF StartDownload, ReceivePage, OpenFile, CloseFile, FinishDownload, StopDownload,
              CrashTraining, Load, Unload, vars, registryVars
<1>5. QED
  BY <1>2, <1>3, <1>4 DEF Next

(* No model in the registry was fitted on what its evaluation looks at, for
   every market, every embargo and every moment a training reads the files,
   one at which a download is rewriting them included
   (ml/splits.py: chronological_split, validate_no_temporal_leakage). *)
THEOREM TrainedOnThePast == Spec => []NoLeakage
<1>1. Init => LearningInv
  <2>1. Init => ModelsLeakFree
    BY DEF Init, EmptyRegistry, ModelsLeakFree
  <2>2. QED
    BY <2>1, RegistryInvInit, StoreTypedInit DEF LearningInv
<1>2. LearningInv /\ [Next]_vars => LearningInv'
  <2>1. SUFFICES ASSUME LearningInv, [Next]_vars
                 PROVE  LearningInv'
    OBVIOUS
  <2>2. RegistryInv' /\ StoreTyped'
    BY <2>1, RegistryInvNext, StoreTypedNext DEF LearningInv
  <2>3. CASE Train
    BY <2>1, <2>2, <2>3, ModelsLeakFreeTrain DEF LearningInv
  <2>4. CASE ~Train
    <3>1. registry'.artifact = registry.artifact
      BY <2>1, <2>4, OnlyTrainWrites DEF LearningInv
    <3>2. QED
      BY <2>1, <2>2, <3>1 DEF LearningInv, ModelsLeakFree
  <2>5. QED
    BY <2>3, <2>4
<1>3. LearningInv => NoLeakage
  BY DEF LearningInv, ModelsLeakFree, LeakFree, NoLeakage, Part
<1>4. QED
  BY <1>1, <1>2, <1>3, PTL DEF Spec
-----------------------------------------------------------------------------
(* The files of a window, by the names that its rows get, or the one name of a
   single file. *)
Names(window) == Range(output_files(Final(window), setup.output, window))

(* A file holds the rows of a window that belong into it, all of them. *)
Holds(name, window) ==
  /\ name \in DOMAIN files
  /\ files[name] = {RowsOfFile(Final(window), name, setup.output, window)}

(* A download that writes. *)
Writes(d) == d.phase # "fetch"

(* The downloads are of windows of the configuration, one at a time; the names
   left to write are names of the window, and a file that is open is there. *)
DownloadsTyped ==
  /\ files = [name \in DOMAIN files |-> files[name]]
  /\ completed \in Seq(setup.windows)
  /\ \A d, e \in download : d = e
  /\ \A d \in download :
       /\ d.window \in setup.windows
       /\ d.phase \in {"fetch", "write", "open"}
       /\ Writes(d) => d.todo \in Seq(Names(d.window))
       /\ d.phase = "open" => d.todo # <<>> /\ Head(d.todo) \in DOMAIN files

(* Unless a download was cut off between its writes, every file holds what it
   should: those of the windows downloaded, but for the ones being written, and
   those that are written already; and there is no other file. *)
KeptWhole ==
  /\ \A window \in Kept : \A name \in Names(window) :
       (\A d \in download : Writes(d) => name \notin Names(d.window)) => Holds(name, window)
  /\ \A d \in download : Writes(d) =>
       \A name \in Names(d.window) \ Range(d.todo) : Holds(name, d.window)
  /\ \A name \in DOMAIN files :
       \/ \E window \in Kept : name \in Names(window)
       \/ \E d \in download : Writes(d) /\ name \in Names(d.window)

StoreInv == StoreTyped /\ DownloadsTyped /\ (~torn => KeptWhole)

(* The name of the file of a bar. *)
NameOf(bar, window) == file_name(bar, setup.output, window)

LEMMA NameFacts ==
  ASSUME StoreTyped, NEW window, NEW bar \in Bars
  PROVE  /\ NameOf(bar, window)[1] \in Nat /\ NameOf(bar, window)[2] \in Nat
         /\ NameOf(bar, window) = <<NameOf(bar, window)[1], NameOf(bar, window)[2],
                                    template_values(setup.output, window)>>
         /\ output_layout(setup.output) # "partitioned" =>
              NameOf(bar, window) = <<0, 0, template_values(setup.output, window)>>
<1>1. Rank(bar.symbol) \in Nat /\ bar.timestamp \in Nat
  BY BarFacts, RankFacts
<1>2. bar.timestamp \div 1440 \in Nat
  BY <1>1
<1>3. CASE output_layout(setup.output) = "partitioned"
  <2>1. NameOf(bar, window) = <<Rank(bar.symbol), bar.timestamp \div 1440,
                                template_values(setup.output, window)>>
    BY <1>3 DEF NameOf, file_name
  <2>2. QED
    BY <1>1, <1>2, <1>3, <2>1
<1>4. CASE output_layout(setup.output) # "partitioned"
  <2>1. NameOf(bar, window) = <<0, 0, template_values(setup.output, window)>>
    BY <1>4 DEF NameOf, file_name
  <2>2. QED
    BY <2>1
<1>5. QED
  BY <1>3, <1>4

(* The names of a window are those of its rows, each once; a single file has its
   name even without a row. *)
LEMMA NamesFacts ==
  ASSUME StoreTyped, NEW window
  PROVE  /\ output_files(Final(window), setup.output, window) \in Seq(Names(window))
         /\ output_layout(setup.output) = "single_file" =>
              Names(window) = {<<0, 0, template_values(setup.output, window)>>}
         /\ output_layout(setup.output) = "partitioned" =>
              Names(window) = {NameOf(bar, window) : bar \in Held(Final(window))}
<1> DEFINE rows == Final(window)
           list == output_files(rows, setup.output, window)
           names == {NameOf(bar, window) : bar \in Held(rows)}
<1>1. CASE output_layout(setup.output) = "single_file"
  <2> DEFINE name == <<0, 0, template_values(setup.output, window)>>
  <2>1. list = <<name>>
    BY <1>1 DEF output_files
  <2>2. list \in Seq({name}) /\ Range(list) = {name}
    <3> HIDE DEF name, list
    <3>1. QED
      BY <2>1 DEF Range
  <2>3. QED
    BY <1>1, <2>2 DEF Names
<1>2. CASE output_layout(setup.output) = "partitioned"
  <2>1. rows \in BarLists
    BY FinalFacts
  <2>2. names = {file_name(rows[i], setup.output, window) : i \in DOMAIN rows}
    <3> HIDE DEF rows
    <3>1. QED
      BY DEF Held, NameOf
  <2> DEFINE key == [name \in names |-> <<name[1], name[2]>>]
             members == [name \in names |-> name]
  <2>3. list = SortedBy(members, key)
    <3> DEFINE named == {file_name(rows[i], setup.output, window) : i \in DOMAIN rows}
    <3>1. list = SortedBy(Members(named), [name \in named |-> <<name[1], name[2]>>])
      <4> HIDE DEF rows
      <4>1. QED
        BY <1>2 DEF output_files
    <3> HIDE DEF named, list
    <3>2. names = named
      BY <2>2 DEF named
    <3> HIDE DEF names
    <3>3. QED
      BY <3>1, <3>2 DEF Members
  <2>4. \A bar \in Held(rows) : bar \in Bars
    <3> HIDE DEF rows
    <3>1. QED
      BY <2>1 DEF Held, BarLists
  <2>5. \A name \in names : /\ name[1] \in Nat /\ name[2] \in Nat
                            /\ name = <<name[1], name[2], template_values(setup.output, window)>>
    BY <2>4, NameFacts
  <2>6. IsFiniteSet(names)
    <3> DEFINE f == [i \in DOMAIN rows |-> file_name(rows[i], setup.output, window)]
    <3>1. DOMAIN rows = 1..Len(rows) /\ Len(rows) \in Nat
      <4> HIDE DEF rows
      <4>1. QED
        BY <2>1 DEF BarLists
    <3>2. IsFiniteSet(DOMAIN rows)
      BY <3>1, FS_Interval
    <3>3. DOMAIN f = DOMAIN rows /\ names = {f[i] : i \in DOMAIN rows}
      BY <2>2
    <3> HIDE DEF f, rows, names
    <3>4. QED
      BY <3>2, <3>3, ImageIsFinite
  <2> HIDE DEF names
  <2>7. key \in [DOMAIN members -> Int \X Int] /\ DOMAIN members = names
    BY <2>5
  <2>8. \A x, y \in DOMAIN members : key[x] = key[y] => x = y
    <3>1. SUFFICES ASSUME NEW x \in names, NEW y \in names, key[x] = key[y]
                   PROVE  x = y
      BY <2>7
    <3>2. x[1] = y[1] /\ x[2] = y[2]
      BY <3>1
    <3>3. QED
      BY <2>5, <3>2
  <2> HIDE DEF key
  <2>9. PICK n \in Nat : \E at \in [1..n -> DOMAIN members] :
          /\ n = Cardinality(DOMAIN members)
          /\ SortedBy(members, key) = [k \in 1..n |-> members[at[k]]]
          /\ \A k, l \in 1..n : k < l => Precedes(key[at[k]], key[at[l]])
          /\ \A x \in DOMAIN members : \E k \in 1..n : at[k] = x
    <3> HIDE DEF members
    <3>1. IsFiniteSet(DOMAIN members)
      BY <2>6, <2>7
    <3>2. QED
      BY <2>7, <2>8, <3>1, SortedByFacts, ZenonT(60)
  <2>10. PICK at \in [1..n -> names] :
           /\ SortedBy(members, key) = [k \in 1..n |-> members[at[k]]]
           /\ \A x \in names : \E k \in 1..n : at[k] = x
    BY <2>7, <2>9
  <2>11. list = [k \in 1..n |-> at[k]]
    BY <2>3, <2>10
  <2> HIDE DEF list
  <2>12. list \in Seq(names) /\ DOMAIN list = 1..n
    BY <2>10, <2>11
  <2>13. Range(list) = names
    <3>1. Range(list) \subseteq names
      BY <2>12 DEF Range
    <3>2. ASSUME NEW x \in names
          PROVE  x \in Range(list)
      <4>1. PICK k \in 1..n : at[k] = x
        BY <2>10
      <4>2. list[k] = x
        BY <2>11, <4>1
      <4>3. QED
        BY <2>12, <4>2 DEF Range
    <3>3. QED
      BY <3>1, <3>2
  <2>14. Names(window) = names
    BY <2>13 DEF Names, list
  <2>15. QED
    BY <1>2, <2>12, <2>14 DEF names, list
<1>3. output_layout(setup.output) \in {"single_file", "partitioned"}
  BY LifecycleAssumption DEF StoreTyped, SetupsAssumption
<1>4. QED
  BY <1>1, <1>2, <1>3

(* Every row goes into a file of its window. *)
LEMMA RowsHaveFiles ==
  ASSUME StoreTyped, NEW window, NEW bar \in Held(Final(window))
  PROVE  NameOf(bar, window) \in Names(window)
<1>1. bar \in Bars
  BY FinalFacts DEF Held, BarLists
<1>2. output_layout(setup.output) \in {"single_file", "partitioned"}
  BY LifecycleAssumption DEF StoreTyped, SetupsAssumption
<1>3. CASE output_layout(setup.output) = "single_file"
  BY <1>1, <1>3, NamesFacts, NameFacts
<1>4. CASE output_layout(setup.output) = "partitioned"
  BY <1>4, NamesFacts
<1>5. QED
  BY <1>2, <1>3, <1>4

(* Two windows have no file in common, unless all go to the same one. *)
LEMMA NamesApart ==
  ASSUME StoreTyped, ~FixedPath(setup.output), NEW v, NEW w,
         NEW name \in Names(v), name \in Names(w)
  PROVE  v = w
<1>1. template_values(setup.output, v) = v /\ template_values(setup.output, w) = w
  BY DEF template_values
<1>2. \A window : \A n \in Names(window) : n[3] = template_values(setup.output, window)
  <2>1. SUFFICES ASSUME NEW window, NEW n \in Names(window)
                 PROVE  n[3] = template_values(setup.output, window)
    OBVIOUS
  <2>2. output_layout(setup.output) \in {"single_file", "partitioned"}
    BY LifecycleAssumption DEF StoreTyped, SetupsAssumption
  <2>3. CASE output_layout(setup.output) = "single_file"
    <3>1. n = <<0, 0, template_values(setup.output, window)>>
      BY <2>1, <2>3, NamesFacts
    <3>2. QED
      BY <3>1
  <2>4. CASE output_layout(setup.output) = "partitioned"
    <3>1. PICK bar \in Held(Final(window)) : n = NameOf(bar, window)
      BY <2>1, <2>4, NamesFacts
    <3>2. bar \in Bars
      BY FinalFacts DEF Held, BarLists
    <3>3. n = <<n[1], n[2], template_values(setup.output, window)>>
      BY <3>1, <3>2, NameFacts
    <3>4. QED
      BY <3>3
  <2>5. QED
    BY <2>2, <2>3, <2>4
<1>3. QED
  BY <1>1, <1>2
-----------------------------------------------------------------------------
LEMMA SetupStays ==
  ASSUME setup' = setup
  PROVE  /\ \A window : Final(window)' = Final(window) /\ Names(window)' = Names(window)
         /\ completed' = completed => Kept' = Kept
BY DEF Final, Names, Kept

(* A file that does not change holds what it held. *)
LEMMA HoldsStays ==
  ASSUME setup' = setup, NEW name \in DOMAIN files', files'[name] = files[name], NEW window,
         Holds(name, window)
  PROVE  Holds(name, window)'
BY SetupStays DEF Holds

LEMMA StoreInvInit == Init => StoreInv
<1> SUFFICES ASSUME Init PROVE StoreInv
  OBVIOUS
<1>1. files = <<>> /\ DOMAIN files = {} /\ completed = <<>> /\ download = {}
  BY DEF Init
<1>2. files = [name \in DOMAIN files |-> files[name]]
  BY <1>1
<1>3. completed \in Seq(setup.windows)
  BY <1>1
<1>4. Kept = {}
  BY <1>1 DEF Kept, Range
<1>5. QED
  BY <1>1, <1>2, <1>3, <1>4, StoreTypedInit DEF StoreInv, DownloadsTyped, KeptWhole

LEMMA StoreInvStart ==
  ASSUME StoreInv, StartDownload
  PROVE  StoreInv'
<1>1. /\ download = {} /\ UNCHANGED <<setup, files, completed, torn>>
      /\ \E window \in setup.windows :
           download' = {[window |-> window, rows |-> <<>>, phase |-> "fetch", todo |-> <<>>]}
  BY DEF StartDownload
<1>2. PICK window \in setup.windows :
        download' = {[window |-> window, rows |-> <<>>, phase |-> "fetch", todo |-> <<>>]}
  BY <1>1
<1>3. \A d \in download' : d.window = window /\ d.phase = "fetch" /\ ~Writes(d)
  BY <1>2 DEF Writes
<1>4. DownloadsTyped'
  BY <1>1, <1>2, <1>3 DEF StoreInv, DownloadsTyped
<1>5. ~torn' => KeptWhole'
  BY <1>1, <1>3, SetupStays DEF StoreInv, KeptWhole, Holds
<1>6. QED
  BY <1>4, <1>5, StoreTypedStart DEF StoreInv

LEMMA StoreInvReceivePage ==
  ASSUME StoreInv, ReceivePage
  PROVE  StoreInv'
<1>1. UNCHANGED <<setup, files, completed, torn>>
  BY ReceivePageFacts DEF StoreInv
<1>2. PICK d, e :
        /\ d \in download
        /\ d.phase = "fetch" /\ download' = {e}
        /\ e = [window |-> d.window, rows |-> e.rows, phase |-> e.phase, todo |-> e.todo]
        /\ \/ e.phase = "fetch"
           \/ /\ e.phase = "write"
              /\ e.todo = output_files(Final(d.window), setup.output, d.window)
  <2>1. PICK d \in download : \E e :
          /\ d.phase = "fetch" /\ download' = {e}
          /\ e = [window |-> d.window, rows |-> e.rows, phase |-> e.phase, todo |-> e.todo]
          /\ \/ e.phase = "fetch"
             \/ /\ e.phase = "write"
                /\ e.todo = output_files(Final(d.window), setup.output, d.window)
    BY ReceivePageFacts DEF StoreInv
  <2>2. QED
    BY <2>1
<1>3. e.window = d.window /\ d.window \in setup.windows /\ e.phase \in {"fetch", "write"}
  BY <1>2 DEF StoreInv, DownloadsTyped
<1>4. Writes(e) => e.todo \in Seq(Names(d.window)) /\ Range(e.todo) = Names(d.window)
  BY <1>2, NamesFacts DEF StoreInv, Writes, Names
<1>5. \A c \in download : ~Writes(c)
  BY <1>2 DEF StoreInv, DownloadsTyped, Writes
<1>6. DownloadsTyped'
  BY <1>1, <1>2, <1>3, <1>4, SetupStays DEF StoreInv, DownloadsTyped
<1>7. ~torn' => KeptWhole'
  <2>1. SUFFICES ASSUME ~torn
                 PROVE  KeptWhole'
    BY <1>1
  <2>2. KeptWhole
    BY <2>1 DEF StoreInv
  <2>3. \A window, name : Holds(name, window)' = Holds(name, window)
    BY <1>1, SetupStays DEF Holds
  <2>4. \A window \in Kept' : \A name \in Names(window)' : Holds(name, window)'
    BY <1>1, <1>5, <2>2, <2>3, SetupStays DEF KeptWhole
  <2>5. \A name \in DOMAIN files' : \E window \in Kept' : name \in Names(window)'
    BY <1>1, <1>5, <2>2, SetupStays DEF KeptWhole
  <2>6. \A c \in download' : Writes(c) => Names(c.window)' \ Range(c.todo) = {}
    BY <1>1, <1>2, <1>3, <1>4, SetupStays
  <2>7. QED
    BY <2>4, <2>5, <2>6 DEF KeptWhole
<1>8. QED
  BY <1>6, <1>7, StoreTypedReceivePage DEF StoreInv

LEMMA StoreInvOpenFile ==
  ASSUME StoreInv, OpenFile
  PROVE  StoreInv'
<1>1. UNCHANGED <<setup, completed, torn>>
  BY OpenFileFacts DEF StoreInv
<1>2. PICK d, e, content :
        /\ d \in download
        /\ d.phase = "write" /\ d.todo # <<>> /\ download' = {e}
        /\ e = [window |-> d.window, rows |-> d.rows, phase |-> "open", todo |-> d.todo]
        /\ files' = [name \in DOMAIN files \cup {Head(d.todo)} |->
                       IF name = Head(d.todo) THEN content ELSE files[name]]
  <2>1. PICK d \in download : \E e, content :
          /\ d.phase = "write" /\ d.todo # <<>> /\ download' = {e}
          /\ e = [window |-> d.window, rows |-> d.rows, phase |-> "open", todo |-> d.todo]
          /\ files' = [name \in DOMAIN files \cup {Head(d.todo)} |->
                         IF name = Head(d.todo) THEN content ELSE files[name]]
    BY SMTT(20), ZenonT(40), OpenFileFacts DEF StoreInv
  <2>2. QED
    BY SMTT(20), ZenonT(40), <2>1
<1>3. /\ d.window \in setup.windows /\ Writes(d) /\ d.todo \in Seq(Names(d.window))
      /\ \A c \in download : c = d
  BY <1>2 DEF StoreInv, DownloadsTyped, Writes
<1> DEFINE next == Head(d.todo)
<1>4. next \in Names(d.window) /\ next \in Range(d.todo)
  <2>1. next \in Names(d.window)
    BY <1>2, <1>3, HeadTailProperties
  <2>2. d.todo \in Seq(Names(d.window)) /\ d.todo # <<>>
    BY <1>2, <1>3
  <2>3. 1 \in DOMAIN d.todo /\ next = d.todo[1]
    BY ONLY <2>2 DEF next
  <2>4. QED
    BY <2>1, <2>3 DEF Range
<1>5. /\ DOMAIN files' = DOMAIN files \cup {next}
      /\ \A name \in DOMAIN files : name # next => files'[name] = files[name]
      /\ files' = [name \in DOMAIN files' |-> files'[name]]
  BY <1>2
<1>6. e.window = d.window /\ e.phase = "open" /\ e.todo = d.todo /\ Writes(e)
  BY <1>2 DEF Writes
<1> HIDE DEF next
<1>7. DownloadsTyped'
  <2>1. Head(e.todo) \in DOMAIN files' /\ e.todo # <<>>
    BY <1>2, <1>5, <1>6 DEF next
  <2>2. e.todo \in Seq(Names(e.window)')
    BY <1>1, <1>3, <1>6, SetupStays
  <2>3. \A c \in download' : c = e
    BY <1>2
  <2>4. completed' \in Seq(setup'.windows)
    BY <1>1 DEF StoreInv, DownloadsTyped
  <2>5. QED
    BY <1>1, <1>3, <1>5, <1>6, <2>1, <2>2, <2>3, <2>4 DEF DownloadsTyped
<1>8. ~torn' => KeptWhole'
  <2>1. SUFFICES ASSUME ~torn
                 PROVE  KeptWhole'
    BY <1>1
  <2>2. KeptWhole
    BY <2>1 DEF StoreInv
  <2>3. \A window, name : Holds(name, window) /\ name # next => Holds(name, window)'
    BY <1>1, <1>5, HoldsStays DEF Holds
  <2>4. download' = {e} /\ \A window : Names(window)' = Names(window)
    BY <1>1, <1>2, SetupStays
  <2>5. Kept' = Kept
    BY <1>1, SetupStays
  <2>6. ASSUME NEW window \in Kept, NEW name \in Names(window), name \notin Names(d.window)
        PROVE  Holds(name, window)'
    BY <1>3, <1>4, <2>2, <2>3, <2>6 DEF KeptWhole
  <2>7. ASSUME NEW name \in Names(d.window) \ Range(d.todo)
        PROVE  Holds(name, d.window)'
    BY <1>2, <1>3, <1>4, <2>2, <2>3 DEF KeptWhole
  <2>8. ASSUME NEW name \in DOMAIN files'
        PROVE  (\E window \in Kept : name \in Names(window)) \/ name \in Names(d.window)
    BY <1>3, <1>4, <1>5, <2>2 DEF KeptWhole
  <2>9. QED
    BY <1>6, <2>4, <2>5, <2>6, <2>7, <2>8 DEF KeptWhole
<1>9. QED
  BY <1>7, <1>8, StoreTypedOpenFile DEF StoreInv

LEMMA StoreInvCloseFile ==
  ASSUME StoreInv, CloseFile
  PROVE  StoreInv'
<1>1. UNCHANGED <<setup, completed, torn>>
  BY CloseFileFacts DEF StoreInv
<1>2. PICK d, e :
        /\ d \in download
        /\ d.phase = "open" /\ download' = {e}
        /\ e = [window |-> d.window, rows |-> d.rows, phase |-> "write", todo |-> Tail(d.todo)]
        /\ files' = [files EXCEPT ![Head(d.todo)] =
                       {RowsOfFile(Final(d.window), Head(d.todo), setup.output, d.window)}]
  BY CloseFileFacts DEF StoreInv
<1>3. /\ d.window \in setup.windows /\ Writes(d) /\ d.todo \in Seq(Names(d.window))
      /\ d.todo # <<>> /\ Head(d.todo) \in DOMAIN files
      /\ \A c \in download : c = d
  BY <1>2 DEF StoreInv, DownloadsTyped, Writes
<1> DEFINE next == Head(d.todo)
           content == {RowsOfFile(Final(d.window), next, setup.output, d.window)}
<1>4. /\ next \in Names(d.window) /\ Tail(d.todo) \in Seq(Names(d.window))
      /\ Range(d.todo) = {next} \cup Range(Tail(d.todo))
  <2>1. next \in Names(d.window) /\ Tail(d.todo) \in Seq(Names(d.window))
    BY <1>3, HeadTailProperties
  <2>2. /\ DOMAIN d.todo = 1..Len(d.todo) /\ Len(d.todo) \in Nat /\ Len(d.todo) # 0
        /\ Len(Tail(d.todo)) = Len(d.todo) - 1
        /\ DOMAIN Tail(d.todo) = 1..(Len(d.todo) - 1)
        /\ next = d.todo[1]
        /\ \A i \in 1..(Len(d.todo) - 1) : Tail(d.todo)[i] = d.todo[i + 1]
    BY <1>3, HeadTailProperties
  <2>3. ASSUME NEW i \in DOMAIN d.todo
        PROVE  d.todo[i] \in {next} \cup Range(Tail(d.todo))
    <3>1. CASE i = 1
      BY <2>2, <3>1
    <3>2. CASE i # 1
      <4>1. i - 1 \in 1..(Len(d.todo) - 1) /\ (i - 1) + 1 = i
        BY <2>2, <3>2
      <4>2. Tail(d.todo)[i - 1] = d.todo[i] /\ i - 1 \in DOMAIN Tail(d.todo)
        BY <2>2, <4>1
      <4>3. QED
        BY <4>2 DEF Range
    <3>3. QED
      BY <3>1, <3>2
  <2>4. ASSUME NEW i \in DOMAIN Tail(d.todo)
        PROVE  Tail(d.todo)[i] \in Range(d.todo)
    <3>1. i + 1 \in DOMAIN d.todo /\ Tail(d.todo)[i] = d.todo[i + 1]
      BY <2>2
    <3>2. QED
      BY <3>1 DEF Range
  <2>5. next \in Range(d.todo)
    BY <2>2 DEF Range
  <2>6. QED
    BY <2>1, <2>3, <2>4, <2>5 DEF Range
<1>5. /\ DOMAIN files' = DOMAIN files
      /\ files'[next] = content
      /\ \A name \in DOMAIN files : name # next => files'[name] = files[name]
      /\ files' = [name \in DOMAIN files' |-> files'[name]]
  BY <1>2, <1>3
<1>6. e.window = d.window /\ e.phase = "write" /\ e.todo = Tail(d.todo) /\ Writes(e)
  BY <1>2 DEF Writes
<1>7. Holds(next, d.window)'
  BY <1>1, <1>3, <1>5, SetupStays DEF Holds
<1> HIDE DEF next, content
<1>8. DownloadsTyped'
  <2>1. e.todo \in Seq(Names(e.window)')
    BY <1>1, <1>4, <1>6, SetupStays
  <2>2. \A c \in download' : c = e
    BY <1>2
  <2>3. completed' \in Seq(setup'.windows)
    BY <1>1 DEF StoreInv, DownloadsTyped
  <2>4. QED
    BY <1>1, <1>3, <1>5, <1>6, <2>1, <2>2, <2>3 DEF DownloadsTyped
<1>9. ~torn' => KeptWhole'
  <2>1. SUFFICES ASSUME ~torn
                 PROVE  KeptWhole'
    BY <1>1
  <2>2. KeptWhole
    BY <2>1 DEF StoreInv
  <2>3. \A window, name : Holds(name, window) /\ name # next => Holds(name, window)'
    BY <1>1, <1>5, HoldsStays DEF Holds
  <2>4. download' = {e} /\ \A window : Names(window)' = Names(window)
    BY <1>1, <1>2, SetupStays
  <2>5. Kept' = Kept
    BY <1>1, SetupStays
  <2>6. ASSUME NEW window \in Kept, NEW name \in Names(window), name \notin Names(d.window)
        PROVE  Holds(name, window)'
    BY <1>3, <1>4, <2>2, <2>3, <2>6 DEF KeptWhole
  <2>7. ASSUME NEW name \in Names(d.window) \ Range(e.todo)
        PROVE  Holds(name, d.window)'
    <3>1. CASE name = next
      BY <1>7, <3>1
    <3>2. CASE name # next
      <4>1. name \in Names(d.window) \ Range(d.todo)
        BY <1>4, <1>6, <3>2
      <4>2. QED
        BY <1>2, <1>3, <2>2, <2>3, <3>2, <4>1 DEF KeptWhole
    <3>3. QED
      BY <3>1, <3>2
  <2>8. ASSUME NEW name \in DOMAIN files'
        PROVE  (\E window \in Kept : name \in Names(window)) \/ name \in Names(d.window)
    BY <1>3, <1>5, <2>2 DEF KeptWhole
  <2>9. QED
    BY <1>6, <2>4, <2>5, <2>6, <2>7, <2>8 DEF KeptWhole
<1>10. QED
  BY <1>8, <1>9, StoreTypedCloseFile DEF StoreInv

(* In a single file at a fixed path every window has the same name. *)
LEMMA FixedNames ==
  ASSUME StoreTyped, FixedPath(setup.output), NEW v, NEW w
  PROVE  Names(v) = Names(w)
<1>1. output_layout(setup.output) = "single_file"
  BY DEF FixedPath
<1>2. template_values(setup.output, v) = template_values(setup.output, w)
  BY DEF template_values
<1>3. QED
  BY <1>1, <1>2, NamesFacts

(* The windows whose files are there after one more. *)
LEMMA KeptGrows ==
  ASSUME setup' = setup, completed \in Seq(setup.windows), NEW w \in setup.windows,
         completed' = Append(completed, w)
  PROVE  Kept' = IF FixedPath(setup.output) THEN {w} ELSE Kept \cup {w}
<1> DEFINE n == Len(completed)
<1>1. /\ n \in Nat /\ DOMAIN completed = 1..n
      /\ completed' \in Seq(setup.windows) /\ Len(completed') = n + 1
      /\ DOMAIN completed' = 1..(n + 1)
      /\ \A i \in 1..n : completed'[i] = completed[i]
      /\ completed'[n + 1] = w
  BY AppendProperties
<1>2. CASE FixedPath(setup.output)
  <2>1. Kept' = {completed'[i] : i \in {n + 1} \ {0}}
    BY <1>1, <1>2 DEF Kept
  <2>2. {n + 1} \ {0} = {n + 1}
    BY <1>1
  <2>3. QED
    BY <1>1, <1>2, <2>1, <2>2
<1>3. CASE ~FixedPath(setup.output)
  <2>1. Kept' = Range(completed') /\ Kept = Range(completed)
    BY <1>3 DEF Kept
  <2> HIDE DEF n
  <2>2. 1..(n + 1) = 1..n \cup {n + 1}
    BY <1>1
  <2>3. Range(completed') = Range(completed) \cup {w}
    BY <1>1, <2>2 DEF Range
  <2>4. QED
    BY <1>3, <2>1, <2>3
<1>4. QED
  BY <1>2, <1>3

LEMMA StoreInvFinish ==
  ASSUME StoreInv, FinishDownload
  PROVE  StoreInv'
<1>1. PICK d \in download :
        /\ d.phase = "write" /\ d.todo = <<>> /\ download' = {}
        /\ completed' = Append(completed, d.window)
        /\ UNCHANGED <<setup, files, torn>>
  BY DEF FinishDownload
<1>2. /\ StoreTyped /\ d.window \in setup.windows /\ Writes(d) /\ completed \in Seq(setup.windows)
      /\ \A c \in download : c = d
  BY <1>1 DEF StoreInv, DownloadsTyped, Writes
<1>3. Kept' = IF FixedPath(setup.output) THEN {d.window} ELSE Kept \cup {d.window}
  BY <1>1, <1>2, KeptGrows
<1>4. StoreTyped'
  BY <1>1, <1>2, StoreTypedOther
<1>5. DownloadsTyped'
  <2>1. completed' \in Seq(setup.windows)
    BY <1>1, <1>2, AppendProperties
  <2>2. QED
    BY <1>1, <2>1 DEF StoreInv, DownloadsTyped
<1>6. ~torn' => KeptWhole'
  <2>1. SUFFICES ASSUME ~torn
                 PROVE  KeptWhole'
    BY <1>1
  <2>2. KeptWhole
    BY <2>1 DEF StoreInv
  <2>3. \A window, name : Holds(name, window)' = Holds(name, window)
    BY <1>1, SetupStays DEF Holds
  <2>4. \A window : Names(window)' = Names(window)
    BY <1>1, SetupStays
  <2>5. Range(d.todo) = {}
    BY <1>1 DEF Range
  <2>6. \A name \in Names(d.window) : Holds(name, d.window)
    BY <1>2, <2>2, <2>5 DEF KeptWhole
  <2>7. ASSUME NEW window \in Kept', NEW name \in Names(window)
        PROVE  Holds(name, window)
    <3>1. CASE window = d.window
      BY <2>6, <2>7, <3>1
    <3>2. CASE window # d.window
      <4>1. ~FixedPath(setup.output) /\ window \in Kept
        BY <1>3, <2>7, <3>2
      <4>2. name \notin Names(d.window)
        BY <1>2, <2>7, <3>2, <4>1, NamesApart
      <4>3. QED
        BY <1>2, <2>2, <2>7, <4>1, <4>2 DEF KeptWhole
    <3>3. QED
      BY <3>1, <3>2
  <2>8. ASSUME NEW name \in DOMAIN files
        PROVE  \E window \in Kept' : name \in Names(window)
    <3>1. (\E window \in Kept : name \in Names(window)) \/ name \in Names(d.window)
      BY <1>2, <2>2 DEF KeptWhole
    <3>2. CASE FixedPath(setup.output)
      <4>1. name \in Names(d.window)
        BY <1>2, <3>1, <3>2, FixedNames
      <4>2. QED
        BY <1>3, <3>2, <4>1
    <3>3. CASE ~FixedPath(setup.output)
      BY <1>3, <3>1, <3>3
    <3>4. QED
      BY <3>2, <3>3
  <2>9. QED
    BY <1>1, <2>3, <2>4, <2>7, <2>8 DEF KeptWhole
<1>7. QED
  BY <1>4, <1>5, <1>6 DEF StoreInv

LEMMA StoreInvStop ==
  ASSUME StoreInv, StopDownload
  PROVE  StoreInv'
<1>1. PICK d \in download :
        /\ download' = {} /\ torn' = (torn \/ d.phase # "fetch")
        /\ UNCHANGED <<setup, files, completed>>
  BY DEF StopDownload
<1>2. StoreTyped'
  BY <1>1, StoreTypedOther DEF StoreInv
<1>3. DownloadsTyped'
  BY <1>1 DEF StoreInv, DownloadsTyped
<1>4. ~torn' => KeptWhole'
  <2>1. SUFFICES ASSUME ~torn'
                 PROVE  KeptWhole'
    OBVIOUS
  <2>2. ~torn /\ d.phase = "fetch"
    BY <1>1, <2>1
  <2>3. KeptWhole /\ \A c \in download : ~Writes(c)
    BY <1>1, <2>2 DEF StoreInv, DownloadsTyped, Writes
  <2>4. \A window, name : Holds(name, window)' = Holds(name, window)
    BY <1>1, SetupStays DEF Holds
  <2>5. Kept' = Kept /\ \A window : Names(window)' = Names(window)
    BY <1>1, SetupStays
  <2>6. QED
    BY <1>1, <2>3, <2>4, <2>5 DEF KeptWhole
<1>5. QED
  BY <1>2, <1>3, <1>4 DEF StoreInv

(* The steps that leave the files and the downloads alone. *)
LEMMA StoreInvOther ==
  ASSUME StoreInv, UNCHANGED <<setup, storeVars>>
  PROVE  StoreInv'
<1>1. UNCHANGED <<setup, files, download, completed, torn>>
  BY DEF storeVars
<1>2. \A window, name : Holds(name, window)' = Holds(name, window)
  BY <1>1, SetupStays DEF Holds
<1>3. Kept' = Kept /\ \A window : Names(window)' = Names(window)
  BY <1>1, SetupStays
<1>4. StoreTyped'
  BY <1>1, StoreTypedOther DEF StoreInv
<1>5. DownloadsTyped'
  BY <1>1, <1>3 DEF StoreInv, DownloadsTyped
<1>6. ~torn' => KeptWhole'
  BY <1>1, <1>2, <1>3 DEF StoreInv, KeptWhole
<1>7. QED
  BY <1>4, <1>5, <1>6 DEF StoreInv

LEMMA StoreInvNext == StoreInv /\ [Next]_vars => StoreInv'
<1>1. SUFFICES ASSUME StoreInv, [Next]_vars
               PROVE  StoreInv'
  OBVIOUS
<1>2. CASE StartDownload
  BY <1>1, <1>2, StoreInvStart
<1>3. CASE ReceivePage
  BY <1>1, <1>3, StoreInvReceivePage
<1>4. CASE OpenFile
  BY <1>1, <1>4, StoreInvOpenFile
<1>5. CASE CloseFile
  BY <1>1, <1>5, StoreInvCloseFile
<1>6. CASE FinishDownload
  BY <1>1, <1>6, StoreInvFinish
<1>7. CASE StopDownload
  BY <1>1, <1>7, StoreInvStop
<1>8. CASE Train \/ SaveManifest \/ CrashTraining \/ Transition \/ Load \/ Unload \/ UNCHANGED vars
  <2>1. CASE Train
    BY <1>1, <2>1, StoreInvOther DEF Train
  <2>2. CASE SaveManifest
    BY <1>1, <2>2, StoreInvOther DEF SaveManifest
  <2>3. CASE Transition
    BY <1>1, <2>3, StoreInvOther DEF Transition
  <2>4. CASE CrashTraining \/ Load \/ Unload \/ UNCHANGED vars
    <3>1. UNCHANGED <<setup, storeVars>>
      BY <2>4 DEF CrashTraining, Load, Unload, vars
    <3>2. QED
      BY <1>1, <3>1, StoreInvOther
  <2>5. QED
    BY <1>8, <2>1, <2>2, <2>3, <2>4
<1>9. QED
  BY <1>1, <1>2, <1>3, <1>4, <1>5, <1>6, <1>7, <1>8 DEF Next
-----------------------------------------------------------------------------
(* The calendar of the code has the bars of the market in its regular sessions
   exactly when the exchange was open. *)
SessionsAreOpen ==
  \A bar \in Bars :
    is_regular_session(bar.timestamp, DefaultSessionConfig) <=>
      \E hours \in OpenHours : hours[1] <= bar.timestamp /\ bar.timestamp < hours[2]

(* The rows of the files of a window are the bars wanted of it. *)
LEMMA FinalIsWanted ==
  ASSUME SessionsAreOpen, NEW window
  PROVE  Held(Final(window)) = Wanted(window)
<1> DEFINE answer == Answer(Market, window)
           regular(bar) == ~setup.session_filter \/ is_regular_session(bar.timestamp, DefaultSessionConfig)
           open(bar) == ~setup.session_filter
                          \/ \E hours \in OpenHours :
                               hours[1] <= bar.timestamp /\ bar.timestamp < hours[2]
<1>1. answer \in BarLists
      /\ Held(answer) = {Market[i] : i \in {j \in DOMAIN Market : In(Market[j], window)}}
  BY AnswerFacts
<1>2. Held(Final(window)) = {answer[i] : i \in {j \in DOMAIN answer : regular(answer[j])}}
  BY <1>1, SessionRowsFacts DEF Final
<1>3. Wanted(window) = {Market[i] : i \in {j \in DOMAIN Market : In(Market[j], window) /\ open(Market[j])}}
  BY DEF Wanted
<1>4. \A bar \in Bars : regular(bar) <=> open(bar)
  BY DEF SessionsAreOpen
<1>5. \A i \in DOMAIN Market : Market[i] \in Bars
  BY DEF Bars, Range
<1> HIDE DEF answer, regular, open
<1>6. ASSUME NEW bar \in Held(Final(window))
      PROVE  bar \in Wanted(window)
  <2>1. PICK i \in DOMAIN answer : regular(answer[i]) /\ bar = answer[i]
    BY <1>2, <1>6
  <2>2. bar \in Held(answer)
    BY <2>1 DEF Held
  <2>3. PICK j \in DOMAIN Market : In(Market[j], window) /\ bar = Market[j]
    BY <1>1, <2>2
  <2>4. open(bar)
    BY <1>4, <1>5, <2>1, <2>3
  <2>5. QED
    BY <1>3, <2>3, <2>4
<1>7. ASSUME NEW bar \in Wanted(window)
      PROVE  bar \in Held(Final(window))
  <2>1. PICK j \in DOMAIN Market : In(Market[j], window) /\ open(Market[j]) /\ bar = Market[j]
    BY <1>3, <1>7
  <2>2. bar \in Held(answer)
    BY <1>1, <2>1
  <2>3. PICK i \in DOMAIN answer : bar = answer[i]
    BY <2>2 DEF Held
  <2>4. regular(bar)
    BY <1>4, <1>5, <2>1
  <2>5. QED
    BY <1>2, <2>3, <2>4
<1>8. QED
  BY <1>6, <1>7

(* A list is as long as the set of what it holds is large. *)
LEMMA ListSize ==
  ASSUME NEW bars \in BarLists
  PROVE  Len(bars) = Cardinality(Held(bars)) /\ Range(bars) = Held(bars)
<1>1. DOMAIN bars = 1..Len(bars) /\ Len(bars) \in Nat
  BY DEF BarLists
<1>2. \A i, j \in 1..Len(bars) : bars[i] = bars[j] => i = j
  BY <1>1 DEF BarLists
<1>3. Held(bars) = {bars[i] : i \in 1..Len(bars)}
  BY <1>1 DEF Held
<1>4. PICK f \in [1..Len(bars) -> Held(bars)] : \A i \in 1..Len(bars) : f[i] = bars[i]
  <2>1. [i \in 1..Len(bars) |-> bars[i]] \in [1..Len(bars) -> Held(bars)]
    BY <1>3
  <2>2. QED
    BY <2>1
<1>5. f \in Bijection(1..Len(bars), Held(bars))
  BY <1>2, <1>3, <1>4 DEF Bijection, Injection, Surjection, IsInjective
<1>6. IsFiniteSet(1..Len(bars)) /\ Cardinality(1..Len(bars)) = Len(bars)
  <2>1. 1 \in Int /\ Len(bars) \in Int
    BY <1>1
  <2>2. Cardinality(1..Len(bars)) = IF 1 > Len(bars) THEN 0 ELSE Len(bars) - 1 + 1
    BY <2>1, FS_Interval
  <2>3. QED
    BY <1>1, <2>1, <2>2, FS_Interval
<1>7. Cardinality(Held(bars)) = Cardinality(1..Len(bars))
  BY <1>5, <1>6, FS_Bijection DEF ExistsBijection
<1>8. QED
  BY <1>6, <1>7 DEF Held, Range

(* No download writes, and none was cut off. *)
Quiet == StoreInv /\ ~torn /\ \A d \in download : ~Writes(d)

(* Then the files are those of the windows kept, each with its rows. *)
LEMMA QuietFacts ==
  ASSUME Quiet
  PROVE  /\ \A window \in Kept : \A name \in Names(window) : Holds(name, window)
         /\ \A name \in DOMAIN files :
              \E window \in Kept : name \in Names(window) /\ Holds(name, window)
<1>1. KeptWhole
  BY DEF Quiet, StoreInv
<1>2. \A window \in Kept : \A name \in Names(window) : Holds(name, window)
  BY <1>1 DEF Quiet, KeptWhole
<1>3. \A name \in DOMAIN files : \E window \in Kept : name \in Names(window)
  BY <1>1 DEF Quiet, KeptWhole
<1>4. QED
  BY <1>2, <1>3

(* A file that holds what it should is read as those rows of its window. *)
LEMMA ContentFacts ==
  ASSUME SessionsAreOpen, NEW window, NEW name, Holds(name, window)
  PROVE  /\ files[name] # {} /\ Content(name) \in BarLists
         /\ Held(Content(name)) = {bar \in Wanted(window) : NameOf(bar, window) = name}
<1> DEFINE rows == RowsOfFile(Final(window), name, setup.output, window)
<1>1. files[name] = {rows}
  BY DEF Holds
<1>2. Content(name) = rows
  <2> HIDE DEF rows
  <2>1. QED
    BY <1>1 DEF Content
<1>3. /\ rows \in BarLists
      /\ Held(rows) = {bar \in Held(Final(window)) : NameOf(bar, window) = name}
  BY FinalFacts, RowsOfFileFacts DEF NameOf
<1> HIDE DEF rows
<1>4. Held(Final(window)) = Wanted(window)
  BY FinalIsWanted
<1>5. QED
  BY <1>1, <1>2, <1>3, <1>4

(* All the files together hold the bars of all the windows kept. *)
LEMMA FilesHoldAll ==
  ASSUME SessionsAreOpen, Quiet
  PROVE  UNION {Held(Content(name)) : name \in DOMAIN files} =
           UNION {Wanted(window) : window \in Kept}
<1>1. ASSUME NEW name \in DOMAIN files, NEW bar \in Held(Content(name))
      PROVE  bar \in UNION {Wanted(window) : window \in Kept}
  <2>1. PICK window \in Kept : Holds(name, window)
    BY QuietFacts
  <2>2. bar \in Wanted(window)
    BY <1>1, <2>1, ContentFacts
  <2>3. QED
    BY <2>2
<1>2. ASSUME NEW window \in Kept, NEW bar \in Wanted(window)
      PROVE  \E name \in DOMAIN files : bar \in Held(Content(name))
  <2>1. StoreTyped /\ bar \in Held(Final(window))
    BY FinalIsWanted DEF Quiet, StoreInv
  <2>2. NameOf(bar, window) \in Names(window)
    BY <2>1, RowsHaveFiles
  <2>3. Holds(NameOf(bar, window), window)
    BY <2>2, QuietFacts
  <2>4. NameOf(bar, window) \in DOMAIN files
    BY <2>3 DEF Holds
  <2>5. bar \in Held(Content(NameOf(bar, window)))
    BY <2>3, ContentFacts
  <2>6. QED
    BY <2>4, <2>5
<1>3. QED
  BY <1>1, <1>2

(* A bar is there twice exactly when it is wanted of two of the windows. *)
LEMMA TwiceIsOverlap ==
  ASSUME SessionsAreOpen, Quiet
  PROVE  NoneTwice <=> ~Overlap
<1>1. StoreTyped /\ completed \in Seq(setup.windows)
  BY DEF Quiet, StoreInv, DownloadsTyped
<1>2. \A name \in DOMAIN files : files[name] # {}
  BY QuietFacts, ContentFacts
<1>3. /\ DOMAIN Read = Places /\ \A p \in Places : Read[p] \in Bars
      /\ \A name \in DOMAIN files : Content(name) \in BarLists
  BY <1>1, <1>2, PlacesFacts DEF StoreTyped
<1>4. \A p \in Places : /\ p[1] \in DOMAIN files /\ p[2] \in DOMAIN Content(p[1])
                        /\ p = <<p[1], p[2]>>
                        /\ Read[p] = Content(p[1])[p[2]] /\ Read[p] \in Held(Content(p[1]))
  <2>1. \A p \in Places : /\ p[1] \in DOMAIN files /\ p[2] \in DOMAIN Content(p[1])
                          /\ p = <<p[1], p[2]>>
    BY DEF Places
  <2>2. QED
    BY <2>1 DEF Read, Held
<1>5. ASSUME Overlap
      PROVE  ~NoneTwice
  <2>1. PICK v \in Kept, w \in Kept : v # w /\ Wanted(v) \cap Wanted(w) # {}
    BY <1>5 DEF Overlap
  <2>2. PICK bar : bar \in Wanted(v) /\ bar \in Wanted(w)
    BY <2>1
  <2>3. ~FixedPath(setup.output)
    <3>1. ASSUME FixedPath(setup.output)
          PROVE  \E last : \A window \in Kept : window = last
      <4>1. Kept = {completed[i] : i \in {Len(completed)} \ {0}}
        BY <3>1 DEF Kept
      <4>2. QED
        BY <4>1
    <3>2. QED
      BY <2>1, <3>1
  <2>4. bar \in Held(Final(v)) /\ bar \in Held(Final(w))
    BY <2>2, FinalIsWanted
  <2>5. NameOf(bar, v) \in Names(v) /\ NameOf(bar, w) \in Names(w)
    BY <1>1, <2>4, RowsHaveFiles
  <2>6. NameOf(bar, v) # NameOf(bar, w)
    BY <1>1, <2>1, <2>3, <2>5, NamesApart
  <2>7. Holds(NameOf(bar, v), v) /\ Holds(NameOf(bar, w), w)
    BY <2>5, QuietFacts
  <2>8. /\ NameOf(bar, v) \in DOMAIN files /\ bar \in Held(Content(NameOf(bar, v)))
        /\ NameOf(bar, w) \in DOMAIN files /\ bar \in Held(Content(NameOf(bar, w)))
    BY <2>2, <2>7, ContentFacts DEF Holds
  <2>9. PICK i \in DOMAIN Content(NameOf(bar, v)) : bar = Content(NameOf(bar, v))[i]
    BY <2>8 DEF Held
  <2>10. PICK j \in DOMAIN Content(NameOf(bar, w)) : bar = Content(NameOf(bar, w))[j]
    BY <2>8 DEF Held
  <2> DEFINE p == <<NameOf(bar, v), i>>
             q == <<NameOf(bar, w), j>>
  <2>11. p \in Places /\ q \in Places /\ p # q
    BY <2>6, <2>8 DEF Places
  <2>12. Read[p] = bar /\ Read[q] = bar
    BY <2>9, <2>10, <2>11 DEF Read
  <2> HIDE DEF p, q
  <2>13. QED
    BY <2>11, <2>12 DEF NoneTwice
<1>6. ASSUME ~Overlap, NEW p \in Places, NEW q \in Places,
             Read[p].symbol = Read[q].symbol, Read[p].timestamp = Read[q].timestamp
      PROVE  p = q
  <2>1. Read[p] = Read[q]
    BY <1>3, <1>6, BarFacts
  <2>2. PICK v \in Kept : Holds(p[1], v)
    BY <1>4, <1>6, QuietFacts
  <2>3. PICK w \in Kept : Holds(q[1], w)
    BY <1>4, <1>6, QuietFacts
  <2>4. Read[p] \in Wanted(v) /\ NameOf(Read[p], v) = p[1]
    BY <1>4, <1>6, <2>2, ContentFacts
  <2>5. Read[q] \in Wanted(w) /\ NameOf(Read[q], w) = q[1]
    BY <1>4, <1>6, <2>3, ContentFacts
  <2>6. v = w
    BY <1>6, <2>1, <2>4, <2>5 DEF Overlap
  <2>7. p[1] = q[1]
    BY <2>1, <2>4, <2>5, <2>6
  <2>8. p[2] = q[2]
    <3>1. Content(p[1])[p[2]] = Content(p[1])[q[2]]
      BY <1>4, <1>6, <2>1, <2>7
    <3>2. p[2] \in DOMAIN Content(p[1]) /\ q[2] \in DOMAIN Content(p[1])
      BY <1>4, <1>6, <2>7
    <3>3. Content(p[1]) \in BarLists
      BY <1>3, <1>4, <1>6
    <3>4. QED
      BY <3>1, <3>2, <3>3 DEF BarLists
  <2>9. QED
    BY <1>4, <1>6, <2>7, <2>8
<1>7. QED
  BY <1>5, <1>6 DEF NoneTwice

(* There is no file when no window is kept, or when none of its bars is wanted
   and the files are partitions. *)
LEMMA NoFiles ==
  ASSUME SessionsAreOpen, Quiet
  PROVE  files = <<>> <=>
           \/ Kept = {}
           \/ /\ UNION {Wanted(window) : window \in Kept} = {}
              /\ output_layout(setup.output) = "partitioned"
<1>1. StoreTyped /\ files = [name \in DOMAIN files |-> files[name]]
  BY DEF Quiet, StoreInv, DownloadsTyped
<1>2. files = <<>> <=> DOMAIN files = {}
  <2>1. ASSUME DOMAIN files = {}
        PROVE  files = <<>>
    <3>1. files = [name \in {} |-> files[name]]
      BY <1>1, <2>1
    <3>2. QED
      BY <3>1
  <2>2. ASSUME files = <<>>
        PROVE  DOMAIN files = {}
    BY <2>2
  <2>3. QED
    BY <2>1, <2>2
<1>3. DOMAIN files = {} <=> \A window \in Kept : Names(window) = {}
  BY QuietFacts DEF Holds
<1>4. output_layout(setup.output) \in {"single_file", "partitioned"}
  BY <1>1, LifecycleAssumption DEF StoreTyped, SetupsAssumption
<1>5. CASE output_layout(setup.output) = "single_file"
  <2>1. \A window : Names(window) # {}
    <3>1. TAKE window
    <3>2. Names(window) = {<<0, 0, template_values(setup.output, window)>>}
      BY <1>1, <1>5, NamesFacts
    <3>3. QED
      BY <3>2
  <2>2. (\A window \in Kept : Names(window) = {}) <=> Kept = {}
    BY <2>1
  <2>3. QED
    BY <1>2, <1>3, <1>5, <2>2
<1>6. CASE output_layout(setup.output) = "partitioned"
  <2>1. \A window : Names(window) = {NameOf(bar, window) : bar \in Wanted(window)}
    BY <1>1, <1>6, NamesFacts, FinalIsWanted
  <2>2. (\A window \in Kept : Names(window) = {}) <=>
          UNION {Wanted(window) : window \in Kept} = {}
    <3>1. \A window : Names(window) = {} <=> Wanted(window) = {}
      <4>1. TAKE window
      <4>2. Names(window) = {NameOf(bar, window) : bar \in Wanted(window)}
        BY <2>1
      <4>3. QED
        BY <4>2
    <3>2. UNION {Wanted(window) : window \in Kept} = {} <=> \A window \in Kept : Wanted(window) = {}
      OBVIOUS
    <3>3. QED
      BY <3>1, <3>2
  <2>3. Kept = {} => UNION {Wanted(window) : window \in Kept} = {}
    OBVIOUS
  <2>4. QED
    BY <1>2, <1>3, <1>6, <2>2, <2>3
<1>7. QED
  BY <1>4, <1>5, <1>6

LEMMA QuietReads ==
  ASSUME SessionsAreOpen, Quiet
  PROVE  LET wanted == UNION {Wanted(window) : window \in Kept}
             read   == provider_bars(files)
             empty  == Kept = {} \/ (wanted = {} /\ output_layout(setup.output) = "partitioned")
         IN  IF Overlap \/ empty THEN read = {}
             ELSE \E bars \in read : Range(bars) = wanted /\ Len(bars) = Cardinality(wanted)
<1> DEFINE wanted == UNION {Wanted(window) : window \in Kept}
           empty == Kept = {} \/ (wanted = {} /\ output_layout(setup.output) = "partitioned")
<1>1. \A name \in DOMAIN files : files[name] # {}
  BY QuietFacts, ContentFacts
<1>2. (NoneTwice <=> ~Overlap) /\ (files = <<>> <=> empty)
  BY TwiceIsOverlap, NoFiles
<1>3. UNION {Held(Content(name)) : name \in DOMAIN files} = wanted
  BY FilesHoldAll
<1> HIDE DEF wanted, empty
<1>4. provider_bars(files) = IF empty \/ Overlap THEN {} ELSE {Sorted(Read)}
  BY <1>1, <1>2, ProviderReads
<1>5. CASE Overlap \/ empty
  BY <1>4, <1>5 DEF wanted, empty
<1>6. CASE ~(Overlap \/ empty)
  <2>1. PICK bars \in provider_bars(files) : TRUE
    BY <1>4, <1>6
  <2>2. FilesTyped
    BY DEF Quiet, StoreInv, StoreTyped
  <2>3. bars \in BarLists /\ Held(bars) = wanted
    BY <1>3, <2>1, <2>2, ProviderFacts
  <2>4. Range(bars) = wanted /\ Len(bars) = Cardinality(wanted)
    BY <2>3, ListSize
  <2>5. QED
    BY <1>6, <2>1, <2>4 DEF wanted, empty
<1>7. QED
  BY <1>5, <1>6

(* What a download writes, a provider reads back: over the pages of every
   answer, the names of the files, a window downloaded twice and a file that
   the next download replaces, for every market whose sessions the calendar of
   the code knows (market_data/alpaca.py: download_alpaca_bars,
   market_data/providers.py: CSVBarProvider). *)
THEOREM ReadOnceEach ==
  ASSUME SessionsAreOpen
  PROVE  Spec => []ReadsWhatWasDownloaded
<1>1. Init => StoreInv
  BY StoreInvInit
<1>2. StoreInv /\ [Next]_vars => StoreInv'
  BY StoreInvNext
<1>3. StoreInv => ReadsWhatWasDownloaded
  <2>1. SUFFICES ASSUME StoreInv, ~torn, \A d \in download : d.phase = "fetch"
                 PROVE  LET wanted == UNION {Wanted(window) : window \in Kept}
                            read   == provider_bars(files)
                            empty  == Kept = {} \/ (wanted = {} /\ output_layout(setup.output) = "partitioned")
                        IN  IF Overlap \/ empty THEN read = {}
                            ELSE \E bars \in read : Range(bars) = wanted /\ Len(bars) = Cardinality(wanted)
    BY DEF ReadsWhatWasDownloaded
  <2>2. Quiet
    BY <2>1 DEF Quiet, Writes
  <2>3. QED
    BY <2>2, QuietReads
<1>4. QED
  BY <1>1, <1>2, <1>3, PTL DEF Spec
=============================================================================
