---------------------------- MODULE ModelRegistry ----------------------------
(***************************************************************************)
(* FileModelRegistry of qts.ml as operators, with the manifest and the       *)
(* policy of DefaultMLModelInference.                                       *)
(*                                                                         *)
(* A registry is the directory of one model id: the artifact model.json and  *)
(* manifest.json, each a set of at most one.  A model is its trained_at, its *)
(* feature_names and the split it was trained on.  A manifest keeps          *)
(* trained_at as created_at, which nothing compares.  An operator that       *)
(* raises gives the empty set.                                              *)
(***************************************************************************)
EXTENDS FiniteSets

CONSTANT Nobody              \* where the code has no actor

EmptyRegistry == [artifact |-> {}, manifest |-> {}]

Stages == {"candidate", "validated", "approved", "archived"}

(* MLModelManifest: approved takes an approver. *)
Valid(manifest) == manifest.stage = "approved" => manifest.approved_by # Nobody

from_model(model, stage, approved_by) ==
  {manifest \in {[feature_names |-> model.feature_names, created_at |-> model.trained_at,
                  stage |-> stage, approved_by |-> approved_by]} : Valid(manifest)}

(* An approver's name stays when the stage moves on. *)
with_stage(manifest, stage, actor) ==
  {updated \in {[manifest EXCEPT !.stage = stage,
                                 !.approved_by = IF stage = "approved" THEN actor ELSE @]} :
     Valid(updated)}

validate_model_contract(model, manifest) == manifest.feature_names = model.feature_names

(* The contract is checked only if there is a manifest. *)
load_model(registry) ==
  {model \in registry.artifact :
     \A manifest \in registry.manifest : validate_model_contract(model, manifest)}

(* The manifest of a model that was loaded, or one made up for it. *)
manifest_for_model(registry, model) ==
  IF registry.manifest # {} THEN registry.manifest ELSE from_model(model, "legacy", Nobody)

(* The first half of save_model. *)
write_artifact(registry, model) == [registry EXCEPT !.artifact = {model}]

(* Mistake: a model that is trained again inherits the stage of the last one. *)
inherit_manifest(registry, manifest) ==
  [registry EXCEPT !.manifest =
     {[manifest EXCEPT !.stage = stage] :
        stage \in (IF registry.manifest = {} THEN {manifest.stage}
                   ELSE {old.stage : old \in registry.manifest})}]

(* The second half of save_model, and the end of a transition. *)
save_manifest(registry, manifest) == [registry EXCEPT !.manifest = {manifest}]

(* transition_model_stage: the manifests it may write, at most one. *)
transition(registry, stage, actor) ==
  UNION {UNION {with_stage(manifest, stage, actor) :
                  manifest \in manifest_for_model(registry, model)} :
           model \in load_model(registry)}

(* _validate_stage_policy. *)
StageAllowed(manifest, policy) ==
  /\ policy.require_approved_model => manifest.stage = "approved"
  /\ policy.allowed_model_stages # {} => manifest.stage \in policy.allowed_model_stages

(* DefaultMLModelInference.load_model, then MLSignalStrategy's look at the schema
   of the pipeline it will be served by: the model and the manifest it took. *)
inference_load(registry, policy) ==
  {[model |-> model, manifest |-> manifest, policy |-> policy] :
     model \in {m \in load_model(registry) : m.feature_names \subseteq policy.feature_names},
     manifest \in UNION {{f \in manifest_for_model(registry, m) : StageAllowed(f, policy)} :
                           m \in load_model(registry)}}
=============================================================================
