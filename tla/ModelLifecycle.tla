---------------------------- MODULE ModelLifecycle ----------------------------
(***************************************************************************)
(* From the vendor's bars to a model a strategy runs: the workflows          *)
(* download_data and training, the governance of the registry and the        *)
(* loading of a model by a runtime, each a process of its own over the same  *)
(* two directories.                                                         *)
(*                                                                         *)
(* A process may stop between two writes, or in the middle of a file.  The   *)
(* write of a small JSON file, a reading of the bars and one look at the     *)
(* registry are taken as one step each.                                     *)
(***************************************************************************)
EXTENDS ModelTraining, ModelRegistry

CONSTANTS Setups,            \* the configurations: windows, files, trainings, policies
          Market,            \* the bars the vendor has
          OpenHours          \* when the exchange was open: pairs of opening and closing times

(* The vendor has one bar of a symbol and a time at most. *)
MarketAssumption ==
  /\ Listing \in Seq(Range(Listing)) /\ Market \in Seq(Range(Market))
  /\ \A bar \in Range(Market) : bar.symbol \in Range(Listing) /\ bar.timestamp \in Nat
  /\ \A i, j \in DOMAIN Market :
       Market[i].symbol = Market[j].symbol /\ Market[i].timestamp = Market[j].timestamp => i = j

(* What the workflows accept. *)
SetupsAssumption ==
  \A config \in Setups :
    /\ config.limit \in Nat \ {0}
    /\ output_layout(config.output) \in {"single_file", "partitioned"}
    /\ \A training \in config.trainings :
         /\ training.horizon_bars \in Nat \ {0} /\ training.embargo_bars \in Nat
         /\ training.train_fraction \in Nat /\ training.validation_fraction \in Nat
         /\ training.test_fraction \in Nat
         /\ training.train_fraction + training.validation_fraction + training.test_fraction > 0

ASSUME LifecycleAssumption == MarketAssumption /\ SetupsAssumption

VARIABLES setup, files, download, completed, torn,
          registry, saving, trained, approved, loaded

storeVars    == <<files, download, completed, torn>>
registryVars == <<registry, saving, trained, approved>>
vars         == <<setup, storeVars, registryVars, loaded>>

Init ==
  /\ setup \in Setups
  /\ files = <<>>
  /\ download = {}              \* the download in progress, at most one
  /\ completed = <<>>           \* the windows downloaded to the end, in order
  /\ torn = FALSE               \* whether a download stopped between its writes
  /\ registry = EmptyRegistry
  /\ saving = {}                \* a save_model between its two writes, at most one
  /\ trained = 0                \* the models trained so far: the clock of trained_at
  /\ approved = {}              \* the models a person approved and nobody demoted since
  /\ loaded = {}                \* what a runtime loaded
-----------------------------------------------------------------------------
(* download_alpaca_bars *)
StartDownload ==
  /\ download = {}
  /\ Len(completed) < setup.max_downloads
  /\ \E window \in setup.windows :
       download' = {[window |-> window, rows |-> <<>>, phase |-> "fetch", todo |-> <<>>]}
  /\ UNCHANGED <<setup, files, completed, torn, registryVars, loaded>>

(* One page; after the last one the rows are filtered and sorted, and the files
   are named. *)
ReceivePage ==
  \E d \in download :
    LET page == get_stock_bars_page(Answer(Market, d.window), Len(d.rows), setup.limit)
        all  == d.rows \o page.rows
        rows == Sorted(filter_alpaca_session_rows(all, setup.session_filter))
    IN  /\ d.phase = "fetch"
        /\ download' =
             {IF page.next THEN [d EXCEPT !.rows = all]
              ELSE [d EXCEPT !.rows = rows, !.phase = "write",
                             !.todo = output_files(rows, setup.output, d.window)]}
        /\ UNCHANGED <<setup, files, completed, torn, registryVars, loaded>>

(* The next file is truncated; what has reached it is nothing or its header and
   its first rows. *)
OpenFile ==
  \E d \in download :
    /\ d.phase = "write" /\ d.todo # <<>>
    /\ LET rows == RowsOfFile(d.rows, Head(d.todo), setup.output, d.window)
       IN  \E content \in {{}} \cup {{SubSeq(rows, 1, n)} :
                                   n \in setup.flushed \cap 0..(Len(rows) - 1)} :
             files' = [name \in DOMAIN files \cup {Head(d.todo)} |->
                         IF name = Head(d.todo) THEN content ELSE files[name]]
    /\ download' = {[d EXCEPT !.phase = "open"]}
    /\ UNCHANGED <<setup, completed, torn, registryVars, loaded>>

CloseFile ==
  \E d \in download :
    /\ d.phase = "open"
    /\ files' = [files EXCEPT ![Head(d.todo)] =
                   {RowsOfFile(d.rows, Head(d.todo), setup.output, d.window)}]
    /\ download' = {[d EXCEPT !.phase = "write", !.todo = Tail(@)]}
    /\ UNCHANGED <<setup, completed, torn, registryVars, loaded>>

FinishDownload ==
  \E d \in download :
    /\ d.phase = "write" /\ d.todo = <<>>
    /\ download' = {}
    /\ completed' = Append(completed, d.window)
    /\ UNCHANGED <<setup, files, torn, registryVars, loaded>>

(* The process ends early: a request fails, or it is killed while it writes (at
   most once, the bound of torn). *)
StopDownload ==
  \E d \in download :
    /\ d.phase = "fetch" => setup.requests_fail
    /\ d.phase # "fetch" => setup.downloads_crash /\ ~torn
    /\ download' = {}
    /\ torn' = (torn \/ d.phase # "fetch")
    /\ UNCHANGED <<setup, files, completed, registryVars, loaded>>
-----------------------------------------------------------------------------
(* train_from_mapping, up to the first write of save_model.  A training that
   raises before it writes nothing. *)
Train ==
  /\ saving = {}
  /\ trained < setup.max_models
  /\ \E config \in setup.trainings, bars \in provider_bars(files) :
       \E split \in train_directional_pipeline(filter_bars(bars, config.symbols, config.window),
                                               config) :
         LET model == [trained_at |-> trained + 1, feature_names |-> feature_names(config.specs),
                       split |-> split]
         IN  /\ registry' = write_artifact(registry, model)
             /\ saving' = {[model |-> model, stage |-> config.stage,
                            approved_by |-> config.approved_by]}
  /\ trained' = trained + 1
  /\ UNCHANGED <<setup, storeVars, approved, loaded>>

(* The rest of save_model: the manifest, unless its contract is invalid. *)
SaveManifest ==
  \E save \in saving :
    LET manifests == from_model(save.model, save.stage, save.approved_by)
    IN  /\ IF manifests = {} THEN UNCHANGED <<registry, approved>>
           ELSE /\ \E manifest \in manifests : registry' = save_manifest(registry, manifest)
                /\ approved' = approved \cup {t \in {save.model.trained_at} :
                                                save.stage = "approved"}
        /\ saving' = {}
        /\ UNCHANGED <<setup, storeVars, trained, loaded>>

(* The training process is killed between the two writes. *)
CrashTraining ==
  /\ saving # {}
  /\ saving' = {}
  /\ UNCHANGED <<setup, storeVars, registry, trained, approved, loaded>>

(* transition_model_stage by a person, or by nobody. *)
Transition ==
  \E stage \in Stages, actor \in setup.actors :
    \E manifest \in transition(registry, stage, actor), model \in registry.artifact :
      /\ registry' = save_manifest(registry, manifest)
      /\ approved' = IF stage = "approved" THEN approved \cup {model.trained_at}
                     ELSE approved \ {model.trained_at}
      /\ UNCHANGED <<setup, storeVars, saving, trained, loaded>>

(* A runtime starts its strategy, which loads the model for as long as it runs. *)
Load ==
  \E policy \in setup.policies :
    /\ loaded = {}
    /\ inference_load(registry, policy) # {}
    /\ loaded' = inference_load(registry, policy)
    /\ UNCHANGED <<setup, storeVars, registryVars>>

Unload ==
  /\ loaded # {}
  /\ loaded' = {}
  /\ UNCHANGED <<setup, storeVars, registryVars>>

Next ==
  \/ StartDownload \/ ReceivePage \/ OpenFile \/ CloseFile \/ FinishDownload \/ StopDownload
  \/ Train \/ SaveManifest \/ CrashTraining \/ Transition \/ Load \/ Unload

Spec == Init /\ [][Next]_vars
-----------------------------------------------------------------------------
(* The bars of the market that belong into the files: those of a window, while
   the exchange was really open. *)
Wanted(window) ==
  {Market[i] : i \in {j \in DOMAIN Market :
     /\ In(Market[j], window)
     /\ ~setup.session_filter
          \/ \E hours \in OpenHours :
               hours[1] <= Market[j].timestamp /\ Market[j].timestamp < hours[2]}}

(* The windows whose files are there: in a file of a fixed path the last one alone. *)
Kept ==
  IF FixedPath(setup.output) THEN {completed[i] : i \in {Len(completed)} \ {0}}
  ELSE Range(completed)

Overlap == \E v, w \in Kept : v # w /\ Wanted(v) \cap Wanted(w) # {}

(* While no download has been cut off between its writes and none is writing, a
   provider reads each bar of every downloaded window once, and no other: over
   the pages of the answers, the files of the partitions, a window downloaded
   again or split in two.  It refuses exactly when two different windows have a
   bar in common, or there is no bar at all. *)
ReadsWhatWasDownloaded ==
  ~torn /\ (\A d \in download : d.phase = "fetch") =>
    LET wanted == UNION {Wanted(window) : window \in Kept}
        read   == provider_bars(files)
        empty  == Kept = {} \/ (wanted = {} /\ output_layout(setup.output) = "partitioned")
    IN  IF Overlap \/ empty THEN read = {}
        ELSE \E bars \in read : Range(bars) = wanted /\ Len(bars) = Cardinality(wanted)

(* The samples of a part of a model's split. *)
Part(model, name) == Range(model.split[name])

(* The model in the registry was fitted on nothing its evaluation looks at: the
   label of a training sample of any symbol was decided before the first bar it
   is validated or tested on, that of a validation sample before the first bar
   of the test, although the embargo counts samples and not bars, and the bars
   were read while a download was writing. *)
NoLeakage ==
  \A model \in registry.artifact :
    \A parts \in {<<"train", "validation">>, <<"train", "test">>, <<"validation", "test">>} :
      \A learned \in Part(model, parts[1]), judged \in Part(model, parts[2]) :
        learned.label_end < judged.timestamp

(* A runtime that insists on an approved model starts with one that a person
   approved and nobody demoted or trained over since, unless the manifest it
   went by is that of an earlier model: then the save of this one was cut off
   between its two writes, or its manifest was refused. *)
ApprovedIsLoaded ==
  [][\A run \in loaded' \ loaded :
       run.policy.require_approved_model /\ run.manifest.created_at = run.model.trained_at
         => run.model.trained_at \in approved]_vars
=============================================================================
