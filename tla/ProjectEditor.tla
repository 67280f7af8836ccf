---------------------------- MODULE ProjectEditor ----------------------------
(***************************************************************************)
(* The project editor of the client: openProject, openComposeEditor,       *)
(* openEnvEditor and persistProjectDetails of client/App.tsx.              *)
(*                                                                         *)
(* The compose file and the env are fetched when their editors are opened, *)
(* and saved with the project.  The editor may be closed and opened for    *)
(* another project while an answer is on its way; the answer is put in     *)
(* whatever editor is open.  A text is whose it is and whether somebody    *)
(* typed it; an env is whose it is.  New projects, and the routes of the   *)
(* editor, are left out.                                                   *)
(***************************************************************************)
EXTENDS Naturals, FiniteSets

CONSTANTS Edited,      \* projects
          MaxLoads     \* bound: fetches in flight

ASSUME EditorAssumption == MaxLoads \in Nat

NoText == [of |-> "", typed |-> FALSE]
Typed(p) == [of |-> p, typed |-> TRUE]
InRepository(p) == [of |-> p, typed |-> FALSE]

VARIABLES
  override,   \* projects.composeContent of each
  envOf,      \* whose variables the env file of each holds
  modal,      \* projectModal
  text,       \* projectForm.composeContent
  compose,    \* projectCompose
  envForm,    \* projectEnv
  loads,      \* fetches in flight; late: the editor has been opened anew since
  saving,     \* the save in flight: what it sends
  mixed       \* whether a late answer was put in an open editor

editorVars == <<override, envOf, modal, text, compose, envForm, loads, saving, mixed>>

EmptyCompose == [open |-> FALSE, loading |-> FALSE, source |-> "none"]
EmptyEnv == [opened |-> FALSE, loading |-> FALSE, available |-> TRUE, rows |-> ""]
NoSave == [step |-> "none", project |-> "", sends |-> FALSE, text |-> NoText, env |-> FALSE, rows |-> ""]

MaybeEdited == Edited \cup {""}
EditorText == [of : MaybeEdited, typed : BOOLEAN]
ComposeForm == [open : BOOLEAN, loading : BOOLEAN, source : {"none", "saved", "file", "empty"}]
EnvForm == [opened : BOOLEAN, loading : BOOLEAN, available : BOOLEAN, rows : MaybeEdited]
EditorLoad == [what : {"compose", "env"}, of : Edited, late : BOOLEAN]
EditorSave == [step : {"none", "update", "env", "end"}, project : MaybeEdited, sends : BOOLEAN, text : EditorText,
               env : BOOLEAN, rows : MaybeEdited]

EditorInit ==
  /\ override \in {f \in [Edited -> {NoText} \cup {Typed(p) : p \in Edited}] : \A p \in Edited : f[p] \in {NoText, Typed(p)}}
  /\ envOf = [p \in Edited |-> p]
  /\ modal = "" /\ text = NoText /\ compose = EmptyCompose /\ envForm = EmptyEnv
  /\ loads = {} /\ saving = NoSave /\ mixed = FALSE

ServerUnchanged == UNCHANGED <<override, envOf>>
Late(ls) == {[l EXCEPT !.late = TRUE] : l \in ls}
-----------------------------------------------------------------------------
(* openProject, and the close of the editor *)
OpenProject(p) ==
  /\ modal = ""
  /\ modal' = p /\ text' = override[p] /\ compose' = EmptyCompose /\ envForm' = EmptyEnv
  /\ loads' = Late(loads)
  /\ UNCHANGED <<saving, mixed>> /\ ServerUnchanged

CloseEditor ==
  /\ modal # "" /\ modal' = ""
  /\ UNCHANGED <<text, compose, envForm, loads, saving, mixed>> /\ ServerUnchanged

Fetch(what) == /\ Cardinality(loads) < MaxLoads
               /\ loads' = loads \cup {[what |-> what, of |-> modal, late |-> FALSE]}

OpenComposeEditor ==
  /\ modal # "" /\ ~compose.loading /\ ~compose.open
  /\ IF text # NoText
     THEN compose' = [open |-> TRUE, loading |-> FALSE, source |-> "saved"] /\ UNCHANGED loads
     ELSE compose' = [EmptyCompose EXCEPT !.loading = TRUE] /\ Fetch("compose")
  /\ UNCHANGED <<modal, text, envForm, saving, mixed>> /\ ServerUnchanged

OpenEnvEditor ==
  /\ modal # "" /\ ~envForm.loading /\ ~envForm.opened
  /\ envForm' = [EmptyEnv EXCEPT !.opened = TRUE, !.loading = TRUE] /\ Fetch("env")
  /\ UNCHANGED <<modal, text, compose, saving, mixed>> /\ ServerUnchanged

EditCompose ==
  /\ modal # "" /\ compose.open
  /\ text' = IF text = NoText THEN Typed(modal) ELSE Typed(text.of)
  /\ compose' = [compose EXCEPT !.source = "saved"]
  /\ UNCHANGED <<modal, envForm, loads, saving, mixed>> /\ ServerUnchanged

(* The answers: the file, none, or a failure; the variables, or a failure. *)
Arrived(l) == loads' = loads \ {l} /\ mixed' = (mixed \/ (l.late /\ modal # ""))

ComposeArrives(l) ==
  /\ l.what = "compose" /\ Arrived(l)
  /\ \/ text' = InRepository(l.of) /\ compose' = [open |-> TRUE, loading |-> FALSE, source |-> "file"]
     \/ text' = NoText /\ compose' = [open |-> TRUE, loading |-> FALSE, source |-> "empty"]
     \/ text' = text /\ compose' = EmptyCompose
  /\ UNCHANGED <<modal, envForm, saving>> /\ ServerUnchanged

EnvArrives(l) ==
  /\ l.what = "env" /\ Arrived(l)
  /\ envForm' \in {[opened |-> TRUE, loading |-> FALSE, available |-> TRUE, rows |-> envOf[l.of]],
                   [EmptyEnv EXCEPT !.opened = TRUE, !.available = FALSE]}
  /\ UNCHANGED <<modal, text, compose, saving>> /\ ServerUnchanged
-----------------------------------------------------------------------------
(* persistProjectDetails: what it sends is what the form says now. *)
SendsCompose_Always == TRUE
SendsCompose == compose.source # "file"
SendsEnv == envForm.opened /\ envForm.available /\ ~envForm.loading

(* Its buttons are disabled while the env is being fetched or a save is running. *)
MaySave == modal # "" /\ saving = NoSave /\ ~envForm.loading

Save ==
  /\ MaySave
  /\ saving' = [step |-> "update", project |-> modal, sends |-> SendsCompose, text |-> text,
                env |-> SendsEnv, rows |-> envForm.rows]
  /\ UNCHANGED <<modal, text, compose, envForm, loads, mixed>> /\ ServerUnchanged

SaveUpdates ==
  /\ saving.step = "update"
  /\ override' = IF saving.sends THEN [override EXCEPT ![saving.project] = saving.text] ELSE override
  /\ saving' = [saving EXCEPT !.step = IF saving.env THEN "env" ELSE "end"]
  /\ UNCHANGED <<envOf, modal, text, compose, envForm, loads, mixed>>

SaveWritesEnv ==
  /\ saving.step = "env"
  /\ envOf' = [envOf EXCEPT ![saving.project] = saving.rows]
  /\ saving' = [saving EXCEPT !.step = "end"]
  /\ UNCHANGED <<override, modal, text, compose, envForm, loads, mixed>>

SaveEnds ==
  /\ saving.step = "end" /\ saving' = NoSave /\ modal' = ""
  /\ UNCHANGED <<text, compose, envForm, loads, mixed>> /\ ServerUnchanged

SaveFails ==
  /\ saving.step \in {"update", "env"} /\ saving' = NoSave
  /\ UNCHANGED <<modal, text, compose, envForm, loads, mixed>> /\ ServerUnchanged

EditorNext ==
  \/ \E p \in Edited : OpenProject(p)
  \/ CloseEditor \/ OpenComposeEditor \/ OpenEnvEditor \/ EditCompose
  \/ \E l \in loads : ComposeArrives(l) \/ EnvArrives(l)
  \/ Save \/ SaveUpdates \/ SaveWritesEnv \/ SaveEnds \/ SaveFails

EditorSpec == EditorInit /\ [][EditorNext]_editorVars
-----------------------------------------------------------------------------
EditorTypeOK ==
  /\ override \in [Edited -> EditorText] /\ envOf \in [Edited -> MaybeEdited]
  /\ modal \in MaybeEdited /\ text \in EditorText /\ compose \in ComposeForm /\ envForm \in EnvForm
  /\ loads \subseteq EditorLoad /\ saving \in EditorSave /\ mixed \in BOOLEAN

(* A save never turns a compose file that was only opened into an override of the project, and   *)
(* never replaces the env by one that was not loaded (App.tsx:956-980); nor does it write the     *)
(* text or the env of another project, unless the answer to a fetch of an earlier                *)
(* opening was put in the editor of a later one (App.tsx:1208-1216, 1241-1243).                  *)
EditorSavesItsOwn ==
  mixed \/ \A p \in Edited : override[p] \in {NoText, Typed(p)} /\ envOf[p] = p
=============================================================================
