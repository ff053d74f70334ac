--------------------------- MODULE ScheduleSettings --------------------------
(***************************************************************************)
(* The daily consolidation: the settings page (use-jobs-workspace.ts), the  *)
(* setting and its scheduler (jobs.service.ts), and the worker's start.     *)
(*                                                                          *)
(* The setting is a row of the database and the schedule an entry in Redis; *)
(* an update writes one after the other, two tabs may update at a time, and *)
(* the API restarts in between.                                             *)
(***************************************************************************)
EXTENDS Naturals

CONSTANTS Tabs, None

VARIABLES
    setting,     \* consolidationEnabled and consolidationMode
    scheduled,   \* the owner's job scheduler is there
    jobsTab,     \* the settings page of each tab
    starting,    \* the worker's start
    agreed,      \* history: the dialog agreed to what was written last
    clean        \* history: the last update ran alone and nothing failed since

scheduleVars == <<setting, scheduled, jobsTab, starting, agreed, clean>>

Settings == [enabled: BOOLEAN, mode: {"REVIEW_ONLY", "AUTO_APPLY"}]
AutoApplies(s) == s.enabled /\ s.mode = "AUTO_APPLY"

\* persistSettings under way: what is sent, the draft to go back to, and how far
\* it is.
NoSave == [step |-> "none", body |-> None, back |-> None, agreed |-> FALSE]
Saves == [step: {"none", "asking", "sent", "written", "saved", "failed"},
          body: Settings \cup {None}, back: Settings \cup {None}, agreed: BOOLEAN]

ScheduleTypeOK ==
    /\ setting \in Settings
    /\ scheduled \in BOOLEAN /\ agreed \in BOOLEAN /\ clean \in BOOLEAN
    /\ jobsTab \in [Tabs -> [cached: Settings, draft: Settings \cup {None}, save: Saves]]
    /\ starting \in {"no", "enabled"}

-----------------------------------------------------------------------------
(* The page *)

Shown(t) == IF jobsTab[t].draft = None THEN jobsTab[t].cached ELSE jobsTab[t].draft
Free(t) == jobsTab[t].save.step = "none"

ChooseMode(t, mode) ==
    /\ Free(t) /\ Shown(t).mode # mode
    /\ jobsTab' = [jobsTab EXCEPT ![t].draft = [Shown(t) EXCEPT !.mode = mode]]
    /\ UNCHANGED <<setting, scheduled, starting, agreed, clean>>

\* confirmAutoApply, and persistSettings when there is nothing to ask.
Save(t, next) ==
    LET asks == AutoApplies(next)
        save == [step |-> IF asks THEN "asking" ELSE "sent", body |-> next,
                 back |-> jobsTab[t].draft, agreed |-> FALSE]
    IN  /\ Free(t)
        /\ jobsTab' = [jobsTab EXCEPT
              ![t].save = save, ![t].draft = IF asks THEN @ ELSE next]
        /\ UNCHANGED <<setting, scheduled, starting, agreed, clean>>

SaveSettings(t) == Save(t, Shown(t))
ChangeEnabled(t) == Save(t, [Shown(t) EXCEPT !.enabled = ~ @])

AnswerDialog(t, yes) ==
    /\ jobsTab[t].save.step = "asking"
    /\ jobsTab' = IF yes
                  THEN [jobsTab EXCEPT ![t].save.step = "sent",
                                       ![t].save.agreed = TRUE,
                                       ![t].draft = jobsTab[t].save.body]
                  ELSE [jobsTab EXCEPT ![t].save = NoSave]
    /\ UNCHANGED <<setting, scheduled, starting, agreed, clean>>

\* The answer, or the failure to get one.
FinishSave(t) ==
    /\ LET save == jobsTab[t].save
           page == CASE save.step = "saved" ->
                          [cached |-> save.body, draft |-> None, save |-> NoSave]
                     [] save.step = "failed" ->
                          [jobsTab[t] EXCEPT !.draft = save.back, !.save = NoSave]
       IN  /\ save.step \in {"saved", "failed"}
           /\ jobsTab' = [jobsTab EXCEPT ![t] = page]
    /\ UNCHANGED <<setting, scheduled, starting, agreed, clean>>

Refetch(t) ==
    /\ jobsTab[t].cached # setting
    /\ jobsTab' = [jobsTab EXCEPT ![t].cached = setting]
    /\ UNCHANGED <<setting, scheduled, starting, agreed, clean>>

-----------------------------------------------------------------------------
(* updateConsolidationSettings *)

\* An update, or a worker's start, between its two steps.
Between == {t \in Tabs : jobsTab[t].save.step = "written"}
Undisturbed(others) == others = {} /\ starting = "no"

Step(t, step) == jobsTab' = [jobsTab EXCEPT ![t].save.step = step]

\* Mutant: the page sends only what differs from what it has loaded.
WrittenRow_Partial(t) ==
    LET save == jobsTab[t].save
    IN  [field \in {"enabled", "mode"} |->
            IF save.body[field] = jobsTab[t].cached[field] THEN setting[field]
                                                           ELSE save.body[field]]
WrittenRow(t) == jobsTab[t].save.body

WriteSetting(t) ==
    /\ jobsTab[t].save.step = "sent"
    /\ setting' = WrittenRow(t)
    /\ agreed' = jobsTab[t].save.agreed
    /\ clean' = Undisturbed(Between)
    /\ Step(t, "written")
    /\ UNCHANGED <<scheduled, starting>>

\* Mutant: a schedule is never taken away.
Synced_Upsert(enabled) == scheduled \/ enabled
Synced(enabled) == enabled

\* syncScheduledConsolidationJob
SyncSchedule(t) ==
    /\ jobsTab[t].save.step = "written"
    /\ scheduled' = Synced(jobsTab[t].save.body.enabled)
    /\ Step(t, "saved")
    /\ UNCHANGED <<setting, starting, agreed, clean>>

\* The request or its answer is lost, Redis refuses, or the API restarts.
FailSave(t) ==
    /\ jobsTab[t].save.step \in {"sent", "written", "saved"}
    /\ clean' = (clean /\ jobsTab[t].save.step # "written")
    /\ Step(t, "failed")
    /\ UNCHANGED <<setting, scheduled, starting, agreed>>

-----------------------------------------------------------------------------
(* onModuleInit *)

\* The worker is up: syncScheduledConsolidationJobs reads who is to be scheduled.
StartWorker ==
    /\ starting = "no"
    /\ starting' = IF setting.enabled THEN "enabled" ELSE "no"
    /\ clean' = (clean /\ Between = {})
    /\ UNCHANGED <<setting, scheduled, jobsTab, agreed>>

UpsertEnabled ==
    /\ starting = "enabled"
    /\ scheduled' = TRUE
    /\ starting' = "no"
    /\ UNCHANGED <<setting, jobsTab, agreed, clean>>

\* Redis cannot be reached: the worker is started another time.
StartFails ==
    /\ starting # "no"
    /\ starting' = "no"
    /\ UNCHANGED <<setting, scheduled, jobsTab, agreed, clean>>

-----------------------------------------------------------------------------

FirstSetting == [enabled |-> FALSE, mode |-> "REVIEW_ONLY"]

ScheduleInit ==
    /\ setting = FirstSetting
    /\ scheduled = FALSE
    /\ jobsTab = [t \in Tabs |-> [cached |-> FirstSetting, draft |-> None, save |-> NoSave]]
    /\ starting = "no"
    /\ agreed = FALSE
    /\ clean = TRUE

ScheduleNext ==
    \/ \E t \in Tabs :
          \/ \E mode \in {"REVIEW_ONLY", "AUTO_APPLY"} : ChooseMode(t, mode)
          \/ SaveSettings(t) \/ ChangeEnabled(t)
          \/ \E yes \in BOOLEAN : AnswerDialog(t, yes)
          \/ FinishSave(t) \/ Refetch(t)
          \/ WriteSetting(t) \/ SyncSchedule(t) \/ FailSave(t)
    \/ StartWorker \/ UpsertEnabled \/ StartFails

-----------------------------------------------------------------------------
(* Properties *)

\* Consolidation writes memories by itself only after the owner agreed to it in
\* a dialog, whatever drafts, switches and other tabs led there.
AutoApplyWasAgreed == AutoApplies(setting) => agreed

\* When no update is under way, the last one ran alone and nothing failed, the
\* daily run is scheduled exactly when the setting says so; saving once more
\* repairs whatever a failure, a restart or another tab has left behind.
ScheduleFollowsSetting ==
    clean /\ Undisturbed(Between) => (scheduled <=> setting.enabled)
=============================================================================
