--------------------------- MODULE MCApplication ---------------------------
(* The components beside the batch, the license and the update job, one at a    *)
(* time: a behaviour chooses its part and the others stay as they began.        *)
EXTENDS TaskDrain, Accounts, ServerStartup, UploadPanel, MCRelease, BackupStore, RequestForm,
        ServerSettings

CONSTANT Components

VARIABLE part

Beside(p, fixed) == part # p => fixed

-----------------------------------------------------------------------------
(* Forms: each limit is met from both sides.                                    *)
Selections == {<<>>, <<Every>>, <<Junk>>, <<Span(0, 0)>>, <<Span(2, 2)>>, <<Span(1, 3), Span(3, 4)>>,
               <<Span(3, 1)>>, <<Every, Span(1, 1)>>, <<Span(100001, 100001)>>}
Filled == {"blank", "some"}
Opacities == {{}, {0}, {5}, {10}, {11}}
HeaderForms ==
    [tool : {"headers-footers/add"}, pages : Selections, fontSize : {{}, {0}, {15}, {1000}, {1010}},
     opacity : Opacities, margin : {{0 - 10}, {0}}, region : {"blank", "text", "page_number", "unknown_variable"},
     offset : {{}, {0}, {10}, {15}}]
BatesForms ==
    [tool : {"bates/add"}, pages : {<<Every>>, <<Span(2, 1)>>}, fontSize : {{120}}, opacity : Opacities,
     margin : {{300}}, start : {0, 1, 99, 100, 2147483647}, digits : {0, 1, 2, 3, 10, 32, 33},
     prefix : SUBSET {"letter", "hash", "hyphen"}]
WatermarkForms ==
    [tool : {"watermark/add"}, pages : Selections, type : {"text", "image"}, text : Filled,
     file : {"none", "empty", "some"}, opacity : Opacities, fontSize : {{}, {0}, {120}}, spacing : {{}, {0 - 10}, {0}}]
SplitForms ==
    [tool : {"split"}, mode : {"custom"}, ranges : {<<>>} \cup {<<s, t>> : s, t \in Selections}, count : {1}]
    \cup [tool : {"split"}, mode : {"every", "equal"}, ranges : {<<>>}, count : 0 .. 5]
AllForms ==
    [tool : {"delete", "rotate", "watermark/remove"}, pages : Selections, typed : Typing]
    \cup [tool : {"compress"}, quality : {"low", "medium", "high", "custom"},
          image : {{}, {0 - 10}, {0}, {5}, {1000}, {1010}}]
    \cup [tool : {"encrypt"}, password : Filled]
    \cup [tool : {"insert-from-pdf"}, pages : Selections, file : {"none", "some"}]
    \cup [tool : {"pdf/png"}, dpi : {70, 71, 72, 73, 100, 1499, 1500, 1501}]
    \cup WatermarkForms \cup SplitForms \cup HeaderForms \cup BatesForms
SomeForm == CHOOSE f \in AllForms : TRUE
SomeRelease == CHOOSE r \in ReleaseSpecs : TRUE
SomeKey == CHOOSE k \in Trusted : TRUE
SomePassword == CHOOSE p \in Passwords : TRUE
SomeSettings == file = NoFile /\ settings = CHOOSE fields \in Fields : TRUE

-----------------------------------------------------------------------------
ApplicationInit ==
    /\ part \in Components
    /\ TaskDrainInit /\ StartupInit /\ PanelInit /\ BackupInit
    /\ SettingsInit /\ Beside("settings", SomeSettings)
    /\ AccountsInit /\ Beside("accounts", user.password = SomePassword)
    /\ DownloadInit /\ Beside("download", site = Build(SomeRelease, SomeKey))
    /\ IF part = "form" THEN FormInit
       ELSE form = SomeForm /\ stage = "form" /\ document = 1 /\ sent = [op |-> "nothing"]

Others(component) == /\ part = component /\ UNCHANGED part
                     /\ component # "tasks" => UNCHANGED drainVars
                     /\ component # "accounts" => UNCHANGED accountVars
                     /\ component # "startup" => UNCHANGED startVars
                     /\ component # "panel" => UNCHANGED panelVars
                     /\ component # "download" => UNCHANGED downloadVars
                     /\ component # "backup" => UNCHANGED backupVars
                     /\ component # "form" => UNCHANGED formVars
                     /\ component # "settings" => UNCHANGED settingsVars

ApplicationNext ==
    \/ Others("tasks") /\ TaskDrainNext
    \/ Others("accounts") /\ AccountsNext
    \/ Others("startup") /\ StartupNext
    \/ Others("panel") /\ PanelNext
    \/ Others("download") /\ DownloadNext
    \/ Others("backup") /\ BackupNext
    \/ Others("form") /\ FormNext
    \/ Others("settings") /\ SettingsNext

applicationVars == <<part, drainVars, accountVars, startVars, panelVars, downloadVars, backupVars, formVars,
                     settingsVars>>

(* The fairness of the components, in two conditions: only one component runs,  *)
(* and there is one task.                                                       *)
OneFair == \/ Others("tasks") /\ \E t \in Tasks : RunTask(t)
           \/ Others("accounts") /\ AccountsStep
           \/ Others("panel") /\ PageStep
OtherFair == Others("panel") /\ \E f \in Files : WorkOn(f)

ApplicationSpec ==
    /\ ApplicationInit /\ [][ApplicationNext]_applicationVars
    /\ WF_applicationVars(OneFair) /\ WF_applicationVars(OtherFair)

(* The variables have the shapes their modules give them; a partial file never  *)
(* holds more than one chunk beyond what its manifest declares, whatever the    *)
(* channel sends.                                                               *)
ApplicationTypeOK ==
    /\ TaskDrainTypeOK /\ AccountsTypeOK /\ StartupTypeOK /\ PanelTypeOK /\ DownloadTypeOK
    /\ SettingsTypeOK
=============================================================================
