-------------------------- MODULE ApplicationProofs --------------------------
(* The application, as it is checked, does to each component only what the      *)
(* component's own module allows.  What the component modules' theorems state   *)
(* therefore holds of the whole, and the shapes of all its variables with it.   *)
EXTENDS MCApplication, ServerProofs, PageProofs, ReleaseProofs

(* The application begins each component in one of its initial states.          *)
LEMMA PartsBegin ==
  ApplicationInit => /\ TaskDrainInit /\ AccountsInit /\ StartupInit /\ PanelInit
                     /\ DownloadInit /\ BackupInit /\ SettingsInit
  BY DEF ApplicationInit

(* A step of the application is a step of the component that runs, and leaves   *)
(* the others as they are.                                                      *)
LEMMA PartsStep ==
  ASSUME [ApplicationNext]_applicationVars
  PROVE  /\ [TaskDrainNext]_drainVars /\ [AccountsNext]_accountVars /\ [StartupNext]_startVars
         /\ [PanelNext]_panelVars /\ [DownloadNext]_downloadVars /\ [BackupNext]_backupVars
         /\ [SettingsNext]_settingsVars
<1>1. CASE UNCHANGED applicationVars
  BY <1>1 DEF applicationVars
<1>2. CASE Others("tasks") /\ TaskDrainNext
  BY <1>2 DEF Others
<1>3. CASE Others("accounts") /\ AccountsNext
  BY <1>3 DEF Others
<1>4. CASE Others("startup") /\ StartupNext
  BY <1>4 DEF Others
<1>5. CASE Others("panel") /\ PanelNext
  BY <1>5 DEF Others
<1>6. CASE Others("download") /\ DownloadNext
  BY <1>6 DEF Others
<1>7. CASE Others("backup") /\ BackupNext
  BY <1>7 DEF Others
<1>8. CASE Others("form") /\ FormNext
  BY <1>8 DEF Others
<1>9. CASE Others("settings") /\ SettingsNext
  BY <1>9 DEF Others
<1>. QED BY <1>1, <1>2, <1>3, <1>4, <1>5, <1>6, <1>7, <1>8, <1>9 DEF ApplicationNext

(* Every behaviour of the application is, of each component, a behaviour of the *)
(* component's own specification.                                               *)
THEOREM PartsKept ==
  ApplicationSpec => /\ TaskDrainSpec /\ AccountsSpec /\ StartupSpec /\ PanelSpec
                     /\ DownloadSpec /\ BackupSpec /\ SettingsSpec
BY PartsBegin, PartsStep, PTL
   DEF ApplicationSpec, TaskDrainSpec, AccountsSpec, StartupSpec, PanelSpec, DownloadSpec, BackupSpec, SettingsSpec

(* ApplicationTypeOK: whichever component runs, its variables keep the shapes   *)
(* their module gives them, and a partial file never holds more than one chunk  *)
(* beyond what its manifest declares (download.go: the reader is limited).      *)
THEOREM ApplicationTyped == ApplicationSpec => []ApplicationTypeOK
<1>1. TaskDrainTypeOK /\ AccountsTypeOK /\ StartupTypeOK /\ PanelTypeOK /\ DownloadTypeOK /\ SettingsTypeOK
      => ApplicationTypeOK
  BY DEF ApplicationTypeOK
<1>. QED BY <1>1, PartsKept, TasksTyped, AccountsTyped, StartupTyped, PanelTyped, PartialsBounded, SettingsTyped, PTL

(* While another component runs the form stays as it began, unsent.             *)
FormTurn == IF part = "form" THEN FormInv ELSE stage = "form"

(* The form keeps its invariant when its turn comes and only then moves.        *)
LEMMA FormsKept == ApplicationSpec => []FormTurn
<1>1. ApplicationInit => FormTurn
  BY FormStarts DEF ApplicationInit, FormTurn
<1>2. FormTurn /\ [ApplicationNext]_applicationVars => FormTurn'
  <2> SUFFICES ASSUME FormTurn, [ApplicationNext]_applicationVars PROVE FormTurn'
    OBVIOUS
  <2>1. part' = part
    BY DEF ApplicationNext, Others, applicationVars
  <2>2. CASE part = "form"
    <3>1. [FormNext]_formVars
      BY <2>2 DEF ApplicationNext, Others, applicationVars
    <3> QED BY <2>1, <2>2, <3>1, FormStep DEF FormTurn
  <2>3. CASE part # "form"
    <3>1. UNCHANGED formVars
      BY <2>3 DEF ApplicationNext, Others, applicationVars
    <3> QED BY <2>1, <2>3, <3>1 DEF FormTurn, formVars
  <2> QED BY <2>2, <2>3
<1> QED BY <1>1, <1>2, PTL DEF ApplicationSpec

(* The safety properties of the components hold whichever one runs: a drained   *)
(* snapshot misses a task inserted while it was taken and no other, a session   *)
(* has proved its password, a recorded schema version is built and a start that *)
(* was alone leaves a key that works, the page shows the results the            *)
(* server has, or the processing that a cancel left, verified bundles and       *)
(* backups stay whole, a form that starts is accepted and its pages, preset and *)
(* parts are sent as they were meant, and saved settings are the ones that are  *)
(* read back and shown.                                                         *)
THEOREM ApplicationSafe ==
  ApplicationSpec => [](/\ DrainedOnce /\ SessionsProved /\ SchemaRecorded /\ KeyServes
                        /\ ResultsShown /\ VerifiedStays /\ BackupsWhole /\ FormAccepted /\ MeantIsSent
                        /\ FileAgrees /\ FeedShown)
<1>1. FormTurn => FormAccepted /\ MeantIsSent
  BY SentAsMeant DEF FormTurn, FormInv, FormAccepted, MeantIsSent
<1>. QED BY <1>1, FormsKept, PartsKept, DrainSound, SessionsSound, RecordedIsBuilt, KeyIsActive,
            ResultsTrue, VerifiedKept, BackupsSound, SavesSurvive, FeedSound, PTL
=============================================================================
