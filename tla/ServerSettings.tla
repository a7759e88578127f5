--------------------------- MODULE ServerSettings ---------------------------
(***************************************************************************)
(* The settings of the server: the row of system_settings and its cache,   *)
(* settings.yml, which every save rewrites and every start applies, and    *)
(* the check for new releases, which the file configures.                  *)
(***************************************************************************)
EXTENDS Naturals

CONSTANTS
  Visitors,    \* requests under way at once
  Columns,     \* the fields that the Dashboard and the file both set
  Values,
  Feeds,       \* addresses of release manifests
  DefaultFeed, \* defaultUpdateManifestUrl()
  MaxEdits,    \* bounds how often the operator edits settings.yml
  MaxSettingsFaults

ASSUME SettingsAssumption == DefaultFeed \in Feeds

VARIABLES
  settings, \* the row
  cache,    \* BrandSettingsService.cache: at most one copy of the row
  file,     \* settings.yml
  checks,   \* updatesConfig: a feed, or "off"
  visit,    \* per request: where it is, with what it read
  redis,    \* per cache key: where the manifest kept there is from, if any
  apart,    \* the file may differ from the row: see FileAgrees
  edits, settingsFaults
settingsVars == <<settings, cache, file, checks, visit, redis, apart, edits, settingsFaults>>
storeVars == <<settings, cache, file, apart>>
checkVars == <<checks, redis>>
counts == <<edits, settingsFaults>>

Fields == [Columns -> Values]
Patches == [Columns -> Values \cup {"omitted"}]
NoFile == [readable |-> FALSE, fields |-> [k \in Columns |-> "omitted"], updates |-> "omitted"]
SettingsFiles ==
  {NoFile} \cup [readable : {TRUE}, fields : Patches, updates : Feeds \cup {"omitted", "off"}]

\* UPDATE sets the columns that are given, and no others.
Over(fields, patch) == [k \in Columns |-> IF patch[k] = "omitted" THEN fields[k] ELSE patch[k]]
Applied(f, fields) == Over(fields, f.fields)

\* Only the four sections that the Dashboard knows are written.
Merged(fields) == [readable |-> TRUE, fields |-> fields, updates |-> "omitted"]

Configured(f) == IF f.updates # "omitted" THEN f.updates ELSE DefaultFeed

Away == [at |-> "away"]
Where(v, place) == visit[v].at = place
Move(v, state) == visit' = [visit EXCEPT ![v] = state]
Saving(v) == visit[v].at \in {"updated", "saving", "saved"}

SettingsInit ==
  /\ file \in SettingsFiles /\ settings \in Fields /\ settings = Applied(file, settings)
  /\ cache = {} /\ checks = Configured(file)
  /\ visit = [v \in Visitors |-> Away]
  /\ redis = [u \in Feeds |-> {}]
  /\ apart = FALSE /\ edits = 0 /\ settingsFaults = 0
---------------------------------------------------------------------------
(* getSettings without a copy in the cache: a SELECT, and its answer.      *)
MissCache(v) ==
  /\ Where(v, "away") /\ cache = {}
  /\ Move(v, [at |-> "reading"]) /\ UNCHANGED <<storeVars, checkVars, counts>>

SelectRow(v) ==
  /\ visit[v].at \in {"reading", "saving"}
  /\ Move(v, IF Where(v, "reading") THEN [at |-> "read", fields |-> settings]
             ELSE [at |-> "saved", fields |-> settings, alone |-> visit[v].alone])
  /\ UNCHANGED <<storeVars, checkVars, counts>>

FillCache(v) ==
  /\ Where(v, "read") /\ cache' = {visit[v].fields} /\ Move(v, Away)
  /\ UNCHANGED <<settings, file, apart, checkVars, counts>>

CacheExpires ==
  /\ cache # {} /\ cache' = {}
  /\ UNCHANGED <<settings, file, apart, visit, checkVars, counts>>

(* updateSettings: the UPDATE, its acknowledgement, the SELECT above, the  *)
(* file.  A save is alone if no other was under way at any of its steps.   *)
UpdateRow(v, patch) ==
  /\ Where(v, "away") /\ \E k \in Columns : patch[k] # "omitted"
  /\ settings' = Over(settings, patch)
  /\ visit' = [w \in Visitors |->
       IF w = v THEN [at |-> "updated", alone |-> ~\E u \in Visitors : Saving(u)]
       ELSE IF Saving(w) THEN [visit[w] EXCEPT !.alone = FALSE] ELSE visit[w]]
  /\ UNCHANGED <<cache, file, apart, checkVars, counts>>

(* Without the invalidation getSettings answers from the cache.            *)
KeepCache(v) ==
  /\ Where(v, "updated") /\ UNCHANGED <<storeVars, checkVars, counts>>
  /\ Move(v, IF cache = {} THEN [visit[v] EXCEPT !.at = "saving"]
             ELSE [at |-> "saved", fields |-> CHOOSE c \in cache : TRUE, alone |-> visit[v].alone])

InvalidateCache(v) ==
  /\ Where(v, "updated") /\ cache' = {}
  /\ Move(v, [visit[v] EXCEPT !.at = "saving"])
  /\ UNCHANGED <<settings, file, apart, checkVars, counts>>

WriteSettingsFile(v) ==
  /\ Where(v, "saved")
  /\ cache' = {visit[v].fields} /\ file' = Merged(visit[v].fields)
  /\ apart' = ~visit[v].alone
  /\ Move(v, Away) /\ UNCHANGED <<settings, checkVars, counts>>

MayFail == settingsFaults < MaxSettingsFaults /\ settingsFaults' = settingsFaults + 1

(* The write is refused, and the save succeeds all the same.               *)
WriteRefused(v) ==
  /\ Where(v, "saved") /\ MayFail
  /\ cache' = {visit[v].fields} /\ apart' = TRUE
  /\ Move(v, Away) /\ UNCHANGED <<settings, file, checkVars, edits>>

(* MySQL does not answer a SELECT, or the UPDATE it executed.              *)
CallRefused(v) ==
  /\ visit[v].at \in {"reading", "updated", "saving"} /\ MayFail
  /\ apart' = (apart \/ Saving(v)) /\ Move(v, Away)
  /\ UNCHANGED <<settings, cache, file, checkVars, edits>>
---------------------------------------------------------------------------
(* SettingsFileSyncService.onModuleInit: the file wins, for what it sets.  *)
StartUp(applied) ==
  /\ checks' = Configured(file)
  /\ settings' = IF applied THEN Applied(file, settings) ELSE settings
  /\ apart' = ~applied
  /\ cache' = {} /\ visit' = [v \in Visitors |-> Away]
  /\ UNCHANGED <<file, redis, edits>>

RestartApplied == StartUp(TRUE) /\ UNCHANGED settingsFaults
RestartUnapplied == StartUp(FALSE) /\ MayFail

EditFile(f) ==
  /\ edits < MaxEdits /\ edits' = edits + 1
  /\ file' = f /\ apart' = TRUE
  /\ UNCHANGED <<settings, cache, visit, checkVars, settingsFaults>>
---------------------------------------------------------------------------
(* UpdateCheckService.getStatus: a manifest is taken from Redis, under the  *)
(* key of its address, or else fetched and kept there.  Checks that overlap *)
(* store what they fetched from the same address, so one is one action.     *)
OneKey(url) == DefaultFeed
CacheKey(url) == url
Cached(url) == redis[CacheKey(url)]

FetchLatest ==
  /\ checks # "off" /\ Cached(checks) = {}
  /\ redis' = [redis EXCEPT ![CacheKey(checks)] = {checks}]
  /\ UNCHANGED <<storeVars, checks, visit, counts>>

ManifestExpires(key) ==
  /\ redis[key] # {} /\ redis' = [redis EXCEPT ![key] = {}]
  /\ UNCHANGED <<storeVars, checks, visit, counts>>
---------------------------------------------------------------------------
SettingsNext ==
  \/ \E v \in Visitors :
       \/ MissCache(v) \/ SelectRow(v) \/ FillCache(v)
       \/ InvalidateCache(v) \/ WriteSettingsFile(v) \/ WriteRefused(v) \/ CallRefused(v)
       \/ \E patch \in Patches : UpdateRow(v, patch)
  \/ CacheExpires \/ RestartApplied \/ RestartUnapplied
  \/ \E f \in SettingsFiles : EditFile(f)
  \/ FetchLatest \/ \E key \in Feeds : ManifestExpires(key)

SettingsSpec == SettingsInit /\ [][SettingsNext]_settingsVars
---------------------------------------------------------------------------
SettingsTypeOK ==
  /\ settings \in Fields /\ cache \subseteq Fields /\ file \in SettingsFiles
  /\ checks \in Feeds \cup {"off"}
  /\ redis \in [Feeds -> SUBSET Feeds] /\ apart \in BOOLEAN

\* A restart does not take back what was saved on the Dashboard: once a save
\* that was alone has ended, the row is what the file makes of it, whatever
\* reads and expiries of the cache came between, until the operator edits the
\* file, a call or a write is refused, or two saves overlap.
FileAgrees ==
  settings = Applied(file, settings) \/ apart \/ \E v \in Visitors : Saving(v)

\* The Dashboard announces releases of the configured address only, although
\* the manifests that Redis holds outlive a change of it.
FeedShown == checks # "off" => Cached(checks) \subseteq {checks}

\* A save keeps the settings of a readable file that the Dashboard does not
\* know, such as the switch that turns the check for releases off.
OperatorKeysKept ==
  [][edits' = edits /\ file.readable => file'.updates = file.updates]_settingsVars
=============================================================================
