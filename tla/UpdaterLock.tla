----------------------------- MODULE UpdaterLock -----------------------------
(***************************************************************************)
(* updater.lock, the file by which the commands of the updater exclude one *)
(* another.  It is created exclusively, holds the token of its owner and   *)
(* is never refreshed by a command; an Acquire that finds it older than    *)
(* five minutes renames it away and creates its own.  A step of a process  *)
(* between two file operations is a step of its own here.                  *)
(***************************************************************************)
EXTENDS Naturals, FiniteSets

CONSTANTS
  Process,   \* the requests and the timer of the updater that run commands
  NoProcess  \* the owner of no lock

ASSUME LockAssumption == NoProcess \notin Process

VARIABLES
  owner,  \* the process whose token updater.lock holds, or NoProcess
  stale,  \* the file is older than staleAfter
  doing   \* per process: "out", "renaming" a stale lock, "creating" its own after
          \* that, "in", or "removing" its own

lockVars == <<owner, stale, doing>>

LockTypeOK ==
  /\ owner \in Process \cup {NoProcess}
  /\ stale \in BOOLEAN
  /\ doing \in [Process -> {"out", "renaming", "creating", "in", "removing"}]

LockInit ==
  /\ owner = NoProcess /\ stale = FALSE
  /\ doing = [p \in Process |-> "out"]

-----------------------------------------------------------------------------
(* os.OpenFile with O_EXCL: the caller holds the lock from here on.        *)
Acquire(p) ==
  /\ doing[p] \in {"out", "creating"} /\ owner = NoProcess
  /\ owner' = p /\ stale' = FALSE
  /\ doing' = [doing EXCEPT ![p] = "in"]

(* os.Stat saw a stale file: os.Rename will take whatever is there by then.*)
FindStale(p) ==
  /\ doing[p] = "out" /\ owner # NoProcess /\ stale
  /\ doing' = [doing EXCEPT ![p] = "renaming"]
  /\ UNCHANGED <<owner, stale>>

RenameAway(p) ==
  /\ doing[p] = "renaming"
  /\ owner' = NoProcess /\ stale' = FALSE
  /\ doing' = [doing EXCEPT ![p] = "creating"]

(* The rename or the creation fails, another process was the first to      *)
(* create the file, or this was the third attempt.                         *)
AcquireFails(p) ==
  /\ doing[p] \in {"renaming", "creating"}
  /\ doing' = [doing EXCEPT ![p] = "out"]
  /\ UNCHANGED <<owner, stale>>

(* owned() was read; os.Remove follows.                                    *)
Owned(p) == owner = p

BeginRelease(p) ==
  /\ doing[p] = "in"
  /\ doing' = [doing EXCEPT ![p] = IF Owned(p) THEN "removing" ELSE "out"]
  /\ UNCHANGED <<owner, stale>>

Remove(p) ==
  /\ doing[p] = "removing"
  /\ owner' = NoProcess /\ stale' = FALSE
  /\ doing' = [doing EXCEPT ![p] = "out"]

(* Five minutes pass: no command calls Refresh.                            *)
LockAges ==
  /\ owner # NoProcess /\ ~stale
  /\ stale' = TRUE
  /\ UNCHANGED <<owner, doing>>

(* The updater dies: the file stays.                                       *)
LockCrash ==
  /\ doing' = [p \in Process |-> "out"]
  /\ UNCHANGED <<owner, stale>>

-----------------------------------------------------------------------------
(* From the creation of the file to its removal.                           *)
Holds(p) == doing[p] \in {"in", "removing"}

(* "another updater instance holds the lock" (ErrLocked): no two of them   *)
(* hold it at once.                                                        *)
OneHolder == \A p, q \in Process : Holds(p) /\ Holds(q) => p = q
=============================================================================
