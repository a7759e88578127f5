------------------------------ MODULE MCUpdates ------------------------------
(* The update for TLC.  With the scheduler, the page and two jobs at once  *)
(* the instance is out of reach, so a behaviour chooses its scope: "page"  *)
(* (the whole composition for one request and two releases), "requests"    *)
(* (the page and two requests, one after the other, with the posts of both *)
(* in flight, the scheduler left out) or "commands" (the commands, imports *)
(* too, and the scheduler, two requests, the page left out).               *)
EXTENDS UpdatePage

CONSTANTS d1, a2, Scopes

VARIABLE scope

(* The scheduler's id for the release beyond the installed one is a2.      *)
AutomaticId == [v \in Version |-> a2]

CommandScope ==
  /\ \/ AutomationNext \/ AutomationCrash
     \/ CommandsNext /\ UNCHANGED autoVars
  /\ UNCHANGED pageVars

OneRequest ==
  job'.id \in {NoRequest, a2} /\ \A p \in Process : mem'[p].id \in {NoRequest, a2}

NoImport == \A p \in Process : pc'[p] # "imported"

(* With one process, the age of the lock matters only once its owner died. *)
AgedWhenDead == stale' => doing'[owner'] \in {"out", "renaming", "creating"}

MCInit == scope \in Scopes /\ PageInit

MCNext ==
  /\ \/ scope = "page" /\ UpdatesNext /\ OneRequest /\ NoImport
     \/ scope = "requests" /\ UpdatesNext /\ OneJobEach /\ NoImport
          /\ ~work' /\ auto' = "idle" /\ cancels' = {}
     \/ scope = "commands" /\ CommandScope
  /\ AgedWhenDead /\ UNCHANGED scope

MCSpec == MCInit /\ [][MCNext]_<<scope, updateVars>>
=============================================================================
