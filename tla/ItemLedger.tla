----------------------------- MODULE ItemLedger -----------------------------
(***************************************************************************)
(* What the batch subsystem promises about one item, without files,        *)
(* workers, retention or counters: an accepted item is worked on by one    *)
(* grant at a time, only the current grant can settle it, a settled        *)
(* success is final, and no item is forgotten while it is open.            *)
(***************************************************************************)
CONSTANTS Item, Grant, NoGrant

VARIABLES
  phase,    \* the life of each item
  holder,   \* the grant that may settle the item
  result,   \* the grant whose result was published
  granted   \* grants ever given out

ledger == <<phase, holder, result, granted>>

Init ==
  /\ phase = [i \in Item |-> "absent"]
  /\ holder = [i \in Item |-> NoGrant]
  /\ result = [i \in Item |-> NoGrant]
  /\ granted = {}

Move(S, to) == phase' = [i \in Item |-> IF i \in S THEN to ELSE phase[i]]
All(S, froms) == \A i \in S : phase[i] \in froms

Accept(i) ==
  /\ phase[i] = "absent"
  /\ Move({i}, "uploaded")
  /\ UNCHANGED <<holder, result, granted>>

Enqueue(S) ==
  /\ All(S, {"uploaded"})
  /\ Move(S, "queued")
  /\ UNCHANGED <<holder, result, granted>>

Withdraw(S) ==
  /\ All(S, {"uploaded", "queued"})
  /\ Move(S, "canceled")
  /\ UNCHANGED <<holder, result, granted>>

(* A fresh grant, to a queued item or in place of the previous holder.     *)
Give(i, g) ==
  /\ phase[i] \in {"queued", "processing"} /\ g \notin granted
  /\ Move({i}, "processing")
  /\ holder' = [holder EXCEPT ![i] = g]
  /\ granted' = granted \cup {g}
  /\ UNCHANGED result

Publish(i) ==
  /\ phase[i] = "processing"
  /\ Move({i}, "success")
  /\ result' = [result EXCEPT ![i] = holder[i]]
  /\ holder' = [holder EXCEPT ![i] = NoGrant]
  /\ UNCHANGED granted

GiveUp(i) ==
  /\ phase[i] = "processing"
  /\ Move({i}, "failed")
  /\ holder' = [holder EXCEPT ![i] = NoGrant]
  /\ UNCHANGED <<result, granted>>

Reopen(i) ==
  /\ phase[i] = "failed"
  /\ Move({i}, "queued")
  /\ UNCHANGED <<holder, result, granted>>

Forget(S) ==
  /\ All(S, {"absent", "uploaded", "success", "failed", "canceled"})
  /\ Move(S, "absent")
  /\ result' = [i \in Item |-> IF i \in S THEN NoGrant ELSE result[i]]
  /\ UNCHANGED <<holder, granted>>

Next ==
  \/ \E i \in Item : Accept(i) \/ Publish(i) \/ GiveUp(i) \/ Reopen(i)
  \/ \E i \in Item, g \in Grant : Give(i, g)
  \/ \E S \in SUBSET Item : Enqueue(S) \/ Withdraw(S) \/ Forget(S)

Spec == Init /\ [][Next]_ledger
=============================================================================
