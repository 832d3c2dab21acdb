----------------------------- MODULE TeamSlots -----------------------------
(***************************************************************************)
(* Agent teams (storage/team-store.ts and the slot route of                *)
(* routes/bridge-api.ts): a chain of slots that an operator approves as a  *)
(* whole and advances one after the other.  Operators on one team.  A slot *)
(* is named by its place in the chain.                                     *)
(***************************************************************************)
EXTENDS Integers

CONSTANT NumSlots

ASSUME SlotAssumption == NumSlots \in Nat \ {0}

Slots == 1..NumSlots

\* What the route lets a client set a slot to.
SettableStatus == {"ready", "executing", "blocked-needs-gate", "done", "failed", "cancelled"}

SlotStatus == SettableStatus \cup {"pending"}

EndedSlot == {"done", "failed", "cancelled"}

TeamStatus == {"absent", "pending-approval", "approved", "executing", "done",
               "failed", "cancelled"}

Team == [status : TeamStatus, slot : Slots, slots : [Slots -> SlotStatus]]

AbsentTeam == [status |-> "absent", slot |-> 1, slots |-> [s \in Slots |-> "pending"]]

createTeam == [AbsentTeam EXCEPT !.status = "pending-approval"]

canApproveTeam(team) == team.status = "pending-approval"

approveTeam(team) == [team EXCEPT !.status = "approved"]

canCancelTeam(team) == team.status \in {"pending-approval", "approved", "executing"}

cancelTeam(team) == [team EXCEPT !.status = "cancelled"]

\* Faulty variant: the sequential guard looks at executing slots only.
canAdvanceSlot_anySlot(team, s, status) ==
    /\ team.status \in {"approved", "executing"}
    /\ team.slots[s] \notin EndedSlot
    /\ status = "executing" => \A t \in Slots \ {s} : team.slots[t] # "executing"

\* handleSlotAdvancePost's sequential guard; any settable status may follow
\* any other until the slot ends.
canAdvanceSlot(team, s, status) ==
    /\ team.status \in {"approved", "executing"}
    /\ team.slots[s] \notin EndedSlot
    /\ s = team.slot
    /\ status = "executing" => \A t \in Slots \ {s} : team.slots[t] # "executing"

\* Faulty variant: the index runs past the last slot.
nextSlot_unbounded(slot) == slot + 1

\* The index stays at the last slot when all are done.
nextSlot(slot) == IF slot = NumSlots THEN slot ELSE slot + 1

\* setExecuting, if the team was approved, and advanceSlot.
advanceSlot(team, s, status) ==
    LET slots == [team.slots EXCEPT ![s] = status] IN
    [slots  |-> slots,
     slot   |-> IF status = "done" THEN nextSlot(team.slot) ELSE team.slot,
     status |-> IF \A t \in Slots : slots[t] = "done" THEN "done"
                ELSE IF status \in {"failed", "cancelled"} THEN status
                ELSE "executing"]
=============================================================================
