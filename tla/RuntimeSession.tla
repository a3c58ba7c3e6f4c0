--------------------------- MODULE RuntimeSession ---------------------------
(***************************************************************************)
(* runtime/session.ts: what a backend promises to the pool that owns it.   *)
(* A session has one turn at a time; what it says belongs to the turn that *)
(* is under way; once closed it says nothing, and its turn, if it had one, *)
(* is over.                                                                *)
(***************************************************************************)
EXTENDS Naturals

VARIABLES
  open,     (* it has not been stopped, by its owner or by a failure        *)
  turns,    (* turns that have begun                                        *)
  turn,     (* the turn under way, 0 if there is none                       *)
  answer    (* the turn whose text getLastAssistantText returns, 0 if none  *)

vars == <<open, turns, turn, answer>>

Init == open = TRUE /\ turns = 0 /\ turn = 0 /\ answer = 0

Prompt ==
  /\ open /\ turn = 0
  /\ turns' = turns + 1 /\ turn' = turns' /\ answer' = 0
  /\ UNCHANGED open

Say ==
  /\ open /\ turn # 0
  /\ answer' \in {0, turn}
  /\ UNCHANGED <<open, turns, turn>>

(* The last text of a turn may come with its end.                          *)
Settle ==
  /\ turn # 0
  /\ turn' = 0
  /\ answer' = answer \/ (open /\ answer' \in {0, turn})
  /\ UNCHANGED <<open, turns>>

Close ==
  /\ open
  /\ open' = FALSE /\ answer' = 0 /\ turn' \in {0, turn}
  /\ UNCHANGED turns

Next == Prompt \/ Say \/ Settle \/ Close

Spec == Init /\ [][Next]_vars
=============================================================================
