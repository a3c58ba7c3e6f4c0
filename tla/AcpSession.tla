----------------------------- MODULE AcpSession ------------------------------
(***************************************************************************)
(* runtime/tanstack-acp.ts: a session whose turns are runs of an ACP       *)
(* harness through TanStack, as the pool uses it (see PiRpc).  A run is a  *)
(* fiber of the session's scope; the harness behind it is external: it     *)
(* ends a run with or without a text, fails it, or never ends it, and when *)
(* it is aborted it may also end it with an AbortError.                    *)
(***************************************************************************)
EXTENDS Naturals

CONSTANT MaxTurns   (* bound: prompts                                       *)

VARIABLES
  stopped,   (* disposed                                                    *)
  turn,      (* currentPrompt, 0 if there is none                           *)
  aborted,   (* the signal of currentAbort                                  *)
  result,    (* what the prompt of every turn came to                       *)
  text,      (* the turn of lastAssistantText, 0 if undefined               *)
  stage,     (* where the asking and the retiring fiber are                 *)
  turns      (* prompts so far                                              *)

vars == <<stopped, turn, aborted, result, text, stage, turns>>

-----------------------------------------------------------------------------
Fibers == {"ask", "retire"}
Turns  == 1 .. MaxTurns

Init ==
  /\ stopped = FALSE /\ turn = 0 /\ aborted = FALSE
  /\ result = [n \in Turns |-> "open"] /\ text = 0
  /\ stage = [ask |-> "ready", retire |-> "off"] /\ turns = 0

Goto(f, to) == stage' = [stage EXCEPT ![f] = to]
Finished(f) == IF f = "retire" THEN "disposing" ELSE IF stopped THEN "over" ELSE "ready"
Fatal(f)    == IF f = "retire" THEN "lost" ELSE "over"

(* promptEffect forks the run and waits for it.                            *)
Prompt ==
  /\ stage["ask"] = "ready" /\ stage["retire"] = "off"
  /\ ~stopped /\ turn = 0 /\ turns < MaxTurns
  /\ turns' = turns + 1 /\ turn' = turns + 1 /\ aborted' = FALSE /\ text' = 0
  /\ Goto("ask", "turning")
  /\ UNCHANGED <<stopped, result>>

(* runChatEffect: the session id of the harness is stored before the text  *)
(* is kept; a failure before leaves none.                                  *)
RunEnds ==
  /\ turn # 0
  /\ \E outcome \in {"done", "failed"} \cup (IF aborted THEN {"aborted"} ELSE {}) :
       /\ result' = [result EXCEPT ![turn] = outcome]
       /\ IF outcome = "done" THEN text' \in {0, turn} ELSE UNCHANGED text
  /\ turn' = 0 /\ aborted' = FALSE
  /\ UNCHANGED <<stopped, stage, turns>>

TurnEnds ==
  /\ stage["ask"] = "turning" /\ result[turns] # "open"
  /\ Goto("ask", IF stopped THEN "over" ELSE "ready")
  /\ UNCHANGED <<stopped, turn, aborted, result, text, turns>>

(* abortEffect and waitForIdleEffect: there is no queue to clear.          *)
Abort(f) ==
  /\ aborted' = (turn # 0)
  /\ Goto(f, IF turn = 0 THEN Finished(f) ELSE "settling")
  /\ UNCHANGED <<stopped, turn, result, text, turns>>

Interrupt   == stage["ask"] = "turning" /\ Abort("ask")
BeginRetire ==
  /\ stage["retire"] = "off"
  /\ IF stage["ask"] \in {"turning", "settling"}
     THEN Abort("retire")
     ELSE Goto("retire", "disposing") /\ UNCHANGED <<stopped, turn, aborted, result, text, turns>>

(* An abort that ends in anything but an AbortError, or not in time, is    *)
(* fatal to the Node.                                                      *)
Settled(f) ==
  /\ stage[f] = "settling" /\ result[turns] # "open"
  /\ Goto(f, IF result[turns] = "failed" THEN Fatal(f) ELSE Finished(f))
  /\ UNCHANGED <<stopped, turn, aborted, result, text, turns>>
TimesOut(f) ==
  /\ stage[f] = "settling"
  /\ Goto(f, Fatal(f))
  /\ UNCHANGED <<stopped, turn, aborted, result, text, turns>>

(* disposeEffect: the scope takes the run with it, and does not wait for   *)
(* the harness.                                                            *)
Dispose ==
  /\ stage["retire"] = "disposing"
  /\ stopped' = TRUE /\ turn' = 0 /\ aborted' = FALSE
  /\ Goto("retire", "gone")
  /\ UNCHANGED <<result, text, turns>>

Next ==
  \/ Prompt \/ RunEnds \/ TurnEnds \/ Interrupt \/ BeginRetire \/ Dispose
  \/ \E f \in Fibers : Settled(f) \/ TimesOut(f)
=============================================================================
