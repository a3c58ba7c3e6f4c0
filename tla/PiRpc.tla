------------------------------- MODULE PiRpc --------------------------------
(***************************************************************************)
(* runtime/pi-rpc.ts: a session with a Pi process, over its stdin and      *)
(* stdout, as the pool uses it: one fiber asks, turn after turn, and may   *)
(* be interrupted, another may retire the session at any time.             *)
(*                                                                         *)
(* A command has the id [by, kind, turn].  Pi is external: it reads its    *)
(* commands in order, accepts or refuses each, says something in a turn    *)
(* it runs and settles it, writes what is no valid line, ignores SIGTERM,  *)
(* hangs, or dies.  Answers to its requests for a user have no effect on   *)
(* the session.                                                            *)
(***************************************************************************)
EXTENDS Naturals, Sequences

CONSTANTS
  MaxTurns,   (* bound: prompts                                             *)
  MaxOut      (* bound: messages of Pi that have not been read              *)

ASSUME PiAssumption == MaxTurns \in Nat /\ MaxOut \in Nat \ {0}

VARIABLES
  stopped,   (* no more commands                                            *)
  reader,    (* the reader fiber: reading, stopping the child, done, cut    *)
  pending,   (* ids of commands without a response                          *)
  turn,      (* currentTurn, 0 if there is none                             *)
  result,    (* the deferred of every turn                                  *)
  text,      (* the turn of lastAssistantText, 0 if undefined               *)
  proc,      (* the process: up, sent SIGTERM or SIGKILL, dead, closed      *)
  stdin, stdout,
  run,       (* the turn Pi runs, 0 if it is idle                           *)
  stage,     (* where the two fibers are                                    *)
  reply,     (* what the command each of them awaits came to                *)
  turns      (* prompts so far                                              *)

sessionVars == <<stopped, reader, pending, turn, result, text>>
piVars      == <<proc, stdin, stdout, run>>
fiberVars   == <<stage, reply, turns>>
vars        == <<sessionVars, piVars, fiberVars>>

-----------------------------------------------------------------------------
Fibers == {"ask", "retire"}
Kinds  == {"get_state", "set_model", "prompt", "clear_queue", "abort"}
Turns  == 1 .. MaxTurns
Ids    == [by : Fibers, kind : Kinds, turn : 0 .. MaxTurns]

Dead    == proc \in {"dead", "closed"}       \* exitCode or signalCode is set
IsAlive == ~stopped /\ ~Dead

(* The commands a fiber waits for at each of its stages.                   *)
KindAt == [opening |-> "get_state", modelling |-> "set_model", prompting |-> "prompt",
           clearing |-> "clear_queue", aborting |-> "abort"]
Awaiting(f) == stage[f] \in DOMAIN KindAt
Busy        == stage["ask"] \in {"prompting", "turning", "clearing", "aborting", "settling"}

Init ==
  /\ stopped = FALSE /\ reader = "reading"
  /\ pending = {[by |-> "ask", kind |-> "get_state", turn |-> 0]}
  /\ turn = 0 /\ result = [n \in Turns |-> "open"] /\ text = 0
  /\ proc = "up" /\ stdin = <<[by |-> "ask", kind |-> "get_state", turn |-> 0]>>
  /\ stdout = <<>> /\ run = 0
  /\ stage = [ask |-> "opening", retire |-> "off"]
  /\ reply = [f \in Fibers |-> "none"] /\ turns = 0

Goto(f, to) ==
  /\ stage' = [stage EXCEPT ![f] = to]
  /\ reply' = [reply EXCEPT ![f] = "none"]

(* commandEffect: refused once stopped, otherwise pending and written; a   *)
(* dead process does not read what is written.  What the fiber awaited     *)
(* before, if it still did, is forgotten.                                  *)
Send(f, to, n) ==
  LET id == [by |-> f, kind |-> KindAt[to], turn |-> n]
      others == {other \in pending : other.by # f}
  IN /\ stage' = [stage EXCEPT ![f] = to]
     /\ reply' = [reply EXCEPT ![f] = IF IsAlive THEN "none" ELSE "failed"]
     /\ pending' = IF IsAlive THEN others \cup {id} ELSE others
     /\ stdin' = IF IsAlive /\ proc = "up" THEN Append(stdin, id) ELSE stdin

(* The ensuring of commandEffect, when its fiber leaves it.                *)
Forget(f) == pending' = {id \in pending : id.by # f}

(* failUnsafe                                                              *)
FailAll ==
  /\ pending' = {}
  /\ reply' = [f \in Fibers |->
                 IF \E id \in pending : id.by = f THEN "failed" ELSE reply[f]]
  /\ result' = IF turn = 0 THEN result ELSE [result EXCEPT ![turn] = "failed"]
  /\ turn' = 0

Kill(signal) == proc' = IF Dead THEN proc ELSE signal

-----------------------------------------------------------------------------
(* Startup: get_state, then set_model.                                     *)
Opened ==
  /\ stage["ask"] = "opening" /\ reply["ask"] = "ok"
  /\ \/ Send("ask", "modelling", 0)
     \/ Goto("ask", "ready") /\ UNCHANGED <<pending, stdin>>
  /\ UNCHANGED <<stopped, reader, turn, result, text, proc, stdout, run, turns>>

Modelled ==
  /\ stage["ask"] = "modelling" /\ reply["ask"] = "ok"
  /\ Goto("ask", "ready")
  /\ UNCHANGED <<sessionVars, piVars, turns>>

(* It fails, finds another session, or takes too long: the scope closes.   *)
StartupFails ==
  /\ stage["ask"] \in {"opening", "modelling"}
  /\ Forget("ask")
  /\ stage' = [ask |-> "over", retire |-> "disposing"]
  /\ reply' = [reply EXCEPT !["ask"] = "none"]
  /\ UNCHANGED <<stopped, reader, turn, result, text, piVars, turns>>

-----------------------------------------------------------------------------
(* promptEffect, by a pool that found the session alive and keeps it.      *)
(* Fault: the text of the turn before stays.                               *)
PromptKeepsText ==
  /\ stage["ask"] = "ready" /\ stage["retire"] = "off" /\ IsAlive
  /\ turn = 0 /\ turns < MaxTurns
  /\ turns' = turns + 1 /\ turn' = turns + 1
  /\ Send("ask", "prompting", turns + 1)
  /\ UNCHANGED <<stopped, reader, result, text, proc, stdout, run>>
Prompt ==
  /\ stage["ask"] = "ready" /\ stage["retire"] = "off" /\ IsAlive
  /\ turn = 0 /\ turns < MaxTurns
  /\ turns' = turns + 1 /\ turn' = turns + 1 /\ text' = 0
  /\ Send("ask", "prompting", turns + 1)
  /\ UNCHANGED <<stopped, reader, result, proc, stdout, run>>

PromptAccepted ==
  /\ stage["ask"] = "prompting" /\ reply["ask"] = "ok"
  /\ Goto("ask", "turning")
  /\ UNCHANGED <<sessionVars, piVars, turns>>

(* A turn fails with its command or with the session.                      *)
PromptFails ==
  /\ \/ stage["ask"] = "prompting" /\ reply["ask"] = "failed"
     \/ stage["ask"] = "turning" /\ result[turns] = "failed"
  /\ turn' = IF turn = turns THEN 0 ELSE turn
  /\ Goto("ask", IF IsAlive THEN "ready" ELSE "over")
  /\ UNCHANGED <<stopped, reader, pending, result, text, piVars, turns>>

TurnEnds ==
  /\ stage["ask"] = "turning" /\ result[turns] = "done"
  /\ Goto("ask", "ready")
  /\ UNCHANGED <<sessionVars, piVars, turns>>

-----------------------------------------------------------------------------
(* abortSessionEffect of the pool: clear the queue, abort, wait until the  *)
(* turn is settled.  The ask does so when it is cancelled, a retirement    *)
(* when it finds the session busy.                                         *)
Finished(f) == IF f = "retire" THEN "disposing" ELSE IF IsAlive THEN "ready" ELSE "over"
Fatal(f)    == IF f = "retire" THEN "lost" ELSE "over"

Interrupt ==
  /\ stage["ask"] \in {"prompting", "turning"}
  /\ Send("ask", "clearing", turns)
  /\ UNCHANGED <<stopped, reader, turn, result, text, proc, stdout, run, turns>>

Cleared(f) ==
  /\ stage[f] = "clearing" /\ reply[f] = "ok"
  /\ Send(f, "aborting", turns)
  /\ UNCHANGED <<stopped, reader, turn, result, text, proc, stdout, run, turns>>

(* waitForIdleEffect: without a turn there is nothing to wait for.         *)
(* Fault: the turn is not waited for.                                      *)
AbortedAtOnce(f) ==
  /\ stage[f] = "aborting" /\ reply[f] = "ok"
  /\ Goto(f, Finished(f))
  /\ UNCHANGED <<sessionVars, piVars, turns>>
Aborted(f) ==
  /\ stage[f] = "aborting" /\ reply[f] = "ok"
  /\ Goto(f, IF turn = 0 THEN Finished(f) ELSE "settling")
  /\ UNCHANGED <<sessionVars, piVars, turns>>

Settled(f) ==
  /\ stage[f] = "settling" /\ result[turns] = "done"
  /\ Goto(f, Finished(f))
  /\ UNCHANGED <<sessionVars, piVars, turns>>

(* A failure on the way, or no end in time, is fatal to the Node.          *)
AbortFails(f) ==
  /\ \/ stage[f] \in {"clearing", "aborting"} /\ reply[f] = "failed"
     \/ stage[f] = "settling" /\ result[turns] = "failed"
  /\ Goto(f, Fatal(f))
  /\ UNCHANGED <<sessionVars, piVars, turns>>
TimesOut(f) ==
  /\ stage[f] \in {"clearing", "aborting", "settling"}
  /\ Forget(f)
  /\ Goto(f, Fatal(f))
  /\ UNCHANGED <<stopped, reader, turn, result, text, piVars, turns>>

BeginRetire ==
  /\ stage["retire"] = "off" /\ stage["ask"] \notin {"opening", "modelling"}
  /\ IF Busy
     THEN Send("retire", "clearing", turns)
     ELSE Goto("retire", "disposing") /\ UNCHANGED <<pending, stdin>>
  /\ UNCHANGED <<stopped, reader, turn, result, text, proc, stdout, run, turns>>

-----------------------------------------------------------------------------
(* The scope closes: the reader is cut, then disposeEffect stops the child *)
(* and fails what still waits.                                             *)
Dispose ==
  /\ stage["retire"] = "disposing"
  /\ reader' = IF reader = "done" THEN "done" ELSE "cut"
  /\ stopped' = TRUE
  /\ Kill("term")
  /\ Goto("retire", "stopping")
  /\ UNCHANGED <<pending, turn, result, text, stdin, stdout, run, turns>>

(* stopChildEffect: SIGKILL after a second without an exit.                *)
DisposeKills ==
  /\ stage["retire"] = "stopping" /\ proc = "term"
  /\ Kill("kill")
  /\ UNCHANGED <<sessionVars, stdin, stdout, run, fiberVars>>

Disposed ==
  /\ stage["retire"] = "stopping" /\ (Dead \/ proc = "kill")
  /\ FailAll
  /\ stage' = [stage EXCEPT !["retire"] = "gone"]
  /\ UNCHANGED <<stopped, reader, text, piVars, turns>>

-----------------------------------------------------------------------------
(* readerEffect: one line at a time.                                       *)
Reads(type) ==
  /\ reader = "reading" /\ stdout # <<>> /\ Head(stdout).type = type
  /\ stdout' = Tail(stdout)
  /\ UNCHANGED <<stdin, run, turns, stage>>

(* A response nobody waits for any more is dropped.                        *)
ReadResponse ==
  /\ Reads("response")
  /\ LET id == Head(stdout).id IN
       /\ pending' = pending \ {id}
       /\ reply' = IF id \in pending THEN [reply EXCEPT ![id.by] = Head(stdout).outcome] ELSE reply
  /\ UNCHANGED <<stopped, reader, turn, result, text, proc>>

(* captureAssistant: a message may have no text.                           *)
ReadMessage ==
  /\ Reads("message_end")
  /\ text' \in {0, Head(stdout).turn}
  /\ UNCHANGED <<stopped, reader, pending, turn, result, reply, proc>>

ReadSettled ==
  /\ Reads("agent_settled")
  /\ result' = IF turn = 0 THEN result ELSE [result EXCEPT ![turn] = "done"]
  /\ turn' = 0
  /\ UNCHANGED <<stopped, reader, pending, text, reply, proc>>

(* failAndStopEffect: on a line that is none, on the exit of the process,  *)
(* on the failure that rejectStdout left in the queue.                     *)
(* Fault: the calls that wait are not failed.                              *)
ReadFailureSilently ==
  /\ Reads("failure")
  /\ stopped' = TRUE
  /\ Kill("term")
  /\ reader' = "stopping"
  /\ UNCHANGED <<pending, turn, result, reply, text>>
ReadFailure ==
  /\ Reads("failure")
  /\ stopped' = TRUE
  /\ FailAll
  /\ Kill("term")
  /\ reader' = "stopping"
  /\ UNCHANGED text

(* Fault: the reader does not insist.                                      *)
ReaderAsksOnce ==
  /\ reader = "stopping" /\ proc = "term"
  /\ reader' = "done"
  /\ UNCHANGED <<stopped, pending, turn, result, text, piVars, fiberVars>>
ReaderKills ==
  /\ reader = "stopping" /\ proc = "term"
  /\ Kill("kill")
  /\ UNCHANGED <<sessionVars, stdin, stdout, run, fiberVars>>
ReaderEnds ==
  /\ reader = "stopping" /\ (Dead \/ proc = "kill")
  /\ reader' = "done"
  /\ UNCHANGED <<stopped, pending, turn, result, text, piVars, fiberVars>>

(* rejectStdout: too much is waiting to be read.  What was queued before   *)
(* is still read.                                                          *)
RejectStdout ==
  /\ reader = "reading" /\ ~stopped /\ stdout # <<>>
  /\ stopped' = TRUE
  /\ FailAll
  /\ Kill("term")
  /\ stdout' = Append(stdout, [type |-> "failure"])
  /\ UNCHANGED <<reader, text, stdin, run, stage, turns>>

-----------------------------------------------------------------------------
(* Pi.  What it writes once the session is stopped is not taken.           *)
Writes(message) ==
  /\ proc = "up" /\ Len(stdout) < MaxOut
  /\ stdout' = IF reader = "reading" /\ ~stopped THEN Append(stdout, message) ELSE stdout

PiAnswers ==
  /\ stdin # <<>>
  /\ stdin' = Tail(stdin)
  /\ \E outcome \in {"ok", "failed"} :
       /\ Writes([type |-> "response", id |-> Head(stdin), outcome |-> outcome])
       /\ run' = IF Head(stdin).kind = "prompt" /\ outcome = "ok" THEN Head(stdin).turn ELSE run
  /\ UNCHANGED <<sessionVars, proc, fiberVars>>

PiSays ==
  /\ run # 0
  /\ Writes([type |-> "message_end", turn |-> run])
  /\ UNCHANGED <<sessionVars, proc, stdin, run, fiberVars>>

PiSettles ==
  /\ run # 0
  /\ Writes([type |-> "agent_settled"])
  /\ run' = 0
  /\ UNCHANGED <<sessionVars, proc, stdin, fiberVars>>

PiGarbles ==
  /\ Writes([type |-> "failure"])
  /\ UNCHANGED <<sessionVars, proc, stdin, run, fiberVars>>

PiDies ==
  /\ ~Dead
  /\ proc' = "dead" /\ run' = 0 /\ stdin' = <<>>
  /\ UNCHANGED <<sessionVars, stdout, fiberVars>>

(* The close event comes after the last output.                            *)
Closes ==
  /\ proc = "dead"
  /\ proc' = "closed"
  /\ stdout' = IF reader = "reading" /\ ~stopped
               THEN Append(stdout, [type |-> "failure"]) ELSE stdout
  /\ UNCHANGED <<sessionVars, stdin, run, fiberVars>>

-----------------------------------------------------------------------------
Read == ReadResponse \/ ReadMessage \/ ReadSettled \/ ReadFailure
Stop == ReaderKills \/ ReaderEnds \/ Dispose \/ DisposeKills \/ Disposed
AskContinues == Opened \/ Modelled \/ PromptAccepted \/ PromptFails \/ TurnEnds
AbortContinues(f) == Cleared(f) \/ Aborted(f) \/ Settled(f) \/ AbortFails(f)

Next ==
  \/ AskContinues \/ \E f \in Fibers : AbortContinues(f) \/ TimesOut(f)
  \/ StartupFails \/ Prompt \/ Interrupt \/ BeginRetire
  \/ Read \/ RejectStdout \/ Stop
  \/ PiAnswers \/ PiSays \/ PiSettles \/ PiGarbles \/ PiDies \/ Closes

Spec == Init /\ [][Next]_vars

(* The runtime reads what there is and sends the signals it has to; a      *)
(* process that is killed ends, and its end is reported.  Pi need not      *)
(* answer, nobody need ask, cancel or retire.                              *)
Fairness ==
  /\ WF_vars(Read) /\ WF_vars(AskContinues)
  /\ \A f \in Fibers : WF_vars(AbortContinues(f))
  /\ WF_vars(ReaderKills \/ ReaderEnds) /\ WF_vars(Dispose \/ DisposeKills \/ Disposed)
  /\ WF_vars(proc = "kill" /\ PiDies) /\ WF_vars(Closes)

FairSpec == Spec /\ Fairness

-----------------------------------------------------------------------------
(* A session that is ready for the next prompt has nothing of an earlier   *)
(* turn before it: Pi neither runs nor will run one, and no line of one is *)
(* still to be read, however the turn before was cancelled.                *)
TurnsApart ==
  stage["ask"] = "ready" /\ ~stopped =>
    /\ turn = 0 /\ run = 0
    /\ \A i \in DOMAIN stdin : stdin[i].kind # "prompt"
    /\ \A i \in DOMAIN stdout : stdout[i].type \notin {"message_end", "agent_settled"}

(* Once Pi has ended every call that waits for it fails without waiting    *)
(* for a timeout, and no turn is left under way.                           *)
DeathEndsCalls ==
  Dead ~> pending = {} /\ turn = 0 /\ \A f \in Fibers : ~(Awaiting(f) /\ reply[f] = "none")
=============================================================================
