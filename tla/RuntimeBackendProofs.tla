------------------------ MODULE RuntimeBackendProofs ------------------------
(***************************************************************************)
(* That a session is ready for its next prompt only with nothing of an     *)
(* earlier turn before it (TurnsApart), and that either backend implements *)
(* the session of RuntimeSession, proved for any number of turns and any   *)
(* room for what Pi writes.                                                *)
(*                                                                         *)
(* The argument follows a turn through the two pipes, as long as the       *)
(* session is not stopped: its prompt, its run, its messages and its end   *)
(* are there one after the other and never two of a kind (OneAfterOther),  *)
(* they belong to the turn under way (Belongs), and a prompt that was      *)
(* refused leaves none of them (Refused).  For the answers to be told      *)
(* apart, a fiber awaits the last command it sent (Awaited).               *)
(***************************************************************************)
EXTENDS RuntimeBackend, TLAPS

Responses == [type : {"response"}, id : Ids, outcome : {"ok", "failed"}]
Messages  == [type : {"message_end"}, turn : 0 .. MaxTurns]
Endings   == [type : {"agent_settled"}]
Failures  == [type : {"failure"}]
Lines     == Responses \cup Messages \cup Endings \cup Failures

Stages == {"off", "opening", "modelling", "ready", "prompting", "turning", "clearing", "aborting",
           "settling", "disposing", "stopping", "gone", "over", "lost"}

Types ==
  /\ stopped \in BOOLEAN /\ aborted \in BOOLEAN
  /\ turns \in 0 .. MaxTurns /\ turn \in {0, turns}
  /\ result \in [Turns -> {"open", "failed", "done", "aborted"}]
  /\ text \in 0 .. MaxTurns /\ run \in 0 .. MaxTurns
  /\ stdin \in Seq(Ids) /\ stdout \in Seq(Lines)
  /\ pending \subseteq Ids
  /\ stage \in [Fibers -> Stages]
  /\ reply \in [Fibers -> {"none", "ok", "failed"}]

(* The turn under way is the last one, and has no result yet.              *)
TurnOpen ==
  /\ turn # 0 => result[turn] = "open"
  /\ \A n \in Turns : n > turns => result[n] = "open"
  /\ ~stopped /\ stage["ask"] = "ready" => turn = 0

-----------------------------------------------------------------------------
(* The rest is about a session of Pi.                                      *)
PromptAt(i)   == i \in DOMAIN stdin /\ stdin[i].kind = "prompt"
MessageAt(i)  == i \in DOMAIN stdout /\ stdout[i].type = "message_end"
SettledAt(i)  == i \in DOMAIN stdout /\ stdout[i].type = "agent_settled"
ResponseAt(i) == i \in DOMAIN stdout /\ stdout[i].type = "response"

NothingLeft == run = 0 /\ \A i \in Nat : ~PromptAt(i) /\ ~MessageAt(i) /\ ~SettledAt(i)

(* A command that is pending is the one its fiber awaits.                  *)
Awaited ==
  /\ \A id \in pending :
       /\ Awaiting(id.by) /\ id.kind = KindAt[stage[id.by]] /\ reply[id.by] = "none"
       /\ id.turn = turns
  /\ stage["ask"] \in {"opening", "modelling"} => turns = 0 /\ stage["retire"] = "off"
  /\ stage["retire"] \in {"stopping", "gone"} => stopped
  /\ stage["retire"] # "prompting"

(* Nothing in the pipes is of a turn to come.                              *)
Past ==
  /\ \A i \in DOMAIN stdin : stdin[i].turn \leq turns
  /\ \A i \in Nat : ResponseAt(i) => stdout[i].id.turn \leq turns

(* Prompt, run, messages, end: each only when those before it are over.    *)
OneAfterOther ==
  /\ \A i, j \in Nat : PromptAt(i) /\ PromptAt(j) => i = j
  /\ \A i \in Nat : PromptAt(i) => run = 0 /\ \A j \in Nat : ~MessageAt(j) /\ ~SettledAt(j)
  /\ run # 0 => \A j \in Nat : ~SettledAt(j)
  /\ \A i, j \in Nat : SettledAt(i) /\ (MessageAt(j) \/ SettledAt(j)) => j \leq i

Belongs ==
  /\ turn = 0 => NothingLeft
  /\ run # 0 => run = turn
  /\ \A i \in Nat : PromptAt(i) => stdin[i].turn = turn
  /\ \A i \in Nat : MessageAt(i) => stdout[i].turn = turn

RefusalAt(i) ==
  ResponseAt(i) /\ stdout[i].outcome = "failed" /\ stdout[i].id.kind = "prompt"

Refused ==
  /\ \A i \in Nat : RefusalAt(i) /\ stdout[i].id.turn = turns => NothingLeft
  /\ stage["ask"] = "prompting" /\ reply["ask"] = "failed" => NothingLeft
  /\ \A n \in Turns : result[n] # "failed"

OverPi == Awaited /\ Past /\ (~stopped => OneAfterOther /\ Belongs /\ Refused)

(* A session of ACP has no pipes.                                          *)
OverAcp == run = 0 /\ stdin = <<>> /\ stdout = <<>>

IInv ==
  /\ kind \in {"pi-rpc", "tanstack-acp"}
  /\ Types /\ TurnOpen
  /\ kind = "pi-rpc" => OverPi
  /\ kind = "tanstack-acp" => OverAcp

-----------------------------------------------------------------------------
(* Pipes.                                                                  *)
LEMMA TailOf ==
  ASSUME NEW S, NEW s \in Seq(S), s # <<>>
  PROVE  /\ Tail(s) \in Seq(S) /\ Head(s) \in S /\ Head(s) = s[1] /\ 1 \in DOMAIN s
         /\ DOMAIN s = 1 .. Len(s) /\ DOMAIN Tail(s) = 1 .. Len(s) - 1
         /\ \A i \in DOMAIN Tail(s) : i + 1 \in DOMAIN s /\ Tail(s)[i] = s[i + 1]
OBVIOUS

(* Appending adds one element behind the others.                           *)
LEMMA AppendOf ==
  ASSUME NEW S, NEW s \in Seq(S), NEW m \in S
  PROVE  /\ Append(s, m) \in Seq(S)
         /\ DOMAIN s = 1 .. Len(s) /\ Len(s) \in Nat /\ DOMAIN Append(s, m) = 1 .. Len(s) + 1
         /\ \A i \in DOMAIN Append(s, m) :
              \/ i \in DOMAIN s /\ Append(s, m)[i] = s[i]
              \/ i = Len(s) + 1 /\ Append(s, m)[i] = m
<1>1. /\ Append(s, m) \in Seq(S) /\ Len(s) \in Nat
      /\ DOMAIN s = 1 .. Len(s) /\ Len(Append(s, m)) = Len(s) + 1
  OBVIOUS
<1>2. DOMAIN Append(s, m) = 1 .. Len(s) + 1
  BY <1>1
<1>3. \A i \in 1 .. Len(s) : Append(s, m)[i] = s[i]
  OBVIOUS
<1>4. Append(s, m)[Len(s) + 1] = m
  OBVIOUS
<1> QED
  BY <1>1, <1>2, <1>3, <1>4

(* The command of every stage.                                             *)
LEMMA KindFacts ==
  /\ DOMAIN KindAt = {"opening", "modelling", "prompting", "clearing", "aborting"}
  /\ KindAt["opening"] = "get_state" /\ KindAt["modelling"] = "set_model"
  /\ KindAt["prompting"] = "prompt" /\ KindAt["clearing"] = "clear_queue"
  /\ KindAt["aborting"] = "abort"
BY DEF KindAt

(* The id of a command.                                                    *)
LEMMA IdFacts ==
  ASSUME NEW f \in Fibers, NEW k \in Kinds, NEW n \in 0 .. MaxTurns
  PROVE  LET id == [by |-> f, kind |-> k, turn |-> n]
         IN  id \in Ids /\ id.by = f /\ id.kind = k /\ id.turn = n
BY DEF Ids

(* The fields of an id.                                                    *)
LEMMA IdFields ==
  ASSUME NEW id \in Ids
  PROVE  id.by \in Fibers /\ id.kind \in Kinds /\ id.turn \in 0 .. MaxTurns
BY DEF Ids

(* The lines that Pi writes.                                               *)
LEMMA LineFacts ==
  /\ \A id \in Ids, outcome \in {"ok", "failed"} :
       LET m == [type |-> "response", id |-> id, outcome |-> outcome]
       IN  m \in Lines /\ m.type = "response" /\ m.id = id /\ m.outcome = outcome
  /\ \A n \in 0 .. MaxTurns :
       LET m == [type |-> "message_end", turn |-> n]
       IN  m \in Lines /\ m.type = "message_end" /\ m.turn = n
  /\ [type |-> "agent_settled"] \in Lines /\ [type |-> "agent_settled"].type = "agent_settled"
  /\ [type |-> "failure"] \in Lines /\ [type |-> "failure"].type = "failure"
BY DEF Lines, Responses, Messages, Endings, Failures

(* The fields of a line.                                                   *)
LEMMA LineFields ==
  ASSUME NEW m \in Lines
  PROVE  /\ m.type \in {"response", "message_end", "agent_settled", "failure"}
         /\ m.type = "response" => m.id \in Ids /\ m.outcome \in {"ok", "failed"}
         /\ m.type = "message_end" => m.turn \in 0 .. MaxTurns
BY DEF Lines, Responses, Messages, Endings, Failures

-----------------------------------------------------------------------------
(* The steps that several actions share.                                   *)
LEMMA Bounds == MaxTurns \in Nat /\ MaxOut \in Nat
BY PiAssumption

(* A fiber goes on and forgets the reply.                                  *)
LEMMA GotoFacts ==
  ASSUME Types, NEW f \in Fibers, NEW to \in Stages, Goto(f, to)
  PROVE  /\ stage' \in [Fibers -> Stages] /\ reply' \in [Fibers -> {"none", "ok", "failed"}]
         /\ stage'[f] = to /\ reply'[f] = "none"
         /\ \A g \in Fibers \ {f} : stage'[g] = stage[g] /\ reply'[g] = reply[g]
BY DEF Types, Goto

(* A command is pending and written only while the session lives.          *)
LEMMA SendFacts ==
  ASSUME Types, NEW f \in Fibers, NEW to \in DOMAIN KindAt, NEW n \in 0 .. MaxTurns, Send(f, to, n)
  PROVE  /\ stage' \in [Fibers -> Stages] /\ reply' \in [Fibers -> {"none", "ok", "failed"}]
         /\ stage'[f] = to /\ reply'[f] = IF IsAlive THEN "none" ELSE "failed"
         /\ \A g \in Fibers \ {f} : stage'[g] = stage[g] /\ reply'[g] = reply[g]
         /\ pending' \subseteq Ids /\ stdin' \in Seq(Ids)
         /\ \A id \in pending' :
              \/ id \in pending /\ id.by # f
              \/ IsAlive /\ id.by = f /\ id.kind = KindAt[to] /\ id.turn = n
         /\ \A i \in DOMAIN stdin' :
              \/ i \in DOMAIN stdin /\ stdin'[i] = stdin[i]
              \/ i = Len(stdin) + 1 /\ stdin'[i].kind = KindAt[to] /\ stdin'[i].turn = n
<1> DEFINE id == [by |-> f, kind |-> KindAt[to], turn |-> n]
           others == {other \in pending : other.by # f}
<1>1. /\ stage' = [stage EXCEPT ![f] = to]
      /\ reply' = [reply EXCEPT ![f] = IF IsAlive THEN "none" ELSE "failed"]
      /\ pending' = IF IsAlive THEN others \cup {id} ELSE others
      /\ stdin' = IF IsAlive /\ proc = "up" THEN Append(stdin, id) ELSE stdin
  BY DEF Send
<1>2. to \in Stages /\ KindAt[to] \in Kinds
  BY KindFacts DEF Stages, Kinds
<1>3. id \in Ids /\ id.by = f /\ id.kind = KindAt[to] /\ id.turn = n
  BY <1>2, IdFacts
<1> HIDE DEF id
<1>4. /\ stage' \in [Fibers -> Stages] /\ reply' \in [Fibers -> {"none", "ok", "failed"}]
      /\ stage'[f] = to /\ reply'[f] = IF IsAlive THEN "none" ELSE "failed"
      /\ \A g \in Fibers \ {f} : stage'[g] = stage[g] /\ reply'[g] = reply[g]
  BY <1>1, <1>2 DEF Types
<1>5. pending' \subseteq Ids
  BY <1>1, <1>3 DEF Types
<1>6. \A other \in pending' :
         \/ other \in pending /\ other.by # f
         \/ IsAlive /\ other.by = f /\ other.kind = KindAt[to] /\ other.turn = n
  BY <1>1, <1>3
<1>7. stdin \in Seq(Ids)
  BY DEF Types
<1>8. /\ Append(stdin, id) \in Seq(Ids)
      /\ \A i \in DOMAIN Append(stdin, id) :
           \/ i \in DOMAIN stdin /\ Append(stdin, id)[i] = stdin[i]
           \/ i = Len(stdin) + 1 /\ Append(stdin, id)[i] = id
  BY <1>3, <1>7, AppendOf
<1>9. /\ stdin' \in Seq(Ids)
      /\ \A i \in DOMAIN stdin' :
              \/ i \in DOMAIN stdin /\ stdin'[i] = stdin[i]
              \/ i = Len(stdin) + 1 /\ stdin'[i].kind = KindAt[to] /\ stdin'[i].turn = n
  BY <1>1, <1>3, <1>7, <1>8
<1> QED
  BY <1>4, <1>5, <1>6, <1>9

(* Nothing waits any more, and there is no turn.                           *)
LEMMA FailAllFacts ==
  ASSUME Types, FailAll
  PROVE  /\ pending' = {} /\ turn' = 0
         /\ reply' \in [Fibers -> {"none", "ok", "failed"}]
         /\ result' \in [Turns -> {"open", "failed", "done", "aborted"}]
         /\ \A n \in Turns : n # turn => result'[n] = result[n]
BY DEF Types, FailAll

(* Pi writes at most one line, behind the others.                          *)
LEMMA WritesFacts ==
  ASSUME Types, NEW m \in Lines, Writes(m)
  PROVE  /\ stdout' \in Seq(Lines)
         /\ \A i \in DOMAIN stdout' :
              \/ i \in DOMAIN stdout /\ stdout'[i] = stdout[i]
              \/ i = Len(stdout) + 1 /\ stdout'[i] = m
<1>1. stdout \in Seq(Lines)
  BY DEF Types
<1> QED
  BY <1>1, AppendOf DEF Writes

(* The reader takes the first line.                                        *)
LEMMA ReadsFacts ==
  ASSUME Types, NEW type, Reads(type)
  PROVE  /\ stdout' \in Seq(Lines) /\ Head(stdout) \in Lines /\ Head(stdout).type = type
         /\ Head(stdout) = stdout[1] /\ 1 \in DOMAIN stdout
         /\ \A i \in DOMAIN stdout' :
              i \in Nat /\ i + 1 \in DOMAIN stdout /\ stdout'[i] = stdout[i + 1] /\ i + 1 # 1
         /\ stdin' = stdin /\ run' = run /\ turns' = turns /\ stage' = stage
<1>1. stdout \in Seq(Lines) /\ stdout # <<>>
  BY DEF Types, Reads
<1>2. /\ Tail(stdout) \in Seq(Lines) /\ DOMAIN Tail(stdout) = 1 .. Len(stdout) - 1
      /\ \A i \in DOMAIN Tail(stdout) : i + 1 \in DOMAIN stdout /\ Tail(stdout)[i] = stdout[i + 1]
      /\ Head(stdout) \in Lines /\ Head(stdout) = stdout[1] /\ 1 \in DOMAIN stdout
  BY <1>1, TailOf
<1> QED
  BY <1>1, <1>2 DEF Reads

-----------------------------------------------------------------------------
(* Types.                                                                  *)
LEMMA PiTypes ==
  ASSUME Types, Next, aborted' = aborted
  PROVE  Types'
<1>1. /\ stopped \in BOOLEAN /\ aborted \in BOOLEAN
      /\ turns \in 0 .. MaxTurns /\ turn \in {0, turns}
      /\ result \in [Turns -> {"open", "failed", "done", "aborted"}]
      /\ text \in 0 .. MaxTurns /\ run \in 0 .. MaxTurns
      /\ stdin \in Seq(Ids) /\ stdout \in Seq(Lines)
      /\ pending \subseteq Ids
      /\ stage \in [Fibers -> Stages]
      /\ reply \in [Fibers -> {"none", "ok", "failed"}]
  BY DEF Types
<1>2. "ask" \in Fibers /\ "retire" \in Fibers
  BY DEF Fibers
<1> SUFFICES
      /\ (stopped \in BOOLEAN)'
      /\ (turns \in 0 .. MaxTurns /\ turn \in {0, turns})'
      /\ (result \in [Turns -> {"open", "failed", "done", "aborted"}])'
      /\ (text \in 0 .. MaxTurns /\ run \in 0 .. MaxTurns)'
      /\ (stdin \in Seq(Ids) /\ stdout \in Seq(Lines))'
      /\ (pending \subseteq Ids)'
      /\ (stage \in [Fibers -> Stages])'
      /\ (reply \in [Fibers -> {"none", "ok", "failed"}])'
  BY <1>1 DEF Types
<1> USE Bounds, <1>1, <1>2 DEF sessionVars, piVars, fiberVars
<1>3. CASE Opened
  <2>1. \/ Send("ask", "modelling", 0)
        \/ Goto("ask", "ready") /\ UNCHANGED <<pending, stdin>>
    BY <1>3 DEF Opened
  <2> QED
    BY <1>3, <2>1, GotoFacts, SendFacts, KindFacts DEF Opened, Stages
<1>4. CASE Modelled
  BY <1>4, GotoFacts DEF Modelled, Stages
<1>5. CASE PromptAccepted
  BY <1>5, GotoFacts DEF PromptAccepted, Stages
<1>6. CASE PromptFails
  BY <1>6, GotoFacts DEF PromptFails, Stages
<1>7. CASE TurnEnds
  BY <1>7, GotoFacts DEF TurnEnds, Stages
<1>8. CASE \E f \in Fibers : Cleared(f)
  BY <1>8, SendFacts, KindFacts DEF Cleared
<1>9. CASE \E f \in Fibers : Aborted(f)
  BY <1>9, GotoFacts DEF Aborted, Stages, Finished
<1>10. CASE \E f \in Fibers : Settled(f)
  BY <1>10, GotoFacts DEF Settled, Stages, Finished
<1>11. CASE \E f \in Fibers : AbortFails(f)
  BY <1>11, GotoFacts DEF AbortFails, Stages, Fatal
<1>12. CASE \E f \in Fibers : TimesOut(f)
  BY <1>12, GotoFacts DEF TimesOut, Stages, Fatal, Forget
<1>13. CASE StartupFails
  BY <1>13 DEF StartupFails, Stages, Forget, Fibers
<1>14. CASE Prompt
  BY <1>14, SendFacts, KindFacts DEF Prompt
<1>15. CASE Interrupt
  BY <1>15, SendFacts, KindFacts DEF Interrupt
<1>16. CASE BeginRetire
  <2>1. \/ Send("retire", "clearing", turns)
        \/ Goto("retire", "disposing") /\ UNCHANGED <<pending, stdin>>
    BY <1>16 DEF BeginRetire
  <2> QED
    BY <1>16, <2>1, GotoFacts, SendFacts, KindFacts DEF BeginRetire, Stages
<1>17. CASE ReadResponse
  <2>1. Reads("response") /\ Head(stdout).id \in Ids /\ Head(stdout).outcome \in {"ok", "failed"}
    BY <1>17, ReadsFacts, LineFields DEF ReadResponse
  <2> QED
    BY <1>17, <2>1, ReadsFacts DEF ReadResponse
<1>18. CASE ReadMessage
  <2>1. Reads("message_end") /\ Head(stdout).turn \in 0 .. MaxTurns
    BY <1>18, ReadsFacts, LineFields DEF ReadMessage
  <2> QED
    BY <1>18, <2>1, ReadsFacts DEF ReadMessage
<1>19. CASE ReadSettled
  BY <1>19, ReadsFacts DEF ReadSettled
<1>20. CASE ReadFailure
  BY <1>20, ReadsFacts, FailAllFacts DEF ReadFailure
<1>21. CASE RejectStdout
  <2>1. stdout' \in Seq(Lines)
    BY <1>21, LineFacts, AppendOf DEF RejectStdout
  <2> QED
    BY <1>21, <2>1, FailAllFacts DEF RejectStdout
<1>22. CASE ReaderKills \/ ReaderEnds \/ DisposeKills
  BY <1>22 DEF ReaderKills, ReaderEnds, DisposeKills
<1>23. CASE Dispose
  BY <1>23, GotoFacts DEF Dispose, Stages
<1>24. CASE Disposed
  BY <1>24, FailAllFacts DEF Disposed, Stages
<1>25. CASE PiAnswers
  <2>1. Tail(stdin) \in Seq(Ids) /\ Head(stdin) \in Ids
    BY <1>25, TailOf DEF PiAnswers
  <2>2. Head(stdin).turn \in 0 .. MaxTurns
    BY <2>1, IdFields
  <2>3. stdout' \in Seq(Lines)
    BY <1>25, <2>1, LineFacts, WritesFacts DEF PiAnswers
  <2> QED
    BY <1>25, <2>1, <2>2, <2>3 DEF PiAnswers
<1>26. CASE PiSays
  BY <1>26, LineFacts, WritesFacts DEF PiSays
<1>27. CASE PiSettles
  BY <1>27, LineFacts, WritesFacts DEF PiSettles
<1>28. CASE PiGarbles
  BY <1>28, LineFacts, WritesFacts DEF PiGarbles
<1>29. CASE PiDies
  BY <1>29 DEF PiDies
<1>30. CASE Closes
  BY <1>30, LineFacts, AppendOf DEF Closes
<1> QED
  BY <1>3, <1>4, <1>5, <1>6, <1>7, <1>8, <1>9, <1>10, <1>11, <1>12, <1>13, <1>14, <1>15, <1>16,
     <1>17, <1>18, <1>19, <1>20, <1>21, <1>22, <1>23, <1>24, <1>25, <1>26, <1>27, <1>28, <1>29,
     <1>30 DEF Next, AskContinues, AbortContinues, Read, Stop

(* The types, one by one.                                                  *)
LEMMA TypeFacts ==
  ASSUME Types
  PROVE  /\ stopped \in BOOLEAN /\ aborted \in BOOLEAN
         /\ turns \in 0 .. MaxTurns /\ turns \in Nat /\ turn \in {0, turns}
         /\ result \in [Turns -> {"open", "failed", "done", "aborted"}]
         /\ text \in 0 .. MaxTurns /\ run \in 0 .. MaxTurns
         /\ stdin \in Seq(Ids) /\ stdout \in Seq(Lines)
         /\ pending \subseteq Ids
         /\ stage \in [Fibers -> Stages]
         /\ reply \in [Fibers -> {"none", "ok", "failed"}]
         /\ "ask" \in Fibers /\ "retire" \in Fibers
BY Bounds DEF Types, Fibers

(* The turn under way.                                                     *)
LEMMA PiTurnOpen ==
  ASSUME Types, TurnOpen, Awaited, Next
  PROVE  TurnOpen'
<1>1. /\ turn # 0 => result[turn] = "open"
      /\ \A n \in Turns : n > turns => result[n] = "open"
      /\ ~stopped /\ stage["ask"] = "ready" => turn = 0
      /\ stage["ask"] \in {"opening", "modelling"} => turns = 0
  BY DEF TurnOpen, Awaited
<1> SUFFICES
      /\ turn' # 0 => result'[turn'] = "open"
      /\ \A n \in Turns : n > turns' => result'[n] = "open"
      /\ ~stopped' /\ stage'["ask"] = "ready" => turn' = 0
  BY DEF TurnOpen
<1> USE Bounds, TypeFacts, <1>1 DEF sessionVars, piVars, fiberVars
<1>3. CASE Opened
  <2>1. \/ Send("ask", "modelling", 0)
        \/ Goto("ask", "ready") /\ UNCHANGED <<pending, stdin>>
    BY <1>3 DEF Opened
  <2> QED
    BY <1>3, <2>1, GotoFacts, SendFacts, KindFacts DEF Opened, Stages
<1>4. CASE Modelled
  BY <1>4, GotoFacts DEF Modelled, Stages
<1>5. CASE PromptAccepted
  BY <1>5, GotoFacts DEF PromptAccepted, Stages
<1>6. CASE PromptFails
  BY <1>6, GotoFacts DEF PromptFails, Stages
<1>7. CASE TurnEnds
  BY <1>7, GotoFacts DEF TurnEnds, Stages
<1>8. CASE \E f \in Fibers : Cleared(f)
  BY <1>8, SendFacts, KindFacts DEF Cleared, Fibers
<1>9. CASE \E f \in Fibers : Aborted(f)
  BY <1>9, GotoFacts DEF Aborted, Stages, Finished
<1>10. CASE \E f \in Fibers : Settled(f)
  BY <1>10, GotoFacts DEF Settled, Stages, Finished, Fibers
<1>11. CASE \E f \in Fibers : AbortFails(f)
  BY <1>11, GotoFacts DEF AbortFails, Stages, Fatal
<1>12. CASE \E f \in Fibers : TimesOut(f)
  BY <1>12, GotoFacts DEF TimesOut, Stages, Fatal
<1>13. CASE StartupFails
  BY <1>13 DEF StartupFails
<1>14. CASE Prompt
  <2>1. turns' = turns + 1 /\ turn' = turns + 1 /\ turns + 1 \in Turns /\ result' = result
    BY <1>14 DEF Prompt, Turns
  <2>2. stage'["ask"] = "prompting"
    BY <1>14, SendFacts, KindFacts DEF Prompt
  <2> QED
    BY <2>1, <2>2 DEF Turns
<1>15. CASE Interrupt
  BY <1>15, SendFacts, KindFacts DEF Interrupt
<1>16. CASE BeginRetire
  <2>1. \/ Send("retire", "clearing", turns)
        \/ Goto("retire", "disposing") /\ UNCHANGED <<pending, stdin>>
    BY <1>16 DEF BeginRetire
  <2> QED
    BY <1>16, <2>1, GotoFacts, SendFacts, KindFacts DEF BeginRetire, Stages
<1>17. CASE ReadResponse
  BY <1>17, ReadsFacts DEF ReadResponse
<1>18. CASE ReadMessage
  BY <1>18, ReadsFacts DEF ReadMessage
<1>19. CASE ReadSettled
  BY <1>19, ReadsFacts DEF ReadSettled, Turns
<1>20. CASE ReadFailure
  BY <1>20, ReadsFacts, FailAllFacts DEF ReadFailure, Turns
<1>21. CASE RejectStdout
  BY <1>21, FailAllFacts DEF RejectStdout, Turns
<1>22. CASE ReaderKills \/ ReaderEnds \/ DisposeKills
  BY <1>22 DEF ReaderKills, ReaderEnds, DisposeKills
<1>23. CASE Dispose
  BY <1>23, GotoFacts DEF Dispose, Stages
<1>24. CASE Disposed
  BY <1>24, FailAllFacts DEF Disposed, Turns
<1>25. CASE PiAnswers \/ PiSays \/ PiSettles \/ PiGarbles \/ PiDies \/ Closes
  BY <1>25 DEF PiAnswers, PiSays, PiSettles, PiGarbles, PiDies, Closes
<1> QED
  BY <1>3, <1>4, <1>5, <1>6, <1>7, <1>8, <1>9, <1>10, <1>11, <1>12, <1>13, <1>14, <1>15, <1>16,
     <1>17, <1>18, <1>19, <1>20, <1>21, <1>22, <1>23, <1>24, <1>25
     DEF Next, AskContinues, AbortContinues, Read, Stop

(* What is pending.                                                        *)
LEMMA PiAwaited ==
  ASSUME Types, Awaited, Next
  PROVE  Awaited'
<1>1. /\ \A id \in pending :
           /\ id \in Ids /\ id.by \in Fibers
           /\ stage[id.by] \in DOMAIN KindAt /\ id.kind = KindAt[stage[id.by]]
           /\ reply[id.by] = "none" /\ id.turn = turns
      /\ stage["ask"] \in {"opening", "modelling"} => turns = 0 /\ stage["retire"] = "off"
      /\ stage["retire"] \in {"stopping", "gone"} => stopped
      /\ stage["retire"] # "prompting"
  BY TypeFacts, IdFields DEF Awaited, Awaiting
<1> SUFFICES
      /\ \A id \in pending' :
           /\ stage'[id.by] \in DOMAIN KindAt /\ id.kind = KindAt[stage'[id.by]]
           /\ reply'[id.by] = "none" /\ id.turn = turns'
      /\ stage'["ask"] \in {"opening", "modelling"} => turns' = 0 /\ stage'["retire"] = "off"
      /\ stage'["retire"] \in {"stopping", "gone"} => stopped'
      /\ stage'["retire"] # "prompting"
  BY DEF Awaited, Awaiting, KindAt
<1> USE Bounds, TypeFacts, <1>1, KindFacts DEF sessionVars, piVars, fiberVars
<1>3. CASE Opened
  <2>1. \/ Send("ask", "modelling", 0)
        \/ Goto("ask", "ready") /\ UNCHANGED <<pending, stdin>>
    BY <1>3 DEF Opened
  <2> QED
    BY <1>3, <2>1, GotoFacts, SendFacts DEF Opened, Stages
<1>4. CASE Modelled
  BY <1>4, GotoFacts DEF Modelled, Stages
<1>5. CASE PromptAccepted
  BY <1>5, GotoFacts DEF PromptAccepted, Stages
<1>6. CASE PromptFails
  BY <1>6, GotoFacts DEF PromptFails, Stages
<1>7. CASE TurnEnds
  BY <1>7, GotoFacts DEF TurnEnds, Stages
<1>8. CASE \E f \in Fibers : Cleared(f)
  BY <1>8, SendFacts DEF Cleared, Fibers
<1>9. CASE \E f \in Fibers : Aborted(f)
  BY <1>9, GotoFacts DEF Aborted, Stages, Finished, Fibers
<1>10. CASE \E f \in Fibers : Settled(f)
  <2>1. PICK f \in Fibers : stage[f] = "settling" /\ Goto(f, Finished(f)) /\ UNCHANGED <<pending, turns, stopped>>
    BY <1>10 DEF Settled
  <2>2. Finished(f) \in {"disposing", "ready", "over"} /\ Finished(f) \in Stages
    BY DEF Finished, Stages
  <2> QED
    BY <2>1, <2>2, GotoFacts DEF Fibers
<1>11. CASE \E f \in Fibers : AbortFails(f)
  BY <1>11, GotoFacts DEF AbortFails, Stages, Fatal, Fibers
<1>12. CASE \E f \in Fibers : TimesOut(f)
  BY <1>12, GotoFacts DEF TimesOut, Stages, Fatal, Forget, Fibers
<1>13. CASE StartupFails
  BY <1>13 DEF StartupFails, Forget, Fibers
<1>14. CASE Prompt
  <2>1. Send("ask", "prompting", turns + 1) /\ turns + 1 \in 0 .. MaxTurns /\ turns' = turns + 1
        /\ stage["ask"] = "ready" /\ stage["retire"] = "off" /\ stopped' = stopped
    BY <1>14 DEF Prompt
  <2> QED
    BY <2>1, SendFacts DEF Fibers
<1>15. CASE Interrupt
  BY <1>15, SendFacts DEF Interrupt
<1>16. CASE BeginRetire
  <2>1. \/ Send("retire", "clearing", turns)
        \/ Goto("retire", "disposing") /\ UNCHANGED <<pending, stdin>>
    BY <1>16 DEF BeginRetire
  <2> QED
    BY <1>16, <2>1, GotoFacts, SendFacts DEF BeginRetire, Stages, Fibers
<1>17. CASE ReadResponse
  <2>1. /\ pending' = pending \ {Head(stdout).id} /\ stage' = stage /\ turns' = turns
        /\ stopped' = stopped
        /\ reply' = IF Head(stdout).id \in pending
                    THEN [reply EXCEPT ![Head(stdout).id.by] = Head(stdout).outcome] ELSE reply
    BY <1>17, ReadsFacts DEF ReadResponse
  <2>2. \A id, other \in pending : id.by = other.by => id = other
    BY <1>1 DEF Ids
  <2> QED
    BY <2>1, <2>2
<1>18. CASE ReadMessage
  BY <1>18, ReadsFacts DEF ReadMessage
<1>19. CASE ReadSettled
  BY <1>19, ReadsFacts DEF ReadSettled
<1>20. CASE ReadFailure
  BY <1>20, ReadsFacts, FailAllFacts DEF ReadFailure
<1>21. CASE RejectStdout
  BY <1>21, FailAllFacts DEF RejectStdout
<1>22. CASE ReaderKills \/ ReaderEnds \/ DisposeKills
  BY <1>22 DEF ReaderKills, ReaderEnds, DisposeKills
<1>23. CASE Dispose
  BY <1>23, GotoFacts DEF Dispose, Stages
<1>24. CASE Disposed
  BY <1>24, FailAllFacts DEF Disposed
<1>25. CASE PiAnswers \/ PiSays \/ PiSettles \/ PiGarbles \/ PiDies \/ Closes
  BY <1>25 DEF PiAnswers, PiSays, PiSettles, PiGarbles, PiDies, Closes
<1> QED
  BY <1>3, <1>4, <1>5, <1>6, <1>7, <1>8, <1>9, <1>10, <1>11, <1>12, <1>13, <1>14, <1>15, <1>16,
     <1>17, <1>18, <1>19, <1>20, <1>21, <1>22, <1>23, <1>24, <1>25
     DEF Next, AskContinues, AbortContinues, Read, Stop

-----------------------------------------------------------------------------
(* The pipes.  Most steps add nothing of a turn to either, and take at     *)
(* most their first element.                                               *)
Still ==
  \/ Modelled \/ PromptAccepted \/ TurnEnds
  \/ \E f \in Fibers : Aborted(f) \/ Settled(f) \/ AbortFails(f) \/ TimesOut(f)
  \/ StartupFails \/ ReaderKills \/ ReaderEnds \/ DisposeKills
Commands == Opened \/ Interrupt \/ BeginRetire \/ \E f \in Fibers : Cleared(f)
Stops    == ReadFailure \/ RejectStdout \/ Dispose \/ Disposed
Turning  == Prompt \/ PromptFails \/ ReadSettled \/ PiAnswers \/ PiSays \/ PiSettles
Others   == ReadResponse \/ ReadMessage \/ PiGarbles \/ PiDies \/ Closes

(* Every step is of one of these groups.                                   *)
LEMMA AllSteps == Next => Still \/ Commands \/ Stops \/ Turning \/ Others
BY DEF Next, Still, Commands, Stops, Turning, Others, AskContinues, AbortContinues, Read, Stop

(* Steps that leave the pipes and the turn.                                *)
LEMMA StillFacts ==
  ASSUME Still
  PROVE  UNCHANGED <<stdin, stdout, run, turn, turns, result, stopped>>
BY DEF Still, Modelled, PromptAccepted, TurnEnds, Aborted, Settled, AbortFails, TimesOut,
       StartupFails, ReaderKills, ReaderEnds, DisposeKills, sessionVars, piVars, fiberVars

(* Steps that may send a command which is no prompt.                       *)
LEMMA CommandsFacts ==
  ASSUME Types, Awaited, Commands
  PROVE  /\ UNCHANGED <<stdout, run, turn, turns, result, stopped>>
         /\ \A i \in DOMAIN stdin' :
              \/ i \in DOMAIN stdin /\ stdin'[i] = stdin[i]
              \/ stdin'[i].kind # "prompt" /\ stdin'[i].turn = turns
         /\ \/ stage'["ask"] # "prompting"
            \/ stage'["ask"] = stage["ask"] /\ reply'["ask"] = reply["ask"]
<1> USE TypeFacts, KindFacts DEF Fibers, Stages
<1>1. CASE Opened
  <2>1. \/ Send("ask", "modelling", 0)
        \/ Goto("ask", "ready") /\ UNCHANGED <<pending, stdin>>
    BY <1>1 DEF Opened
  <2>2. UNCHANGED <<stdout, run, turn, turns, result, stopped>> /\ turns = 0
    BY <1>1 DEF Opened, Awaited
  <2>3. CASE Send("ask", "modelling", 0)
    BY <2>2, <2>3, SendFacts
  <2>4. CASE Goto("ask", "ready") /\ UNCHANGED <<pending, stdin>>
    BY <2>2, <2>4, GotoFacts
  <2> QED
    BY <2>1, <2>3, <2>4
<1>2. CASE Interrupt
  <2>1. UNCHANGED <<stdout, run, turn, turns, result, stopped>> /\ Send("ask", "clearing", turns)
    BY <1>2 DEF Interrupt
  <2> QED
    BY <2>1, SendFacts
<1>3. CASE BeginRetire
  <2>1. \/ Send("retire", "clearing", turns)
        \/ Goto("retire", "disposing") /\ UNCHANGED <<pending, stdin>>
    BY <1>3 DEF BeginRetire
  <2>2. UNCHANGED <<stdout, run, turn, turns, result, stopped>>
    BY <1>3 DEF BeginRetire
  <2>3. CASE Send("retire", "clearing", turns)
    BY <2>2, <2>3, SendFacts
  <2>4. CASE Goto("retire", "disposing") /\ UNCHANGED <<pending, stdin>>
    BY <2>2, <2>4, GotoFacts
  <2> QED
    BY <2>1, <2>3, <2>4
<1>4. ASSUME NEW f \in Fibers, Cleared(f)
      PROVE  /\ UNCHANGED <<stdout, run, turn, turns, result, stopped>>
             /\ Send(f, "aborting", turns)
  BY <1>4 DEF Cleared
<1>5. CASE \E f \in Fibers : Cleared(f)
  BY <1>4, <1>5, SendFacts
<1> QED
  BY <1>1, <1>2, <1>3, <1>5 DEF Commands

(* Every step keeps the pipes free of turns to come.                       *)
LEMMA PiPast ==
  ASSUME Types, Awaited, Past, Next
  PROVE  Past'
<1> USE TypeFacts DEF sessionVars, piVars, fiberVars
<1>1. /\ \A i \in DOMAIN stdin : stdin[i].turn \leq turns
      /\ \A i \in DOMAIN stdout : stdout[i].type = "response" => stdout[i].id.turn \leq turns
      /\ DOMAIN stdin \subseteq Nat /\ DOMAIN stdout \subseteq Nat
  BY DEF Past, ResponseAt
<1> SUFFICES
      /\ \A i \in DOMAIN stdin' : stdin'[i].turn \leq turns'
      /\ \A i \in DOMAIN stdout' : stdout'[i].type = "response" => stdout'[i].id.turn \leq turns'
  BY DEF Past, ResponseAt
<1>2. CASE Still
  BY <1>1, <1>2, StillFacts
<1>3. CASE Commands
  BY <1>1, <1>3, CommandsFacts
<1>4. CASE ReadFailure \/ ReadSettled \/ ReadResponse \/ ReadMessage
  <2>1. \E type : Reads(type)
    BY <1>4 DEF ReadFailure, ReadSettled, ReadResponse, ReadMessage
  <2> QED
    BY <1>1, <2>1, ReadsFacts
<1>5. CASE RejectStdout \/ Closes
  <2> DEFINE m == [type |-> "failure"]
  <2>1. stdin' = stdin /\ turns' = turns /\ stdout' \in {stdout, Append(stdout, m)}
    BY <1>5 DEF RejectStdout, Closes
  <2>2. m \in Lines /\ m.type # "response"
    BY LineFacts
  <2> HIDE DEF m
  <2>3. \A i \in DOMAIN Append(stdout, m) :
          \/ i \in DOMAIN stdout /\ Append(stdout, m)[i] = stdout[i]
          \/ Append(stdout, m)[i] = m
    BY <2>2, AppendOf
  <2> QED
    BY <1>1, <2>1, <2>2, <2>3
<1>6. CASE Dispose \/ Disposed \/ PromptFails
  BY <1>1, <1>6 DEF Dispose, Disposed, PromptFails
<1>7. CASE Prompt
  <2>1. Send("ask", "prompting", turns + 1) /\ turns + 1 \in 0 .. MaxTurns /\ turns' = turns + 1
        /\ stdout' = stdout
    BY <1>7, Bounds DEF Prompt
  <2>2. \A i \in DOMAIN stdin' :
          \/ i \in DOMAIN stdin /\ stdin'[i] = stdin[i]
          \/ stdin'[i].turn = turns + 1
    BY <2>1, SendFacts, KindFacts
  <2>3. \A i \in DOMAIN stdin : stdin[i].turn \in Nat
    BY IdFields
  <2>4. \A i \in DOMAIN stdout : stdout[i].type = "response" => stdout[i].id.turn \in Nat
    BY LineFields, IdFields
  <2> QED
    BY <1>1, <2>1, <2>2, <2>3, <2>4
<1>8. CASE PiAnswers
  <2>1. PICK outcome \in {"ok", "failed"} :
          Writes([type |-> "response", id |-> Head(stdin), outcome |-> outcome])
    BY <1>8 DEF PiAnswers
  <2>2. /\ stdin' = Tail(stdin) /\ turns' = turns
        /\ Head(stdin) = stdin[1] /\ 1 \in DOMAIN stdin /\ Head(stdin) \in Ids
        /\ \A i \in DOMAIN stdin' : i + 1 \in DOMAIN stdin /\ stdin'[i] = stdin[i + 1]
    BY <1>8, TailOf DEF PiAnswers
  <2> DEFINE m == [type |-> "response", id |-> Head(stdin), outcome |-> outcome]
  <2>3. m \in Lines /\ m.id = Head(stdin)
    BY <2>2, LineFacts
  <2> HIDE DEF m
  <2>4. \A i \in DOMAIN stdout' :
          \/ i \in DOMAIN stdout /\ stdout'[i] = stdout[i]
          \/ stdout'[i] = m
    BY <2>1, <2>3, WritesFacts DEF m
  <2> QED
    BY <1>1, <2>2, <2>3, <2>4
<1>9. CASE PiSays \/ PiSettles \/ PiGarbles
  <2>1. \E m \in Lines : Writes(m) /\ m.type # "response"
    BY <1>9, LineFacts DEF PiSays, PiSettles, PiGarbles
  <2>2. stdin' = stdin /\ turns' = turns
    BY <1>9 DEF PiSays, PiSettles, PiGarbles
  <2> QED
    BY <1>1, <2>1, <2>2, WritesFacts
<1>10. CASE PiDies
  BY <1>1, <1>10 DEF PiDies
<1> QED
  BY <1>2, <1>3, <1>4, <1>5, <1>6, <1>7, <1>8, <1>9, <1>10, AllSteps
     DEF Stops, Turning, Others

(* The pipes lose their first d and e elements and get nothing of a turn.  *)
Flow(d, e) ==
  /\ \A i \in Nat : PromptAt(i)' => PromptAt(i + e) /\ stdin'[i] = stdin[i + e]
  /\ \A i \in Nat : MessageAt(i)' => MessageAt(i + d) /\ stdout'[i] = stdout[i + d]
  /\ \A i \in Nat : SettledAt(i)' => SettledAt(i + d)
  /\ \A i \in Nat : RefusalAt(i)' => RefusalAt(i + d) /\ stdout'[i] = stdout[i + d]
  /\ run' \in {run, 0} /\ UNCHANGED <<turn, turns, result>>

Ordered == OneAfterOther /\ Belongs /\ Refused

(* Such a step keeps the order.                                            *)
LEMMA FlowKeeps ==
  ASSUME Types, Ordered, NEW d \in {0, 1}, NEW e \in {0, 1}, Flow(d, e),
         stage'["ask"] = "prompting" /\ reply'["ask"] = "failed" => NothingLeft
  PROVE  Ordered'
<1>1. \A i \in Nat : i + d \in Nat /\ i + e \in Nat
  OBVIOUS
<1>2. NothingLeft => NothingLeft'
  BY <1>1 DEF NothingLeft, Flow
<1>3. OneAfterOther'
  BY <1>1 DEF Ordered, OneAfterOther, Flow
<1>4. Belongs'
  BY <1>1, <1>2 DEF Ordered, Belongs, Flow
<1>5. \A i \in Nat : RefusalAt(i)' /\ stdout'[i].id.turn = turns' => NothingLeft'
  BY <1>1, <1>2 DEF Ordered, Refused, Flow
<1>6. Refused'
  BY <1>2, <1>5 DEF Ordered, Refused, Flow
<1> QED
  BY <1>3, <1>4, <1>6 DEF Ordered

(* A session that is stopped stays so.                                     *)
LEMMA StoppedStays ==
  ASSUME Types, Awaited, Next
  PROVE  (stopped => stopped') /\ (Stops => stopped')
<1>1. Stops => stopped'
  BY DEF Stops, ReadFailure, RejectStdout, Dispose, Disposed, Awaited
<1>2. CASE Still \/ Commands
  BY <1>1, <1>2, StillFacts, CommandsFacts
<1>3. CASE Turning \/ Others
  BY <1>1, <1>3 DEF Turning, Others, Prompt, PromptFails, ReadSettled, PiAnswers, PiSays, PiSettles,
                    ReadResponse, ReadMessage, PiGarbles, PiDies, Closes, sessionVars
<1> QED
  BY <1>1, <1>2, <1>3, AllSteps

(* What one fiber awaits does not become a refusal but by a response.      *)
LEMMA AnsweredOnly ==
  ASSUME Types, Next, ~Stops, ~ReadResponse, ~Commands,
         stage'["ask"] = "prompting", reply'["ask"] = "failed"
  PROVE  stage["ask"] = "prompting" /\ reply["ask"] = "failed"
<1> USE TypeFacts DEF Fibers, Stages
<1>1. CASE Modelled \/ PromptAccepted \/ TurnEnds
  BY <1>1 DEF Modelled, PromptAccepted, TurnEnds, Goto
<1>2. ASSUME NEW f \in Fibers, Aborted(f) \/ Settled(f) \/ AbortFails(f) \/ TimesOut(f)
      PROVE  stage["ask"] = "prompting" /\ reply["ask"] = "failed"
  BY <1>2 DEF Aborted, Settled, AbortFails, TimesOut, Goto, Finished, Fatal
<1>3. CASE StartupFails \/ ReaderKills \/ ReaderEnds \/ DisposeKills
  BY <1>3 DEF StartupFails, ReaderKills, ReaderEnds, DisposeKills, fiberVars
<1>4. CASE Prompt
  BY <1>4 DEF Prompt, Send
<1>5. CASE PromptFails
  BY <1>5 DEF PromptFails, Goto
<1>6. CASE ReadSettled \/ PiAnswers \/ PiSays \/ PiSettles
  BY <1>6 DEF ReadSettled, PiAnswers, PiSays, PiSettles, Reads, fiberVars
<1>7. CASE ReadMessage \/ PiGarbles \/ PiDies \/ Closes
  BY <1>7 DEF ReadMessage, PiGarbles, PiDies, Closes, Reads, fiberVars
<1> QED
  BY <1>1, <1>2, <1>3, <1>4, <1>5, <1>6, <1>7, AllSteps DEF Still, Turning, Others

(* Empty pipes are in order.                                               *)
LEMMA NothingIsOrdered ==
  ASSUME NothingLeft', \A n \in Turns : result'[n] # "failed"
  PROVE  Ordered'
BY DEF Ordered, OneAfterOther, Belongs, Refused, NothingLeft

(* Every step keeps the order of a turn, as long as the session lives.     *)
LEMMA OrderedStep ==
  ASSUME Types, Awaited, Past, Ordered, Next, ~stopped, ~stopped'
  PROVE  Ordered'
<1> USE TypeFacts
<1>1. /\ DOMAIN stdin \subseteq Nat /\ DOMAIN stdout \subseteq Nat
      /\ Len(stdin) \in Nat /\ Len(stdout) \in Nat
      /\ DOMAIN stdin = 1 .. Len(stdin) /\ DOMAIN stdout = 1 .. Len(stdout)
  OBVIOUS
<1>2. ~Stops
  BY StoppedStays
<1>3. (NothingLeft /\ UNCHANGED <<run, stdin, stdout>>) => NothingLeft'
  BY DEF NothingLeft, PromptAt, MessageAt, SettledAt
<1>4. ~Commands /\ ~ReadResponse =>
        (stage'["ask"] = "prompting" /\ reply'["ask"] = "failed" => NothingLeft)
  BY <1>2, AnsweredOnly DEF Ordered, Refused
<1>5. CASE Commands
  <2>1. Flow(0, 0)
    BY <1>1, <1>5, CommandsFacts DEF Flow, PromptAt, MessageAt, SettledAt, RefusalAt, ResponseAt
  <2>2. stage'["ask"] = "prompting" /\ reply'["ask"] = "failed" => NothingLeft
    BY <1>5, CommandsFacts DEF Ordered, Refused
  <2> QED
    BY <2>1, <2>2, FlowKeeps
<1>6. CASE ReadResponse
  <2>1. Reads("response") /\ UNCHANGED <<turn, result>>
    BY <1>6 DEF ReadResponse
  <2>2. Flow(1, 0)
    BY <1>1, <2>1, ReadsFacts DEF Flow, PromptAt, MessageAt, SettledAt, RefusalAt, ResponseAt
  <2> DEFINE head == stdout[1]
  <2>3. /\ head \in Lines /\ head.type = "response" /\ 1 \in DOMAIN stdout
        /\ reply' = IF head.id \in pending THEN [reply EXCEPT ![head.id.by] = head.outcome] ELSE reply
        /\ stage' = stage
    BY <1>6, <2>1, ReadsFacts DEF ReadResponse
  <2>4. head.id \in Ids /\ head.id.by \in Fibers
    BY <2>3, LineFields, IdFields
  <2>5. ASSUME stage'["ask"] = "prompting", reply'["ask"] = "failed", reply["ask"] # "failed"
        PROVE  RefusalAt(1) /\ stdout[1].id.turn = turns
    <3>1. head.id \in pending /\ head.id.by = "ask" /\ head.outcome = "failed"
      BY <2>3, <2>4, <2>5
    <3> QED
      BY <2>3, <2>5, <3>1, KindFacts DEF Awaited, RefusalAt, ResponseAt
  <2>6. stage'["ask"] = "prompting" /\ reply'["ask"] = "failed" => NothingLeft
    BY <2>3, <2>5 DEF Ordered, Refused
  <2> QED
    BY <2>2, <2>6, FlowKeeps
<1> SUFFICES ASSUME stage'["ask"] = "prompting" /\ reply'["ask"] = "failed" => NothingLeft
             PROVE  Ordered'
  BY <1>4, <1>5, <1>6
<1>7. CASE Still
  <2>1. Flow(0, 0)
    BY <1>1, <1>7, StillFacts DEF Flow, PromptAt, MessageAt, SettledAt, RefusalAt, ResponseAt
  <2> QED
    BY <2>1, FlowKeeps
<1>8. CASE ReadMessage
  <2>1. Reads("message_end") /\ UNCHANGED <<turn, result>>
    BY <1>8 DEF ReadMessage
  <2>2. Flow(1, 0)
    BY <1>1, <2>1, ReadsFacts DEF Flow, PromptAt, MessageAt, SettledAt, RefusalAt, ResponseAt
  <2> QED
    BY <2>2, FlowKeeps
<1>9. CASE PiGarbles
  <2> DEFINE m == [type |-> "failure"]
  <2>1. m \in Lines /\ m.type = "failure"
    BY LineFacts
  <2>2. Writes(m) /\ UNCHANGED <<run, turn, turns, result, stdin>>
    BY <1>9 DEF PiGarbles, sessionVars, fiberVars
  <2> HIDE DEF m
  <2>3. Flow(0, 0)
    BY <1>1, <2>1, <2>2, WritesFacts DEF Flow, PromptAt, MessageAt, SettledAt, RefusalAt, ResponseAt
  <2> QED
    BY <2>3, FlowKeeps
<1>10. CASE Closes
  <2> DEFINE m == [type |-> "failure"]
  <2>1. m \in Lines /\ m.type = "failure"
    BY LineFacts
  <2>2. stdout' \in {stdout, Append(stdout, m)}
    BY <1>10 DEF Closes
  <2> HIDE DEF m
  <2>3. \A i \in DOMAIN Append(stdout, m) :
          \/ i \in DOMAIN stdout /\ Append(stdout, m)[i] = stdout[i]
          \/ Append(stdout, m)[i] = m
    BY <2>1, AppendOf
  <2>4. \A i \in DOMAIN stdout' : (i \in DOMAIN stdout /\ stdout'[i] = stdout[i]) \/ stdout'[i] = m
    BY <2>2, <2>3
  <2>5. UNCHANGED <<run, turn, turns, result, stdin>>
    BY <1>10 DEF Closes, sessionVars, fiberVars
  <2>6. Flow(0, 0)
    BY <1>1, <2>1, <2>4, <2>5 DEF Flow, PromptAt, MessageAt, SettledAt, RefusalAt, ResponseAt
  <2> QED
    BY <2>6, FlowKeeps
<1>11. CASE PiDies
  <2>1. run' = 0 /\ stdin' = <<>> /\ UNCHANGED <<turn, turns, result, stdout>>
    BY <1>11 DEF PiDies, sessionVars, fiberVars
  <2>2. Flow(0, 0)
    BY <1>1, <2>1 DEF Flow, PromptAt, MessageAt, SettledAt, RefusalAt, ResponseAt
  <2> QED
    BY <2>2, FlowKeeps
<1>12. CASE Prompt
  <2>1. /\ turn = 0 /\ turns' = turns + 1 /\ turn' = turns + 1 /\ turns + 1 \in 0 .. MaxTurns
        /\ Send("ask", "prompting", turns + 1) /\ IsAlive
        /\ UNCHANGED <<run, stdout, result>>
    BY <1>12, Bounds DEF Prompt
  <2>2. NothingLeft
    BY <2>1 DEF Ordered, Belongs
  <2>3. /\ \A i \in DOMAIN stdin' :
             \/ i \in DOMAIN stdin /\ stdin'[i] = stdin[i]
             \/ i = Len(stdin) + 1 /\ stdin'[i].turn = turns + 1
        /\ reply'["ask"] = "none"
    BY <2>1, SendFacts, KindFacts
  <2>4. \A i \in Nat : PromptAt(i)' => i = Len(stdin) + 1 /\ stdin'[i].turn = turns + 1
    BY <2>2, <2>3 DEF NothingLeft, PromptAt
  <2>5. run' = 0 /\ \A i \in Nat : ~MessageAt(i)' /\ ~SettledAt(i)'
    BY <2>1, <2>2 DEF NothingLeft, MessageAt, SettledAt
  <2>6. OneAfterOther' /\ Belongs'
    BY <2>1, <2>4, <2>5 DEF OneAfterOther, Belongs
  <2>7. \A i \in Nat : RefusalAt(i)' => stdout'[i].id.turn \leq turns /\ stdout'[i].id.turn \in Nat
    <3>1. \A i \in DOMAIN stdout : stdout[i].type = "response" => stdout[i].id.turn \in Nat
      BY LineFields, IdFields
    <3> QED
      BY <2>1, <3>1 DEF Past, RefusalAt, ResponseAt
  <2>8. Refused'
    BY <2>1, <2>3, <2>7 DEF Refused, Ordered
  <2> QED
    BY <2>6, <2>8 DEF Ordered
<1>13. CASE PromptFails
  <2>1. /\ \/ stage["ask"] = "prompting" /\ reply["ask"] = "failed"
           \/ result[turns] = "failed"
        /\ UNCHANGED <<run, stdin, stdout, result>>
    BY <1>13 DEF PromptFails, piVars
  <2>2. NothingLeft
    BY <2>1, Bounds DEF Ordered, Refused, Belongs, Turns
  <2> QED
    BY <1>3, <2>1, <2>2, NothingIsOrdered DEF Ordered, Refused
<1>14. CASE ReadSettled
  <2>1. /\ Reads("agent_settled") /\ turn' = 0
        /\ result' = IF turn = 0 THEN result ELSE [result EXCEPT ![turn] = "done"]
    BY <1>14 DEF ReadSettled
  <2>2. SettledAt(1)
    BY <2>1, ReadsFacts DEF SettledAt
  <2>3. /\ run = 0 /\ \A i \in Nat : ~PromptAt(i)
        /\ \A i \in Nat : MessageAt(i) \/ SettledAt(i) => i \leq 1
    BY <2>2 DEF Ordered, OneAfterOther
  <2>4. NothingLeft'
    BY <1>1, <2>1, <2>3, ReadsFacts DEF NothingLeft, PromptAt, MessageAt, SettledAt
  <2>5. \A n \in Turns : result'[n] # "failed"
    BY <2>1 DEF Ordered, Refused
  <2> QED
    BY <2>4, <2>5, NothingIsOrdered
<1>15. CASE PiAnswers
  <2>1. PICK outcome \in {"ok", "failed"} :
          /\ Writes([type |-> "response", id |-> Head(stdin), outcome |-> outcome])
          /\ run' = IF Head(stdin).kind = "prompt" /\ outcome = "ok" THEN Head(stdin).turn ELSE run
    BY <1>15 DEF PiAnswers
  <2>2. /\ UNCHANGED <<turn, turns, result>>
        /\ Head(stdin) = stdin[1] /\ 1 \in DOMAIN stdin /\ stdin[1] \in Ids
        /\ \A i \in DOMAIN stdin' : i \in Nat \ {0} /\ i + 1 \in DOMAIN stdin /\ stdin'[i] = stdin[i + 1]
    BY <1>15, TailOf DEF PiAnswers, sessionVars, fiberVars
  <2> DEFINE m == [type |-> "response", id |-> stdin[1], outcome |-> outcome]
  <2>3. m \in Lines /\ m.type = "response" /\ m.id = stdin[1] /\ m.outcome = outcome
    BY <2>2, LineFacts
  <2>4. Writes(m)
    BY <2>1, <2>2
  <2> HIDE DEF m
  <2>5. \A i \in DOMAIN stdout' :
          \/ i \in DOMAIN stdout /\ stdout'[i] = stdout[i]
          \/ i = Len(stdout) + 1 /\ stdout'[i] = m
    BY <2>3, <2>4, WritesFacts
  <2>6. DOMAIN stdout' \subseteq Nat
    BY <1>1, <2>5
  <2>7. CASE stdin[1].kind # "prompt"
    <3>1. \A i \in Nat : PromptAt(i)' => PromptAt(i + 1) /\ stdin'[i] = stdin[i + 1]
      BY <2>2 DEF PromptAt
    <3>2. \A i \in Nat : MessageAt(i)' => MessageAt(i) /\ stdout'[i] = stdout[i]
      BY <2>3, <2>5 DEF MessageAt
    <3>3. \A i \in Nat : SettledAt(i)' => SettledAt(i)
      BY <2>3, <2>5 DEF SettledAt
    <3>4. \A i \in Nat : RefusalAt(i)' => RefusalAt(i) /\ stdout'[i] = stdout[i]
      BY <2>3, <2>5, <2>7 DEF RefusalAt, ResponseAt
    <3>5. run' = run
      BY <2>1, <2>2, <2>7
    <3>6. Flow(0, 1)
      BY <2>2, <3>1, <3>2, <3>3, <3>4, <3>5 DEF Flow
    <3> QED
      BY <3>6, FlowKeeps
  <2>8. CASE stdin[1].kind = "prompt"
    <3>1. PromptAt(1)
      BY <2>2, <2>8 DEF PromptAt
    <3>2. /\ run = 0 /\ \A i \in Nat : ~MessageAt(i) /\ ~SettledAt(i)
          /\ \A i \in Nat : PromptAt(i) => i = 1
          /\ ~NothingLeft /\ turn # 0 /\ stdin[1].turn = turn
      BY <3>1 DEF Ordered, OneAfterOther, Belongs, NothingLeft
    <3>3. \A i \in Nat : ~PromptAt(i)'
      <4> SUFFICES ASSUME NEW i \in Nat, PromptAt(i)' PROVE FALSE
        OBVIOUS
      <4>1. i \in DOMAIN stdin' /\ stdin'[i].kind = "prompt"
        BY DEF PromptAt
      <4>2. PromptAt(i + 1) /\ i + 1 \in Nat /\ i # 0
        BY <1>1, <2>2, <4>1 DEF PromptAt
      <4> QED
        BY <3>2, <4>2
    <3>4. \A i \in Nat : ~MessageAt(i)' /\ ~SettledAt(i)'
      BY <2>3, <2>5, <3>2 DEF MessageAt, SettledAt
    <3>5. CASE outcome = "failed"
      <4>1. NothingLeft'
        BY <2>1, <3>2, <3>3, <3>4, <3>5 DEF NothingLeft
      <4> QED
        BY <2>2, <4>1, NothingIsOrdered DEF Ordered, Refused
    <3>6. CASE outcome = "ok"
      <4>1. run' = turn
        BY <2>1, <2>2, <2>8, <3>2, <3>6
      <4>2. OneAfterOther' /\ Belongs'
        BY <2>2, <3>2, <3>3, <3>4, <4>1 DEF OneAfterOther, Belongs
      <4>3. \A i \in Nat : RefusalAt(i)' => RefusalAt(i) /\ stdout'[i] = stdout[i]
        BY <1>1, <2>3, <2>5, <3>6 DEF RefusalAt, ResponseAt
      <4>4. Refused'
        BY <2>2, <3>2, <4>3 DEF Ordered, Refused
      <4> QED
        BY <4>2, <4>4 DEF Ordered
    <3> QED
      BY <3>5, <3>6
  <2> QED
    BY <2>7, <2>8
<1>16. CASE PiSays \/ PiSettles
  <2>1. /\ run # 0 /\ run = turn /\ UNCHANGED <<turn, turns, result, stdin>>
        /\ PiSays => run' = run
        /\ PiSettles => run' = 0
    BY <1>16 DEF PiSays, PiSettles, sessionVars, fiberVars, Ordered, Belongs
  <2>2. ~NothingLeft /\ \A i \in Nat : ~PromptAt(i) /\ ~PromptAt(i)' /\ ~SettledAt(i)
    BY <2>1 DEF Ordered, OneAfterOther, NothingLeft, PromptAt
  <2>3. PICK m \in Lines :
          /\ Writes(m)
          /\ PiSays => m.type = "message_end" /\ m.turn = run
          /\ PiSettles => m.type = "agent_settled"
          /\ m.type # "response"
    BY <1>16, LineFacts DEF PiSays, PiSettles
  <2>4. \A i \in DOMAIN stdout' :
          \/ i \in DOMAIN stdout /\ stdout'[i] = stdout[i]
          \/ i = Len(stdout) + 1 /\ stdout'[i] = m
    BY <2>3, WritesFacts
  <2>5. \A i \in Nat : RefusalAt(i)' => RefusalAt(i) /\ stdout'[i] = stdout[i]
    BY <1>1, <2>3, <2>4 DEF RefusalAt, ResponseAt
  <2>6. Refused'
    BY <2>1, <2>2, <2>5 DEF Ordered, Refused
  <2>7. CASE PiSays
    <3>1. \A i \in Nat : ~SettledAt(i)'
      BY <2>2, <2>3, <2>4, <2>7 DEF SettledAt
    <3>2. \A i \in Nat : MessageAt(i)' => stdout'[i].turn = turn
      BY <2>1, <2>3, <2>4, <2>7 DEF MessageAt, Ordered, Belongs
    <3>3. OneAfterOther' /\ Belongs'
      BY <2>1, <2>2, <2>7, <3>1, <3>2 DEF OneAfterOther, Belongs
    <3> QED
      BY <2>6, <3>3 DEF Ordered
  <2>8. CASE PiSettles
    <3>1. \A i \in Nat : SettledAt(i)' => i = Len(stdout) + 1
      BY <2>2, <2>3, <2>4, <2>8 DEF SettledAt
    <3>2. \A i \in Nat : MessageAt(i)' => MessageAt(i) /\ stdout'[i] = stdout[i] /\ i \leq Len(stdout)
      BY <1>1, <2>3, <2>4, <2>8 DEF MessageAt
    <3>3. OneAfterOther'
      BY <1>1, <2>1, <2>2, <2>8, <3>1, <3>2 DEF OneAfterOther
    <3>4. Belongs'
      BY <2>1, <2>2, <2>8, <3>2 DEF Belongs, Ordered
    <3> QED
      BY <2>6, <3>3, <3>4 DEF Ordered
  <2> QED
    BY <1>16, <2>7, <2>8
<1> QED
  BY <1>2, <1>5, <1>6, <1>7, <1>8, <1>9, <1>10, <1>11, <1>12, <1>13, <1>14, <1>15, <1>16, AllSteps
     DEF Turning, Others

-----------------------------------------------------------------------------
(* A session of ACP.                                                       *)
LEMMA AcpStep ==
  ASSUME Types, TurnOpen, Acp!Next, UNCHANGED piOnly
  PROVE  Types' /\ TurnOpen'
<1> USE TypeFacts, Bounds DEF Turns, Acp!Turns, Fibers, Acp!Fibers
<1>1. UNCHANGED <<pending, reply, stdin, stdout, run>>
  BY DEF piOnly, piVars
<1>2. /\ turn # 0 => result[turn] = "open"
      /\ \A n \in Turns : n > turns => result[n] = "open"
      /\ ~stopped /\ stage["ask"] = "ready" => turn = 0
  BY DEF TurnOpen
<1> SUFFICES
      /\ (stopped \in BOOLEAN)' /\ (aborted \in BOOLEAN)'
      /\ (turns \in 0 .. MaxTurns /\ turn \in {0, turns})'
      /\ (result \in [Turns -> {"open", "failed", "done", "aborted"}])'
      /\ (text \in 0 .. MaxTurns)'
      /\ (stage \in [Fibers -> Stages])'
      /\ turn' # 0 => result'[turn'] = "open"
      /\ \A n \in Turns : n > turns' => result'[n] = "open"
      /\ ~stopped' /\ stage'["ask"] = "ready" => turn' = 0
  <2>1. /\ stdin' \in Seq(Ids) /\ stdout' \in Seq(Lines) /\ pending' \subseteq Ids
        /\ run' \in 0 .. MaxTurns /\ reply' \in [Fibers -> {"none", "ok", "failed"}]
    BY <1>1
  <2> QED
    BY <2>1 DEF Types, TurnOpen
<1>3. ASSUME NEW f \in Fibers, NEW to \in Stages, Acp!Goto(f, to)
      PROVE  /\ stage' \in [Fibers -> Stages] /\ stage'[f] = to
             /\ \A g \in Fibers \ {f} : stage'[g] = stage[g]
  BY <1>3 DEF Acp!Goto
<1>4. CASE Acp!Prompt
  <2>1. /\ turns' = turns + 1 /\ turn' = turns + 1 /\ turns + 1 \in 1 .. MaxTurns
        /\ aborted' = FALSE /\ text' = 0 /\ Acp!Goto("ask", "turning")
        /\ stopped' = stopped /\ result' = result
    BY <1>4 DEF Acp!Prompt
  <2>2. stage' \in [Fibers -> Stages] /\ stage'["ask"] = "turning"
    BY <1>3, <2>1 DEF Stages
  <2>3. result[turns + 1] = "open" /\ \A n \in Turns : n > turns + 1 => result[n] = "open"
    BY <1>2, <2>1
  <2>4. turns' \in 0 .. MaxTurns /\ turn' \in {0, turns'} /\ text' \in 0 .. MaxTurns
    BY <2>1
  <2>5. result' \in [Turns -> {"open", "failed", "done", "aborted"}]
    BY <2>1
  <2> QED
    BY <2>1, <2>2, <2>3, <2>4, <2>5
<1>5. CASE Acp!RunEnds
  <2>1. PICK outcome \in {"done", "failed", "aborted"} :
          /\ result' = [result EXCEPT ![turn] = outcome]
          /\ text' \in {0, turn, text}
    BY <1>5 DEF Acp!RunEnds
  <2>2. turn' = 0 /\ aborted' = FALSE /\ UNCHANGED <<stopped, stage, turns>>
    BY <1>5 DEF Acp!RunEnds
  <2>3. result' \in [Turns -> {"open", "failed", "done", "aborted"}]
    BY <2>1
  <2>4. \A n \in Turns : n > turns => result'[n] = result[n]
    BY <2>1
  <2>5. turns' \in 0 .. MaxTurns /\ turn' \in {0, turns'} /\ text' \in 0 .. MaxTurns
    BY <2>1, <2>2
  <2>6. \A n \in Turns : n > turns' => result'[n] = "open"
    BY <1>2, <2>2, <2>4
  <2> QED
    BY <2>2, <2>3, <2>5, <2>6
<1>6. CASE Acp!TurnEnds
  BY <1>2, <1>3, <1>6 DEF Acp!TurnEnds, Stages
<1>7. CASE Acp!Interrupt
  BY <1>2, <1>3, <1>7 DEF Acp!Interrupt, Acp!Abort, Acp!Finished, Stages
<1>8. CASE Acp!BeginRetire
  BY <1>2, <1>3, <1>8 DEF Acp!BeginRetire, Acp!Abort, Acp!Finished, Stages
<1>9. CASE Acp!Dispose
  BY <1>2, <1>3, <1>9 DEF Acp!Dispose, Stages
<1>10. CASE \E f \in Fibers : Acp!Settled(f)
  BY <1>2, <1>3, <1>10 DEF Acp!Settled, Acp!Finished, Acp!Fatal, Stages
<1>11. CASE \E f \in Fibers : Acp!TimesOut(f)
  BY <1>2, <1>3, <1>11 DEF Acp!TimesOut, Acp!Fatal, Stages
<1> QED
  BY <1>4, <1>5, <1>6, <1>7, <1>8, <1>9, <1>10, <1>11 DEF Acp!Next

-----------------------------------------------------------------------------
(* Either backend begins so.                                               *)
LEMMA Initially == BackendInit => IInv
<1> SUFFICES ASSUME BackendInit PROVE IInv
  OBVIOUS
<1> USE Bounds
<1> DEFINE id == [by |-> "ask", kind |-> "get_state", turn |-> 0]
<1>1. id \in Ids /\ id.by = "ask" /\ id.kind = "get_state" /\ id.turn = 0
  BY IdFacts DEF Fibers, Kinds
<1>2. CASE kind = "pi-rpc"
  <2>1. /\ stopped = FALSE /\ aborted = FALSE /\ pending = {id} /\ turn = 0 /\ turns = 0
        /\ result = [n \in Turns |-> "open"] /\ text = 0 /\ run = 0
        /\ stdin = <<id>> /\ stdout = <<>>
        /\ stage = [ask |-> "opening", retire |-> "off"]
        /\ reply = [f \in Fibers |-> "none"]
    BY <1>2 DEF BackendInit, Init
  <2>2. /\ stage \in [Fibers -> Stages] /\ stage["ask"] = "opening" /\ stage["retire"] = "off"
        /\ reply["ask"] = "none"
    BY <2>1 DEF Fibers, Stages
  <2> HIDE DEF id
  <2>3. stdin \in Seq(Ids) /\ DOMAIN stdin = {1} /\ stdin[1] = id /\ stdout \in Seq(Lines)
        /\ DOMAIN stdout = {}
    BY <1>1, <2>1
  <2>4. Types
    <3>1. /\ result \in [Turns -> {"open", "failed", "done", "aborted"}]
          /\ reply \in [Fibers -> {"none", "ok", "failed"}]
      BY <2>1
    <3>2. turns \in 0 .. MaxTurns /\ turn \in {0, turns} /\ text \in 0 .. MaxTurns
          /\ run \in 0 .. MaxTurns /\ pending \subseteq Ids
      BY <1>1, <2>1
    <3>3. stopped \in BOOLEAN /\ aborted \in BOOLEAN
      BY <2>1
    <3> QED
      BY <2>2, <2>3, <3>1, <3>2, <3>3 DEF Types
  <2>5. TurnOpen
    BY <2>1, <2>2 DEF TurnOpen
  <2>6. Awaited
    BY <1>1, <2>1, <2>2, KindFacts DEF Awaited, Awaiting
  <2>7. Past
    BY <1>1, <2>1, <2>3 DEF Past, ResponseAt
  <2>8. NothingLeft
    BY <1>1, <2>1, <2>3 DEF NothingLeft, PromptAt, MessageAt, SettledAt
  <2>9. OneAfterOther /\ Belongs /\ Refused
    BY <2>1, <2>8 DEF OneAfterOther, Belongs, Refused, NothingLeft
  <2> QED
    BY <1>2, <2>4, <2>5, <2>6, <2>7, <2>9 DEF IInv, OverPi
<1>3. CASE kind = "tanstack-acp"
  <2>1. /\ stopped = FALSE /\ aborted = FALSE /\ pending = {} /\ turn = 0 /\ turns = 0
        /\ result = [n \in Turns |-> "open"] /\ text = 0 /\ run = 0
        /\ stdin = <<>> /\ stdout = <<>>
        /\ stage = [ask |-> "ready", retire |-> "off"]
        /\ reply = [f \in Fibers |-> "none"]
    BY <1>3 DEF BackendInit, Acp!Init, Acp!Turns, Turns
  <2>2. stage \in [Fibers -> Stages]
    BY <2>1 DEF Fibers, Stages
  <2>3. Types
    <3>1. /\ result \in [Turns -> {"open", "failed", "done", "aborted"}]
          /\ reply \in [Fibers -> {"none", "ok", "failed"}]
      BY <2>1
    <3>2. turns \in 0 .. MaxTurns /\ turn \in {0, turns} /\ text \in 0 .. MaxTurns
          /\ run \in 0 .. MaxTurns /\ pending \subseteq Ids
      BY <2>1
    <3>3. stdin \in Seq(Ids) /\ stdout \in Seq(Lines)
      BY <2>1
    <3>4. stopped \in BOOLEAN /\ aborted \in BOOLEAN
      BY <2>1
    <3> QED
      BY <2>2, <3>1, <3>2, <3>3, <3>4 DEF Types
  <2> QED
    BY <1>3, <2>1, <2>3 DEF IInv, TurnOpen, OverAcp
<1> QED
  BY <1>2, <1>3 DEF BackendInit

(* The inductive invariant holds of every behaviour.                       *)
THEOREM Inductive == BackendSpec => []IInv
<1>1. IInv /\ [BackendNext]_backendVars => IInv'
  <2> SUFFICES ASSUME IInv, [BackendNext]_backendVars PROVE IInv'
    OBVIOUS
  <2>1. CASE kind = "pi-rpc" /\ Next /\ UNCHANGED acpOnly /\ UNCHANGED kind
    <3>1. Types /\ TurnOpen /\ Awaited /\ Past /\ aborted' = aborted
      BY <2>1 DEF IInv, OverPi, acpOnly
    <3>2. Types' /\ TurnOpen' /\ Awaited' /\ Past'
      BY <2>1, <3>1, PiTypes, PiTurnOpen, PiAwaited, PiPast
    <3>3. ~stopped' => Ordered'
      BY <2>1, <3>1, StoppedStays, OrderedStep DEF IInv, OverPi, Ordered
    <3> QED
      BY <2>1, <3>2, <3>3 DEF IInv, OverPi, Ordered
  <2>2. CASE kind = "tanstack-acp" /\ Acp!Next /\ UNCHANGED piOnly /\ UNCHANGED kind
    <3>1. Types /\ TurnOpen /\ OverAcp
      BY <2>2 DEF IInv
    <3>2. Types' /\ TurnOpen'
      BY <2>2, <3>1, AcpStep
    <3>3. OverAcp'
      BY <2>2, <3>1 DEF OverAcp, piOnly, piVars
    <3> QED
      BY <2>2, <3>2, <3>3 DEF IInv
  <2>3. CASE UNCHANGED backendVars
    BY <2>3 DEF backendVars, vars, sessionVars, piVars, fiberVars, IInv, Types, TurnOpen, OverPi,
                OverAcp, Awaited, Awaiting, Past, OneAfterOther, Belongs, Refused, NothingLeft,
                PromptAt, MessageAt, SettledAt, RefusalAt, ResponseAt
  <2> QED
    BY <2>1, <2>2, <2>3 DEF BackendNext
<1> QED
  BY <1>1, Initially, PTL DEF BackendSpec

(* TurnsApart: a session that is ready for a prompt has no turn, and       *)
(* nothing of one is left with Pi or on the way to or from it.             *)
THEOREM TurnsAlwaysApart == BackendSpec => []TurnsApart
<1>1. IInv => TurnsApart
  <2> SUFFICES ASSUME IInv, stage["ask"] = "ready", ~stopped
               PROVE  /\ turn = 0 /\ run = 0
                      /\ \A i \in DOMAIN stdin : stdin[i].kind # "prompt"
                      /\ \A i \in DOMAIN stdout : stdout[i].type \notin {"message_end", "agent_settled"}
    BY DEF TurnsApart
  <2>1. Types /\ turn = 0
    BY DEF IInv, TurnOpen
  <2>2. DOMAIN stdin \subseteq Nat /\ DOMAIN stdout \subseteq Nat
    BY <2>1, TypeFacts
  <2>3. NothingLeft \/ OverAcp
    BY <2>1 DEF IInv, OverPi, Belongs
  <2> QED
    BY <2>1, <2>2, <2>3 DEF NothingLeft, OverAcp, PromptAt, MessageAt, SettledAt
<1> QED
  BY <1>1, Inductive, PTL

-----------------------------------------------------------------------------
(* Every step of a backend is one of the session it implements, or none.   *)
LEMMA RefinesInit == BackendInit => Session!Init
BY DEF BackendInit, Init, Acp!Init, Session!Init

(* Every step of the session over Pi is one of the session, or none.       *)
LEMMA PiRefines ==
  ASSUME Types, ~stopped => Belongs, Awaited, Next
  PROVE  Session!Next \/ UNCHANGED Session!vars
<1> USE TypeFacts DEF Session!vars
<1>1. CASE Still \/ Commands
  <2>1. UNCHANGED <<turn, turns, stopped, text>>
    BY <1>1 DEF Still, Commands, Modelled, PromptAccepted, TurnEnds, Aborted, Settled, AbortFails,
                TimesOut, StartupFails, ReaderKills, ReaderEnds, DisposeKills, Opened, Interrupt,
                BeginRetire, Cleared, sessionVars, fiberVars
  <2> QED
    BY <2>1
<1>2. CASE PiAnswers \/ PiSays \/ PiSettles \/ PiGarbles \/ PiDies \/ Closes \/ ReadResponse
  <2>1. UNCHANGED <<turn, turns, stopped, text>>
    BY <1>2 DEF PiAnswers, PiSays, PiSettles, PiGarbles, PiDies, Closes, ReadResponse, Reads,
                sessionVars, fiberVars
  <2> QED
    BY <2>1
<1>3. CASE Prompt
  BY <1>3 DEF Prompt, IsAlive, Session!Next, Session!Prompt
<1>4. CASE PromptFails
  BY <1>4 DEF PromptFails, Session!Next, Session!Settle
<1>5. CASE ReadMessage
  <2>1. /\ Reads("message_end") /\ text' \in {0, stdout[1].turn} /\ UNCHANGED <<stopped, turn, turns>>
        /\ MessageAt(1)
    BY <1>5, ReadsFacts DEF ReadMessage, MessageAt
  <2>2. CASE stopped
    BY <2>1, <2>2
  <2>3. CASE ~stopped
    <3>1. stdout[1].turn = turn /\ turn # 0
      BY <2>1, <2>3 DEF Belongs, NothingLeft
    <3> QED
      BY <2>1, <2>3, <3>1 DEF Session!Next, Session!Say
  <2> QED
    BY <2>2, <2>3
<1>6. CASE ReadSettled
  BY <1>6 DEF ReadSettled, Reads, Session!Next, Session!Settle
<1>7. CASE ReadFailure
  BY <1>7 DEF ReadFailure, FailAll, Reads, Session!Next, Session!Settle, Session!Close
<1>8. CASE RejectStdout
  BY <1>8 DEF RejectStdout, FailAll, Session!Next, Session!Close
<1>9. CASE Dispose
  BY <1>9 DEF Dispose, Goto, Session!Next, Session!Close
<1>10. CASE Disposed
  BY <1>10 DEF Disposed, FailAll, Session!Next, Session!Settle
<1> QED
  BY <1>1, <1>2, <1>3, <1>4, <1>5, <1>6, <1>7, <1>8, <1>9, <1>10, AllSteps
     DEF Stops, Turning, Others

(* Every step of the session over ACP is one of the session, or none.      *)
LEMMA AcpRefines ==
  ASSUME Types, Acp!Next
  PROVE  Session!Next \/ UNCHANGED Session!vars
<1> USE TypeFacts DEF Session!vars
<1>1. CASE Acp!TurnEnds \/ Acp!Interrupt \/ Acp!BeginRetire
           \/ \E f \in Acp!Fibers : Acp!Settled(f) \/ Acp!TimesOut(f)
  <2>1. UNCHANGED <<turn, turns, stopped, text>>
    BY <1>1 DEF Acp!TurnEnds, Acp!Interrupt, Acp!BeginRetire, Acp!Abort, Acp!Settled, Acp!TimesOut
  <2> QED
    BY <2>1
<1>2. CASE Acp!Prompt
  BY <1>2 DEF Acp!Prompt, Session!Next, Session!Prompt
<1>3. CASE Acp!RunEnds
  BY <1>3 DEF Acp!RunEnds, Session!Next, Session!Settle
<1>4. CASE Acp!Dispose
  BY <1>4 DEF Acp!Dispose, Session!Next, Session!Settle, Session!Close
<1> QED
  BY <1>1, <1>2, <1>3, <1>4 DEF Acp!Next

(* SessionSpec: either backend implements the session that the pool relies *)
(* on: one turn at a time, an answer only of the turn under way, and none  *)
(* once it is stopped.                                                     *)
THEOREM BackendsImplementSession == BackendSpec => SessionSpec
<1>1. IInv /\ [BackendNext]_backendVars => [Session!Next]_Session!vars
  <2> SUFFICES ASSUME IInv, [BackendNext]_backendVars PROVE [Session!Next]_Session!vars
    OBVIOUS
  <2>1. CASE kind = "pi-rpc" /\ Next
    BY <2>1, PiRefines DEF IInv, OverPi
  <2>2. CASE kind = "tanstack-acp" /\ Acp!Next
    BY <2>2, AcpRefines DEF IInv
  <2>3. CASE UNCHANGED backendVars
    BY <2>3 DEF backendVars, vars, sessionVars, fiberVars, Session!vars
  <2> QED
    BY <2>1, <2>2, <2>3 DEF BackendNext
<1> QED
  BY <1>1, Inductive, RefinesInit, PTL DEF BackendSpec, SessionSpec, Session!Spec
=============================================================================
