--------------------------- MODULE RuntimeBackend ----------------------------
(***************************************************************************)
(* The two backends of a Node, as createSessionEffect of server.ts picks   *)
(* one for a session of the pool, and what the pool relies on from both.   *)
(***************************************************************************)
EXTENDS PiRpc

VARIABLES
  kind,      (* pi-rpc or tanstack-acp                                      *)
  aborted

acpOnly     == <<aborted>>
piOnly      == <<reader, pending, reply, piVars>>
backendVars == <<vars, kind, aborted>>

Acp == INSTANCE AcpSession

BackendInit ==
  /\ kind \in {"pi-rpc", "tanstack-acp"}
  /\ kind = "pi-rpc" => Init /\ aborted = FALSE
  /\ kind = "tanstack-acp" =>
       /\ Acp!Init
       /\ reader = "done" /\ pending = {} /\ reply = [f \in Fibers |-> "none"]
       /\ proc = "none" /\ stdin = <<>> /\ stdout = <<>> /\ run = 0

BackendNext ==
  /\ UNCHANGED kind
  /\ \/ kind = "pi-rpc" /\ Next /\ UNCHANGED acpOnly
     \/ kind = "tanstack-acp" /\ Acp!Next /\ UNCHANGED piOnly

BackendSpec ==
  BackendInit /\ [][BackendNext]_backendVars /\ (kind = "pi-rpc" => Fairness)

-----------------------------------------------------------------------------
(* A session of Pi that is stopped, by its owner or by what Pi wrote, does *)
(* not leave its process behind, even one that ignores SIGTERM.            *)
StoppedIsKilled == kind = "pi-rpc" /\ stopped ~> Dead

(* Either backend is the session that the pool relies on.  What is still   *)
(* read once it is stopped is no answer.                                   *)
Session == INSTANCE RuntimeSession WITH
  open <- ~stopped, turns <- turns, turn <- turn,
  answer <- IF stopped THEN 0 ELSE text
SessionSpec == Session!Spec
=============================================================================
