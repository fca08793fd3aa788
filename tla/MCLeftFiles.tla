----------------------------- MODULE MCLeftFiles -----------------------------
(***************************************************************************)
(* What the classes that make files leave behind on disk, each on its own: *)
(* three processes with a serial port, so that a third may meet what two   *)
(* have left, or two programs with an assistant, one of which opens it     *)
(* twice before it ends.                                                   *)
(***************************************************************************)
EXTENDS SerialLock, DriverAssistant, TLC

CONSTANTS u1, u2

MCMaxNames == u1 :> 2 @@ u2 :> 1

VARIABLE part

MCInit == part \in {"port", "assistant"} /\ Init /\ AssistantInit

MCNext ==
  \/ part = "port" /\ Next /\ UNCHANGED <<part, assistants>>
  \/ part = "assistant" /\ AssistantNext /\ UNCHANGED <<part, vars>>

MCSpec == MCInit /\ [][MCNext]_<<part, vars, assistants>>
=============================================================================
