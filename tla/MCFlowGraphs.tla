---------------------------- MODULE MCFlowGraphs ----------------------------
(* The host programs, one of three parts at a time, which share no state:    *)
(* a flow graph script, the receiver tuned by one of them, or the display.   *)
EXTENDS FlowGraphApp, TunedReceiver, ScopeSink

VARIABLE part      \* "script", "receiver" or "scope"

parts == <<part, appVars, receiverVars, scopeVars>>

FirstScript == script = "tx" /\ o = CHOOSE c \in OptionsOf("tx") : TRUE
FirstScope == ~info.autorange /\ ~info.xy /\ info.v = 1 /\ info.t = 1

MCInit ==
  /\ part \in {"script", "receiver", "scope"}
  /\ AppInit /\ (part = "script" \/ FirstScript)
  /\ ReceiverInit
  /\ ScopeInit /\ (part = "scope" \/ FirstScope)

MCNext ==
  /\ UNCHANGED part
  /\ \/ part = "script" /\ AppNext /\ UNCHANGED <<receiverVars, scopeVars>>
     \/ part = "receiver" /\ ReceiverNext /\ UNCHANGED <<appVars, scopeVars>>
     \/ part = "scope" /\ ScopeNext /\ UNCHANGED <<appVars, receiverVars>>

MCSpec == MCInit /\ [][MCNext]_parts
=============================================================================
