------------------------------ MODULE MCSession -----------------------------
(* The parts a session rests on that share no state with each other: a behaviour
   is one of one part, chosen at the start, and the others rest. *)
EXTENDS SessionHistory, FileSessionStore, LoopDetector, ToolGate, ExecSessions,
        Checkpoints, Composer

CONSTANTS e1, e2

(* A process with output and one without. *)
MCExecIds == {e1, e2}
MCMaxOutput == e1 :> 2 @@ e2 :> 0

VARIABLE part

SessionInit ==
    /\ part \in {"history", "store", "loops", "gate", "exec", "checkpoints", "composer"}
    /\ Init /\ StoreInit /\ LoopInit /\ GateInit /\ ExecInit
    /\ CheckpointInit /\ (part # "checkpoints" => tree = [p \in Paths |-> Absent])
    /\ ComposerInit /\ (part # "composer" => hist = Loaded(<<>>))

Rest(name, v) == part # name => UNCHANGED v

SessionNext ==
    /\ UNCHANGED part
    /\ \/ part = "history" /\ Next
       \/ part = "store" /\ StoreNext
       \/ part = "loops" /\ LoopNext
       \/ part = "gate" /\ GateNext
       \/ part = "exec" /\ ExecNext
       \/ part = "checkpoints" /\ CheckpointNext
       \/ part = "composer" /\ ComposerNext
    /\ Rest("history", vars) /\ Rest("store", storeVars) /\ Rest("loops", loopVars)
    /\ Rest("gate", gateVars) /\ Rest("exec", execVars)
    /\ Rest("checkpoints", checkpointVars) /\ Rest("composer", composerVars)

SessionSpec ==
    SessionInit /\ [][SessionNext]_<<part, vars, storeVars, loopVars, gateVars, execVars,
                                     checkpointVars, composerVars>>

(* Every part's variables are of their types: a window never ends past the output, a
   cursor past the text, a chain past the history, a log past its events. *)
SessionTypeOK ==
    /\ TypeOK /\ StoreTypeOK /\ LoopTypeOK /\ GateTypeOK /\ ExecTypeOK
    /\ CheckpointTypeOK /\ ComposerTypeOK
=============================================================================
