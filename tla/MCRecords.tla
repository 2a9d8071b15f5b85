------------------------------ MODULE MCRecords ------------------------------
(* Parts that share no state and leave records behind, for TLC: a behaviour*)
(* is about one of them, and the others stay as they begin.                *)
EXTENDS MCLibrary, MiningJob, Training, TestRun, Chunking, GgufLoad, QaFiles

VARIABLE part

MCProse == {<<1>>, <<2>>, <<1, 1, 1, 1>>, <<2, 1, 2, 3>>, <<5>>}

RecordInit ==
  /\ part \in {"library", "mining", "training", "testing", "chunking", "gguf", "pairs"}
  /\ LibInit /\ MineInit /\ TrainInit /\ TestInit
  /\ part # "mining" => unit = [i \in Items |-> "idle"]
  /\ part # "training" => want = [how |-> "unsloth", merge |-> FALSE, gguf |-> FALSE]
  /\ part # "testing" => ~local /\ ~auto
  /\ part # "gguf" =>
       /\ model = [native |-> 0, layers |-> 0] /\ free = NoGpu
       /\ request = [ctx |-> 0, layers |-> All]
  /\ GgufInit /\ QaInit
  /\ IF part = "chunking" THEN ChunkInit ELSE NoText

RecordNext ==
  \/ /\ part = "library" /\ LibNext
     /\ UNCHANGED <<part, miningVars, trainingVars, testVars, chunkVars, ggufVars, qaVars>>
  \/ /\ part = "mining" /\ MineNext
     /\ UNCHANGED <<part, libVars, trainingVars, testVars, chunkVars, ggufVars, qaVars>>
  \/ /\ part = "training" /\ TrainNext
     /\ UNCHANGED <<part, libVars, miningVars, testVars, chunkVars, ggufVars, qaVars>>
  \/ /\ part = "testing" /\ TestNext
     /\ UNCHANGED <<part, libVars, miningVars, trainingVars, chunkVars, ggufVars, qaVars>>
  \/ /\ part = "chunking" /\ ChunkNext
     /\ UNCHANGED <<part, libVars, miningVars, trainingVars, testVars, ggufVars, qaVars>>
  \/ /\ part = "gguf" /\ GgufNext
     /\ UNCHANGED <<part, libVars, miningVars, trainingVars, testVars, chunkVars, qaVars>>
  \/ /\ part = "pairs" /\ QaNext
     /\ UNCHANGED <<part, libVars, miningVars, trainingVars, testVars, chunkVars, ggufVars>>

RecordVars == <<part, libVars, miningVars, trainingVars, testVars, chunkVars, ggufVars, qaVars>>

RecordSpec == RecordInit /\ [][RecordNext]_RecordVars

(* Every variable of every part has its type.                              *)
RecordTypeOK ==
  /\ LibTypeOK /\ MineTypeOK /\ TrainTypeOK /\ TestTypeOK
  /\ ChunkTypeOK /\ GgufTypeOK /\ QaTypeOK
=============================================================================
