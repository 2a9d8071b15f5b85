------------------------------ MODULE Inference ------------------------------
(***************************************************************************)
(* The inference worker (inference/worker.py) and its engine               *)
(* (testing/inference.py): requests run in threads under one lock, the     *)
(* idle timer in a thread of its own without it.  Time is not counted: a   *)
(* timer that is set may fire, and what it compares is whether the engine  *)
(* was used after it was set.                                              *)
(***************************************************************************)
EXTENDS Naturals

CONSTANTS Requests, Models, None

ASSUME InferenceAssumption == None \notin Models /\ None \notin Requests

VARIABLES
  call,      \* the request each thread serves, and how far it is
  lock,      \* build_app's lock: the thread that holds it
  model,     \* engine.model
  path,      \* engine.model_path
  busy,      \* engine._busy
  timer,     \* engine._idle_timer is set
  after,     \* _last_used is later than the start of the timer
  due        \* a timer thread has decided to unload

infVars == <<call, lock, model, path, busy, timer, after, due>>

engine == <<model, path, busy, timer, after, due>>

Idle == [op |-> "none", at |-> "idle", model |-> None, safe |-> TRUE]

InfInit ==
  /\ call = [r \in Requests |-> Idle]
  /\ lock = None /\ model = None /\ path = None /\ busy = 0
  /\ timer = FALSE /\ after = FALSE /\ due = FALSE

Step(r, at) == call' = [call EXCEPT ![r].at = at]

Answer(r) == call' = [call EXCEPT ![r] = Idle] /\ lock' = None

-----------------------------------------------------------------------------
(* A request arrives.  generate and chat answer 409 at once if no model is *)
(* there; chat keeps the model it saw.                                     *)
Ask(r, op, m) ==
  /\ call[r] = Idle
  /\ \/ op = "load" /\ m \in Models
     \/ op = "unload" /\ m = None
     \/ op \in {"generate", "chat"} /\ model # None /\ m = model
  /\ call' = [call EXCEPT ![r] = [op |-> op, at |-> "waiting", safe |-> TRUE,
                 model |-> IF op \in {"load", "chat"} THEN m ELSE None]]
  /\ UNCHANGED <<lock, engine>>

Begins(r, op) == call[r].at = "waiting" /\ call[r].op = op /\ lock = None

Unloaded ==
  /\ model' = None /\ path' = None
  /\ timer' = FALSE /\ after' = FALSE

Unload(r) ==
  /\ Begins(r, "unload")
  /\ Unloaded
  /\ Answer(r)
  /\ UNCHANGED <<busy, due>>

(* Slip: the old model is replaced, not unloaded first.                    *)
LoadBeginsOver(r) ==
  /\ Begins(r, "load")
  /\ lock' = r /\ Step(r, "loading")
  /\ UNCHANGED engine

(* load: the old model goes first; a load that fails leaves none. *)
LoadBegins(r) ==
  /\ Begins(r, "load")
  /\ lock' = r /\ Step(r, "loading")
  /\ Unloaded
  /\ UNCHANGED <<busy, due>>

LoadFails(r) ==
  /\ call[r].at = "loading"
  /\ Answer(r)
  /\ UNCHANGED engine

LoadModel(r) ==
  /\ call[r].at = "loading"
  /\ model' = call[r].model
  /\ Step(r, "loaded")
  /\ UNCHANGED <<lock, path, busy, timer, after, due>>

(* Slip: the timer starts with the first generation only.                  *)
LoadEndsNoTimer(r) ==
  /\ call[r].at = "loaded"
  /\ path' = call[r].model
  /\ after' = FALSE
  /\ Answer(r)
  /\ UNCHANGED <<model, busy, timer, due>>

LoadEnds(r) ==
  /\ call[r].at = "loaded"
  /\ path' = call[r].model
  /\ timer' = (model # None) /\ after' = FALSE
  /\ Answer(r)
  /\ UNCHANGED <<model, busy, due>>

(* generate: 500 if the model is gone by now; else the timer starts again  *)
(* and the engine counts as busy until the answer is there.                *)
GenerateRefused(r) ==
  /\ Begins(r, "generate") /\ model = None
  /\ Answer(r)
  /\ UNCHANGED engine

GenerateBegins(r) ==
  /\ Begins(r, "generate") /\ model # None
  /\ lock' = r /\ Step(r, "touched")
  /\ timer' = TRUE /\ after' = FALSE
  /\ UNCHANGED <<model, path, busy, due>>

(* Under busy, and with the model the engine has now: none, if a timer     *)
(* thread was faster.  safe: none of them is still to come.                *)
Generates(r) ==
  /\ call[r].at = "touched"
  /\ busy' = busy + 1
  /\ call' = [call EXCEPT ![r].at = "generating", ![r].model = model,
                          ![r].safe = ~due]
  /\ UNCHANGED <<lock, model, path, timer, after, due>>

GenerateEnds(r) ==
  /\ call[r].at = "generating"
  /\ busy' = busy - 1
  /\ after' = TRUE
  /\ Answer(r)
  /\ UNCHANGED <<model, path, timer, due>>

(* chat_completion goes past the engine: neither busy nor used.            *)
ChatBegins(r) ==
  /\ Begins(r, "chat")
  /\ lock' = r /\ Step(r, "chatting")
  /\ UNCHANGED engine

ChatEnds(r) ==
  /\ call[r].at = "chatting"
  /\ Answer(r)
  /\ UNCHANGED engine

Serve(r) ==
  \/ Unload(r) \/ LoadBegins(r) \/ LoadFails(r) \/ LoadModel(r) \/ LoadEnds(r)
  \/ GenerateRefused(r) \/ GenerateBegins(r) \/ Generates(r)
  \/ GenerateEnds(r) \/ ChatBegins(r) \/ ChatEnds(r)

-----------------------------------------------------------------------------
(* Slip: a timer does not look whether the engine is busy.                 *)
TimerFiresBlind ==
  /\ timer /\ ~due
  /\ timer' = FALSE /\ due' = TRUE
  /\ UNCHANGED <<call, lock, model, path, busy, after>>

(* _auto_unload, up to its decision: a busy engine gets a new timer, one   *)
(* used since keeps its model and has no timer any more (unless the clocks *)
(* differ by more than the use took).  The next timer takes minutes: one   *)
(* thread at most has decided and not yet acted.                           *)
TimerFires ==
  /\ timer /\ ~due
  /\ \/ /\ busy > 0
        /\ after' = FALSE
        /\ UNCHANGED <<timer, due>>
     \/ /\ busy = 0 /\ after
        /\ timer' = FALSE
        /\ UNCHANGED <<after, due>>
     \/ /\ busy = 0
        /\ timer' = FALSE /\ due' = TRUE
        /\ UNCHANGED after
  /\ UNCHANGED <<call, lock, model, path, busy>>

(* ... and what it decided, whatever has happened since. *)
AutoUnload ==
  /\ due
  /\ due' = FALSE
  /\ Unloaded
  /\ UNCHANGED <<call, lock, busy>>

(* The worker dies, its calls with it; a new one has no model.             *)
WorkerDies ==
  /\ model # None
  /\ call' = [r \in Requests |-> Idle]
  /\ lock' = None /\ busy' = 0 /\ due' = FALSE
  /\ Unloaded

InfNext ==
  \/ \E r \in Requests, m \in Models \cup {None},
        op \in {"load", "unload", "generate", "chat"} : Ask(r, op, m)
  \/ \E r \in Requests : Serve(r)
  \/ TimerFires \/ AutoUnload \/ WorkerDies

InfSpec == InfInit /\ [][InfNext]_infVars

-----------------------------------------------------------------------------
(* The status is read without the lock, beside loads and timers, and yet   *)
(* it never names a model that is not the one in memory.                   *)
StatusNamesModel == model # None => path \in {None, model}

(* Every variable has its type, and the engine is of one piece.            *)
InfTypeOK ==
  /\ call \in [Requests -> [op : {"none", "load", "unload", "generate", "chat"},
        at : {"idle", "waiting", "loading", "loaded", "touched", "generating",
              "chatting"},
        model : Models \cup {None}, safe : BOOLEAN]]
  /\ lock \in Requests \cup {None}
  /\ model \in Models \cup {None} /\ path \in Models \cup {None}
  /\ busy \in 0..1 /\ timer \in BOOLEAN /\ after \in BOOLEAN /\ due \in BOOLEAN
  /\ StatusNamesModel

(* "Mid-generation: never pull the model out from under it"                *)
(* (testing/inference.py:195): neither a timer nor another request takes   *)
(* the model of a generation, unless a timer thread had decided to before  *)
(* the generation began.                                                   *)
BusyKeepsModel ==
  \A r \in Requests :
    call[r].at = "generating" /\ call[r].safe /\ call[r].model # None
      => model = call[r].model

(* A model that nobody generates with is unloaded by the idle timer, chats *)
(* or not.                                                                 *)
UnusedUnloads == (model # None /\ lock = None /\ ~after) ~> (model = None \/ after)

(* "Auto-unload after idle" (testing/inference.py:31), used or not.        *)
IdleUnloads ==
  (model # None) ~> (model = None \/ \E r \in Requests : call[r] # Idle)

(* "After unload [...] the Llama native context is gone" (:217): the old   *)
(* model is gone before the next one is there.                             *)
OneModel ==
  \A r \in Requests : call[r].op = "chat" /\ model # None => call[r].model = model
=============================================================================
