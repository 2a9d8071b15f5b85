------------------------------ MODULE GgufLoad -------------------------------
(***************************************************************************)
(* One call of load_llama_gguf (models/llama_loader.py): it plans context  *)
(* and GPU layers from the free VRAM (models/gguf_fit.py), then tries, and *)
(* whenever memory runs out it tries less.  Memory is counted in units of  *)
(* what one position of context costs a layer; whether an attempt really   *)
(* runs out is left open, since the plan is only an estimate.              *)
(***************************************************************************)
EXTENDS Integers

CONSTANTS
  Block,        \* the step of an automatic context, 1024 in the code
  MinAutoCtx, MaxLoadAttempts, Margin,
  LayerWeight,  \* the weights of one layer
  Natives,      \* native contexts of models, 0 for a header without one
  Totals,       \* their layers, 0 for a header without
  AskedCtx,     \* contexts asked for, 0 for automatic
  AskedLayers,  \* numbers of layers asked for, if any
  Frees         \* free memory

ASSUME GgufAssumption ==
  /\ Block \in Nat \ {0} /\ MinAutoCtx \in Nat \ {0} /\ MinAutoCtx % Block = 0
  /\ MaxLoadAttempts \in Nat \ {0, 1} /\ {Margin, LayerWeight} \subseteq Nat
  /\ Natives \cup Totals \cup AskedCtx \cup Frees \subseteq Nat
  /\ AskedLayers \subseteq Nat

VARIABLES
  model,     \* the header: native context and layers
  request,   \* context and layers asked for
  free,      \* free VRAM, NoGpu if there is nothing to plan against
  stage,     \* "plan", "search", "try", or how it ended
  ctx,       \* during the search in blocks
  high,      \* the end of the search, in blocks
  layers,    \* on the GPU
  tries      \* attempts that ran out of memory

All == -1      \* as many as fit, or every layer
NoGpu == -1

ggufVars == <<model, request, free, stage, ctx, high, layers, tries>>

chosen == <<model, request, free>>

Known == model.layers > 0
Automatic == request.ctx = 0
Lesser(a, b) == IF a < b THEN a ELSE b

CtxFloor == IF model.native > 0 THEN Lesser(model.native, MinAutoCtx) ELSE MinAutoCtx

PerLayer(c) == LayerWeight + c

Estimate(c, n) == PerLayer(c) * n + Margin

AllFit(c) == Estimate(c, model.layers) <= free

(* An automatic context that is neither the native one nor its floor.      *)
Fitted ==
  /\ Automatic /\ Known /\ model.native > 0 /\ free # NoGpu /\ request.layers # 0
  /\ ~AllFit(model.native) /\ AllFit(CtxFloor)

(* plan_auto_ctx, when there is nothing to search for. *)
AutoCtx ==
  CASE model.native = 0 \/ ~Known -> MinAutoCtx
    [] model.native > 0 /\ Known /\ (free = NoGpu \/ request.layers = 0) -> CtxFloor
    [] OTHER -> IF AllFit(model.native) THEN model.native ELSE CtxFloor

(* plan_gpu_layers for context c.                                          *)
Planned(c) ==
  LET most == IF request.layers \in 0..model.layers - 1 THEN request.layers ELSE model.layers
      fit == IF free < Margin THEN 0 ELSE (free - Margin) \div PerLayer(c)
      n == Lesser(most, fit)
  IN  IF free = NoGpu \/ ~Known THEN request.layers
      ELSE IF n >= model.layers THEN All ELSE n

(* step_down: at least one layer less.                                     *)
StepDown ==
  LET now == IF layers = All THEN model.layers ELSE layers
  IN  IF Known THEN Lesser((7 * now) \div 10, now - 1) ELSE 0

GgufInit ==
  /\ model \in [native : Natives, layers : Totals]
  /\ request \in [ctx : AskedCtx, layers : AskedLayers \cup {All}]
  /\ free \in Frees \cup {NoGpu}
  /\ stage = "plan" /\ ctx = request.ctx /\ layers = request.layers /\ tries = 0
  /\ high = 0

PlanWith(c) ==
  /\ ctx' = c /\ layers' = Planned(c)
  /\ stage' = "try" /\ high' = 0
  /\ UNCHANGED <<chosen, tries>>

Plans ==
  /\ stage = "plan" /\ ~Fitted
  /\ PlanWith(IF Automatic THEN AutoCtx ELSE request.ctx)

(* The search in [ctx, high), whose lower end fits.                        *)
SearchBegins ==
  /\ stage = "plan" /\ Fitted
  /\ stage' = "search" /\ ctx' = CtxFloor \div Block /\ high' = model.native \div Block
  /\ UNCHANGED <<chosen, layers, tries>>

SearchHalves ==
  /\ stage = "search" /\ high - ctx > 1
  /\ LET mid == (ctx + high) \div 2 IN
       IF AllFit(mid * Block) THEN ctx' = mid /\ UNCHANGED high
       ELSE high' = mid /\ UNCHANGED ctx
  /\ UNCHANGED <<chosen, stage, layers, tries>>

SearchEnds ==
  /\ stage = "search" /\ high - ctx <= 1
  /\ PlanWith(ctx * Block)

(* The attempt succeeds, or fails for another reason than memory.          *)
LoadReturns ==
  /\ stage = "try"
  /\ stage' \in {"loaded", "broken"}
  /\ UNCHANGED <<chosen, ctx, high, layers, tries>>

TriesLeft == tries + 1 < MaxLoadAttempts - 1

Lowered ==
  LET half == ((ctx \div 2) \div Block) * Block IN
    IF half > CtxFloor THEN half ELSE CtxFloor

(* Slip: the floor is forgotten.                                           *)
LowersCtxBlind ==
  /\ stage = "try" /\ tries < MaxLoadAttempts
  /\ Automatic /\ ctx > CtxFloor /\ TriesLeft
  /\ ctx' = ((ctx \div 2) \div Block) * Block
  /\ tries' = tries + 1
  /\ UNCHANGED <<chosen, stage, high, layers>>

(* An automatic context is lowered first ...                               *)
LowersCtx ==
  /\ stage = "try" /\ tries < MaxLoadAttempts
  /\ Automatic /\ ctx > CtxFloor /\ TriesLeft
  /\ ctx' = Lowered
  /\ tries' = tries + 1
  /\ UNCHANGED <<chosen, stage, high, layers>>

(* Slip: no last attempt on the CPU.                                       *)
ShedsLayersEvenly ==
  /\ stage = "try" /\ tries < MaxLoadAttempts
  /\ ~(Automatic /\ ctx > CtxFloor /\ TriesLeft)
  /\ layers # 0
  /\ layers' = StepDown
  /\ tries' = tries + 1
  /\ UNCHANGED <<chosen, stage, ctx, high>>

(* ... then layers go to the CPU, on the last attempt all of them.         *)
ShedsLayers ==
  /\ stage = "try" /\ tries < MaxLoadAttempts
  /\ ~(Automatic /\ ctx > CtxFloor /\ TriesLeft)
  /\ layers # 0
  /\ layers' = IF TriesLeft THEN StepDown ELSE 0
  /\ tries' = tries + 1
  /\ UNCHANGED <<chosen, stage, ctx, high>>

GivesUp ==
  /\ stage = "try" /\ tries < MaxLoadAttempts
  /\ ~(Automatic /\ ctx > CtxFloor /\ TriesLeft)
  /\ layers = 0
  /\ tries' = tries + 1
  /\ stage' = "out of memory"
  /\ UNCHANGED <<chosen, ctx, high, layers>>

GgufNext ==
  \/ Plans \/ SearchBegins \/ SearchHalves \/ SearchEnds
  \/ LoadReturns \/ LowersCtx \/ ShedsLayers \/ GivesUp

GgufSpec == GgufInit /\ [][GgufNext]_ggufVars

-----------------------------------------------------------------------------
(* Every variable has its type.                                            *)
GgufTypeOK ==
  /\ model.native \in Natives /\ model.layers \in Totals
  /\ request.ctx \in AskedCtx /\ request.layers \in AskedLayers \cup {All} /\ free \in Frees \cup {NoGpu}
  /\ stage \in {"plan", "search", "try", "loaded", "broken", "out of memory"}
  /\ ctx \in Nat /\ high \in Nat /\ layers \in Nat \cup {All} /\ tries \in 0..MaxLoadAttempts

(* "An explicit n_ctx is NEVER shrunk", an automatic one lies between its  *)
(* floor and the native one (llama_loader.py:9), and "an explicit N is an  *)
(* upper bound" of the layers (:348); what is tried first fits by the      *)
(* estimate, or runs on the CPU.                                           *)
KeepsToLimits ==
  stage \notin {"plan", "search"} =>
    /\ ~Automatic => ctx = request.ctx
    /\ Automatic => ctx >= CtxFloor /\ (Known /\ model.native > 0 => ctx <= model.native)
    /\ Known /\ request.layers \in 0..model.layers => layers \in All..request.layers
    /\ Known /\ request.layers \in 0..model.layers - 1 => layers >= 0
    /\ tries = 0 /\ Known /\ free # NoGpu /\ layers # 0 =>
         Estimate(ctx, IF layers = All THEN model.layers ELSE layers) <= free

(* "Only a model that cannot load even CPU-only raises" (:14), so that "a  *)
(* model that can load at all does" (:292), and "the loop only ends by     *)
(* break or raise" (:306): memory is given up on only after an attempt on  *)
(* the CPU with the least context, and never for lack of tries.            *)
LastResort ==
  /\ stage = "out of memory" => layers = 0 /\ (Automatic => ctx = CtxFloor)
  /\ stage = "try" => tries < MaxLoadAttempts

(* "Lowered to the largest multiple of 1024 that fits" (gguf_fit.py:169).  *)
FittedIsLargest ==
  stage = "try" /\ tries = 0 /\ Automatic /\ Known /\ free # NoGpu /\ request.layers # 0
    => \A c \in CtxFloor..model.native :
         c % Block = 0 /\ AllFit(c) /\ model.native > 0 => c <= ctx
=============================================================================
