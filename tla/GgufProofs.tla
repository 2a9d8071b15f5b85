---------------------------- MODULE GgufProofs ------------------------------
(***************************************************************************)
(* Proofs about the load of a GGUF model (GgufLoad): its types, that what  *)
(* was asked for is kept to, and that giving up comes last.                *)
(***************************************************************************)
EXTENDS GgufLoad, TLAPS

LEMMA DivBounds ==
  ASSUME NEW n \in Nat, NEW d \in Nat \ {0}
  PROVE  n \div d \in Nat /\ (n \div d) * d <= n
  OBVIOUS

LEMMA DivReaches ==
  ASSUME NEW n \in Nat, NEW d \in Nat \ {0}, NEW k \in Nat, k * d <= n
  PROVE  k <= n \div d
  OBVIOUS

LEMMA MulGrows ==
  ASSUME NEW a \in Nat, NEW b \in Nat, NEW c \in Nat, a <= b
  PROVE  c * a <= c * b /\ a * c <= b * c
  OBVIOUS

LEMMA Multiples ==
  ASSUME NEW n \in Nat, NEW d \in Nat \ {0}, n % d = 0
  PROVE  (n \div d) * d = n
  OBVIOUS

-----------------------------------------------------------------------------
(* The plan.                                                               *)

Inputs ==
  /\ model.native \in Nat /\ model.native \in Natives /\ model.layers \in Nat
  /\ model.layers \in Totals
  /\ request.ctx \in Nat /\ request.ctx \in AskedCtx /\ request.layers \in Nat \cup {All}
  /\ request.layers \in AskedLayers \cup {All}
  /\ free \in Nat \cup {NoGpu} /\ free \in Frees \cup {NoGpu}

LEMMA SizesTyped ==
  /\ Block \in Nat \ {0} /\ MinAutoCtx \in Nat \ {0}
  /\ (MinAutoCtx \div Block) * Block = MinAutoCtx
  /\ Margin \in Nat /\ LayerWeight \in Nat
  BY GgufAssumption, Multiples

LEMMA FloorIsLeast ==
  ASSUME Inputs
  PROVE  /\ CtxFloor \in Nat \ {0} /\ CtxFloor <= MinAutoCtx
         /\ model.native > 0 => CtxFloor <= model.native
         /\ CtxFloor \in {MinAutoCtx, model.native}
  BY SizesTyped DEF Inputs, CtxFloor, Lesser

(* As many layers as are planned fit by the estimate.                      *)
LEMMA PlanFits ==
  ASSUME Inputs, NEW c \in Nat \ {0}, NEW n, n = Planned(c)
  PROVE  /\ n \in Nat \cup {All}
         /\ Known /\ request.layers \in 0..model.layers => n \in All..request.layers
         /\ Known /\ request.layers \in 0..model.layers - 1 => n >= 0
         /\ Known /\ free # NoGpu /\ n # 0 =>
              Estimate(c, IF n = All THEN model.layers ELSE n) <= free
<1> DEFINE most == IF request.layers \in 0..model.layers - 1
                   THEN request.layers ELSE model.layers
           fit == IF free < Margin THEN 0 ELSE (free - Margin) \div PerLayer(c)
           m == Lesser(most, fit)
<1>1. PerLayer(c) \in Nat \ {0}
  BY SizesTyped DEF PerLayer
<1>2. CASE free = NoGpu \/ ~Known
  <2>1. n = request.layers
    BY <1>2 DEF Planned
  <2> QED BY <1>2, <2>1 DEF Inputs, All
<1>3. CASE free # NoGpu /\ Known
  <2>1. n = IF m >= model.layers THEN All ELSE m
    BY <1>3 DEF Planned
  <2>2. free \in Nat /\ model.layers \in Nat \ {0} /\ most \in 0..model.layers
    BY <1>3 DEF Inputs, Known
  <2>3. fit \in Nat /\ (fit # 0 => PerLayer(c) * fit + Margin <= free)
    <3>1. CASE free < Margin
      BY <3>1
    <3>2. CASE ~(free < Margin)
      <4>1. free - Margin \in Nat
        BY <2>2, <3>2, SizesTyped
      <4>2. fit \in Nat /\ fit * PerLayer(c) <= free - Margin
        BY <1>1, <3>2, <4>1, DivBounds
      <4>3. fit * PerLayer(c) = PerLayer(c) * fit
        BY <1>1, <4>2
      <4> HIDE DEF fit
      <4> QED BY <1>1, <2>2, <4>2, <4>3, SizesTyped
    <3> QED BY <3>1, <3>2
  <2> HIDE DEF most, fit
  <2>4. m \in Nat /\ m <= most /\ m <= fit
    BY <2>2, <2>3 DEF Lesser
  <2>5. n \in Nat \cup {All}
    BY <2>1, <2>4
  <2>6. request.layers \in 0..model.layers => n \in All..request.layers
    BY <2>1, <2>2, <2>4 DEF most, All
  <2>7. request.layers \in 0..model.layers - 1 => n >= 0
    BY <2>1, <2>2, <2>4 DEF most
  <2>8. ASSUME n # 0 PROVE Estimate(c, IF n = All THEN model.layers ELSE n) <= free
    <3> DEFINE k == IF n = All THEN model.layers ELSE n
    <3>1. k \in Nat /\ k <= fit /\ k # 0
      BY <2>1, <2>2, <2>3, <2>4, <2>8 DEF All
    <3> HIDE DEF k
    <3>2. PerLayer(c) * k <= PerLayer(c) * fit
      BY <1>1, <2>3, <3>1, MulGrows
    <3>3. fit # 0
      BY <2>3, <3>1
    <3>4. PerLayer(c) * k \in Nat /\ PerLayer(c) * fit \in Nat
      BY <1>1, <2>3, <3>1
    <3>5. PerLayer(c) * k + Margin <= free
      BY <2>2, <2>3, <3>2, <3>3, <3>4, SizesTyped
    <3> QED BY <3>5 DEF Estimate, k
  <2> QED BY <2>5, <2>6, <2>7, <2>8
<1> QED BY <1>2, <1>3

-----------------------------------------------------------------------------
(* The load.                                                               *)

LoadTypes ==
  /\ stage \in {"plan", "search", "try", "loaded", "broken", "out of memory"}
  /\ ctx \in Nat /\ high \in Nat /\ layers \in Nat \cup {All}
  /\ tries \in 0..MaxLoadAttempts
  /\ stage \in {"plan", "search"} => tries = 0

(* The search keeps a lower end that fits, between the floor and the native*)
(* context.                                                                *)
Searching ==
  stage = "search" =>
    /\ Fitted /\ ctx <= high /\ AllFit(ctx * Block)
    /\ CtxFloor <= ctx * Block /\ high * Block <= model.native

LoadInv == Inputs /\ LoadTypes /\ Searching /\ KeepsToLimits

LEMMA LoadInit == GgufInit => LoadInv
<1> SUFFICES ASSUME GgufInit PROVE LoadInv
  OBVIOUS
<1>1. /\ model.native \in Natives /\ model.layers \in Totals
      /\ request.ctx \in AskedCtx /\ request.layers \in AskedLayers \cup {All}
      /\ free \in Frees \cup {NoGpu}
  BY DEF GgufInit
<1>2. Inputs
  BY <1>1, GgufAssumption DEF Inputs
<1>3. LoadTypes
  BY <1>2, GgufAssumption DEF GgufInit, LoadTypes, Inputs
<1>4. Searching /\ KeepsToLimits
  BY DEF GgufInit, Searching, KeepsToLimits
<1> QED BY <1>2, <1>3, <1>4 DEF LoadInv

LEMMA PlanWithKeeps ==
  ASSUME Inputs, LoadTypes, tries = 0, NEW c \in Nat \ {0}, PlanWith(c),
         ~Automatic => c = request.ctx,
         Automatic => c >= CtxFloor /\ (Known /\ model.native > 0 => c <= model.native)
  PROVE  LoadInv'
<1> DEFINE n == Planned(c)
<1>1. /\ ctx' = c /\ layers' = n /\ stage' = "try" /\ high' = 0
      /\ tries' = tries /\ model' = model /\ request' = request /\ free' = free
  BY DEF PlanWith, chosen
<1>2. /\ n \in Nat \cup {All}
      /\ Known /\ request.layers \in 0..model.layers => n \in All..request.layers
      /\ Known /\ request.layers \in 0..model.layers - 1 => n >= 0
      /\ Known /\ free # NoGpu /\ n # 0 =>
           Estimate(c, IF n = All THEN model.layers ELSE n) <= free
  BY PlanFits
<1> HIDE DEF n
<1>3. Inputs'
  BY <1>1 DEF Inputs
<1>4. LoadTypes' /\ Searching'
  BY <1>1, <1>2 DEF LoadTypes, Searching
<1>5. Estimate(c, IF n = All THEN model.layers ELSE n)' =
        Estimate(c, IF n = All THEN model.layers ELSE n)
  BY <1>1 DEF Estimate, PerLayer, n, Planned, Known, Lesser
<1>6. KeepsToLimits'
  <2>1. Known' = Known /\ Automatic' = Automatic /\ CtxFloor' = CtxFloor
    BY <1>1 DEF Known, Automatic, CtxFloor, Lesser
  <2>2. Estimate(ctx, IF layers = All THEN model.layers ELSE layers)' =
          Estimate(c, IF n = All THEN model.layers ELSE n)
    BY <1>1 DEF Estimate, PerLayer
  <2> QED BY <1>1, <1>2, <2>1, <2>2 DEF KeepsToLimits
<1> QED BY <1>3, <1>4, <1>6 DEF LoadInv

LEMMA StepDownSheds ==
  ASSUME Inputs, LoadTypes, layers # 0
  PROVE  /\ StepDown \in Nat
         /\ Known => StepDown < (IF layers = All THEN model.layers ELSE layers)
<1> DEFINE now == IF layers = All THEN model.layers ELSE layers
<1>1. CASE Known
  <2>a. layers \in Nat \cup {All}
    BY DEF LoadTypes
  <2>b. model.layers \in Nat /\ model.layers > 0
    BY <1>1 DEF Inputs, Known
  <2>1. layers \in Nat \cup {All} /\ model.layers \in Nat \ {0}
    BY <2>a, <2>b
  <2>2. now \in Nat \ {0}
    BY <2>1 DEF All
  <2>3. StepDown = Lesser((7 * now) \div 10, now - 1)
    BY <1>1 DEF StepDown
  <2> HIDE DEF now
  <2>4. (7 * now) \div 10 \in Nat /\ now - 1 \in Nat
    BY <2>2
  <2>5. StepDown \in Nat /\ StepDown < now
    BY <2>2, <2>3, <2>4 DEF Lesser
  <2> QED BY <2>5 DEF now
<1>2. CASE ~Known
  BY <1>2 DEF StepDown
<1> QED BY <1>1, <1>2

LEMMA LoweredIsLess ==
  ASSUME Inputs, LoadTypes, ctx > CtxFloor
  PROVE  Lowered \in Nat /\ Lowered >= CtxFloor /\ Lowered <= ctx
<1>0. ctx \in Nat
  BY DEF LoadTypes
<1>1. ctx \div 2 \in Nat /\ ctx \div 2 <= ctx
  BY <1>0
<1>2. ((ctx \div 2) \div Block) \in Nat /\ ((ctx \div 2) \div Block) * Block <= ctx \div 2
  BY <1>1, SizesTyped, DivBounds
<1>3. ((ctx \div 2) \div Block) * Block \in Nat
  BY <1>2, SizesTyped
<1>4. CtxFloor \in Nat
  BY FloorIsLeast
<1> QED BY <1>0, <1>1, <1>2, <1>3, <1>4 DEF Lowered

LEMMA LoadStep == LoadInv /\ [GgufNext]_ggufVars => LoadInv'
<1> SUFFICES ASSUME LoadInv, [GgufNext]_ggufVars PROVE LoadInv'
  OBVIOUS
<1>0. Inputs /\ LoadTypes /\ Searching /\ KeepsToLimits
  BY DEF LoadInv
<1>a. /\ CtxFloor \in Nat \ {0} /\ CtxFloor <= MinAutoCtx
      /\ model.native > 0 => CtxFloor <= model.native
      /\ CtxFloor \in {MinAutoCtx, model.native}
  BY <1>0, FloorIsLeast
<1>b. model.native \in Nat /\ request.ctx \in Nat /\ ctx \in Nat /\ high \in Nat
  BY <1>0 DEF Inputs, LoadTypes
<1>c. MaxLoadAttempts \in Nat /\ tries \in Nat /\ tries <= MaxLoadAttempts
  <2>1. MaxLoadAttempts \in Nat /\ tries \in 0..MaxLoadAttempts
    BY <1>0, GgufAssumption DEF LoadTypes
  <2> QED BY <2>1
<1>1. CASE Plans
  <2> DEFINE c == IF Automatic THEN AutoCtx ELSE request.ctx
  <2>1. PlanWith(c) /\ tries = 0
    BY <1>0, <1>1 DEF Plans, LoadTypes
  <2>2. c \in Nat \ {0} /\ (~Automatic => c = request.ctx)
    BY <1>a, <1>b, SizesTyped DEF AutoCtx, Automatic, Known
  <2>3. Automatic => c >= CtxFloor /\ (Known /\ model.native > 0 => c <= model.native)
    BY <1>a, <1>b, SizesTyped DEF AutoCtx, Known
  <2> HIDE DEF c
  <2> QED BY <1>0, <2>1, <2>2, <2>3, PlanWithKeeps
<1>2. CASE SearchBegins
  <2> DEFINE lo == CtxFloor \div Block
             hi == model.native \div Block
  <2>1. /\ stage' = "search" /\ ctx' = lo /\ high' = hi /\ tries' = tries /\ tries = 0
        /\ layers' = layers /\ model' = model /\ request' = request /\ free' = free /\ Fitted
    BY <1>0, <1>2 DEF SearchBegins, chosen, LoadTypes
  <2>2. CtxFloor = MinAutoCtx /\ CtxFloor <= model.native
    BY <1>a, <2>1 DEF Fitted
  <2>3. lo \in Nat /\ lo * Block = CtxFloor
    BY <2>2, SizesTyped
  <2>4. hi \in Nat /\ hi * Block <= model.native
    BY <1>b, SizesTyped, DivBounds
  <2>5. lo <= hi
    BY <1>b, <2>2, <2>3, SizesTyped, DivReaches
  <2> HIDE DEF lo, hi
  <2>6. Fitted' = Fitted /\ CtxFloor' = CtxFloor
    BY <2>1 DEF Fitted, Automatic, Known, AllFit, Estimate, PerLayer, CtxFloor, Lesser
  <2>7. AllFit(ctx * Block)'
    BY <2>1, <2>3 DEF Fitted, AllFit, Estimate, PerLayer
  <2>8. Searching'
    BY <2>1, <2>3, <2>4, <2>5, <2>6, <2>7, <1>a DEF Searching
  <2>9. Inputs' /\ LoadTypes'
    BY <1>0, <2>1, <2>3, <2>4 DEF Inputs, LoadTypes
  <2> QED BY <2>1, <2>8, <2>9 DEF LoadInv, KeepsToLimits
<1>3. CASE SearchHalves
  <2> DEFINE mid == (ctx + high) \div 2
  <2>1. /\ stage' = "search" /\ tries' = tries /\ stage = "search" /\ layers' = layers
        /\ model' = model /\ request' = request /\ free' = free /\ high - ctx > 1
    BY <1>3 DEF SearchHalves, chosen
  <2>2. mid \in Nat /\ ctx < mid /\ mid < high
    BY <1>b, <2>1
  <2>3. \/ AllFit(mid * Block) /\ ctx' = mid /\ high' = high
        \/ high' = mid /\ ctx' = ctx
    BY <1>3 DEF SearchHalves
  <2> HIDE DEF mid
  <2>4. /\ Fitted /\ AllFit(ctx * Block) /\ CtxFloor <= ctx * Block
        /\ high * Block <= model.native
    BY <1>0, <2>1 DEF Searching
  <2>5. Fitted' = Fitted /\ CtxFloor' = CtxFloor
    BY <2>1 DEF Fitted, Automatic, Known, AllFit, Estimate, PerLayer, CtxFloor, Lesser
  <2>6. /\ ctx * Block <= mid * Block /\ mid * Block <= high * Block
        /\ ctx * Block \in Nat /\ mid * Block \in Nat /\ high * Block \in Nat
    BY <1>b, <2>2, SizesTyped, MulGrows
  <2>7. AllFit(ctx * Block)'
    BY <2>1, <2>3, <2>4 DEF AllFit, Estimate, PerLayer
  <2>8. Searching'
    BY <1>a, <1>b, <2>1, <2>2, <2>3, <2>4, <2>5, <2>6, <2>7 DEF Searching
  <2>9. Inputs' /\ LoadTypes'
    BY <1>0, <1>b, <2>1, <2>2, <2>3 DEF Inputs, LoadTypes
  <2> QED BY <2>1, <2>8, <2>9 DEF LoadInv, KeepsToLimits
<1>4. CASE SearchEnds
  <2>1. PlanWith(ctx * Block) /\ stage = "search" /\ tries = 0
    BY <1>0, <1>4 DEF SearchEnds, LoadTypes
  <2>2. /\ Automatic /\ ctx <= high /\ CtxFloor <= ctx * Block
        /\ high * Block <= model.native
    BY <1>0, <2>1 DEF Searching, Fitted
  <2>3. ctx * Block \in Nat /\ high * Block \in Nat /\ ctx * Block <= high * Block
    BY <1>b, <2>2, SizesTyped, MulGrows
  <2>4. ctx * Block \in Nat \ {0} /\ ctx * Block <= model.native
    BY <1>a, <1>b, <2>2, <2>3
  <2>5. ctx * Block >= CtxFloor
    BY <1>a, <2>2, <2>3
  <2> QED BY <1>0, <2>1, <2>2, <2>4, <2>5, PlanWithKeeps
<1>5. CASE LoadReturns \/ GivesUp
  <2>1. /\ ctx' = ctx /\ layers' = layers /\ high' = high /\ model' = model
        /\ request' = request /\ free' = free /\ stage = "try"
        /\ stage' \in {"loaded", "broken", "out of memory"}
        /\ tries' = tries \/ (tries < MaxLoadAttempts /\ tries' = tries + 1)
    BY <1>5 DEF LoadReturns, GivesUp, chosen
  <2>a. tries' \in 0..MaxLoadAttempts /\ (tries' = 0 => tries = 0)
    <3>1. tries' = tries \/ (tries < MaxLoadAttempts /\ tries' = tries + 1)
      BY <2>1
    <3> QED BY <1>c, <3>1
  <2>2. Inputs' /\ LoadTypes' /\ Searching'
    BY <1>0, <2>1, <2>a DEF Inputs, LoadTypes, Searching
  <2>3. Known' = Known /\ Automatic' = Automatic /\ CtxFloor' = CtxFloor
    BY <2>1 DEF Known, Automatic, CtxFloor, Lesser
  <2>4. Estimate(ctx, IF layers = All THEN model.layers ELSE layers)' =
          Estimate(ctx, IF layers = All THEN model.layers ELSE layers)
    BY <2>1 DEF Estimate, PerLayer
  <2>6. KeepsToLimits'
    BY <1>0, <2>1, <2>3, <2>4, <2>a DEF KeepsToLimits
  <2> QED BY <2>2, <2>6 DEF LoadInv
<1>6. CASE LowersCtx \/ ShedsLayers
  <2>1. /\ high' = high /\ model' = model /\ request' = request /\ free' = free
        /\ stage = "try" /\ stage' = "try" /\ tries < MaxLoadAttempts /\ tries' = tries + 1
    BY <1>6 DEF LowersCtx, ShedsLayers, chosen
  <2>2. \/ Automatic /\ ctx > CtxFloor /\ ctx' = Lowered /\ layers' = layers
        \/ /\ ctx' = ctx /\ layers # 0 /\ layers' \in {StepDown, 0}
    BY <1>6 DEF LowersCtx, ShedsLayers
  <2>3. /\ ctx' \in Nat /\ (~Automatic => ctx' = ctx)
        /\ ctx >= CtxFloor => ctx' >= CtxFloor /\ ctx' <= ctx
    BY <1>0, <1>a, <1>b, <2>2, LoweredIsLess
  <2>4. layers' \in Nat \cup {All}
    <3>1. layers \in Nat \cup {All}
      BY <1>0 DEF LoadTypes
    <3>2. layers # 0 => StepDown \in Nat
      BY <1>0, StepDownSheds
    <3> QED BY <2>2, <3>1, <3>2
  <2>5. Inputs' /\ LoadTypes' /\ Searching'
    BY <1>0, <2>1, <2>3, <2>4, GgufAssumption DEF Inputs, LoadTypes, Searching
  <2>6. Known' = Known /\ Automatic' = Automatic /\ CtxFloor' = CtxFloor /\ tries' # 0
    BY <1>0, <2>1 DEF Known, Automatic, CtxFloor, Lesser, LoadTypes
  <2>7. /\ Known /\ request.layers \in 0..model.layers => layers' \in All..request.layers
        /\ Known /\ request.layers \in 0..model.layers - 1 => layers' >= 0
    <3>1. /\ layers \in Nat \cup {All}
          /\ Known /\ request.layers \in 0..model.layers => layers \in All..request.layers
          /\ Known /\ request.layers \in 0..model.layers - 1 => layers >= 0
      BY <1>0, <2>1 DEF LoadTypes, KeepsToLimits
    <3>2. CASE layers' = layers
      BY <3>1, <3>2
    <3>3. CASE layers # 0 /\ layers' \in {StepDown, 0}
      <4>1. /\ layers' \in Nat /\ model.layers \in Nat
            /\ Known => layers' < (IF layers = All THEN model.layers ELSE layers)
        BY <1>0, <3>1, <3>3, StepDownSheds DEF Inputs, Known, All
      <4> QED BY <3>1, <4>1 DEF All
    <3> QED BY <2>2, <3>2, <3>3
  <2>8. KeepsToLimits'
    BY <1>0, <1>a, <1>b, <2>1, <2>3, <2>6, <2>7 DEF KeepsToLimits
  <2> QED BY <2>5, <2>8 DEF LoadInv
<1>7. CASE UNCHANGED ggufVars
  <2>1. /\ model' = model /\ request' = request /\ free' = free /\ stage' = stage
        /\ ctx' = ctx /\ high' = high /\ layers' = layers /\ tries' = tries
    BY <1>7 DEF ggufVars
  <2>2. Inputs' /\ LoadTypes'
    BY <1>0, <2>1 DEF Inputs, LoadTypes
  <2>3. Known' = Known /\ Automatic' = Automatic /\ CtxFloor' = CtxFloor
    BY <2>1 DEF Known, Automatic, CtxFloor
  <2>4. \A c : AllFit(c)' = AllFit(c) /\ Estimate(c, layers)' = Estimate(c, layers)
    BY <2>1 DEF AllFit, Estimate, PerLayer
  <2>5. Fitted' = Fitted
    BY <2>1, <2>3, <2>4 DEF Fitted
  <2>6. Searching'
    BY <1>0, <2>1, <2>3, <2>4, <2>5, Zenon DEF Searching
  <2>7. KeepsToLimits'
    BY <1>0, <2>1, <2>3, <2>4, Zenon DEF KeepsToLimits
  <2> QED BY <2>2, <2>6, <2>7 DEF LoadInv
<1> QED BY <1>1, <1>2, <1>3, <1>4, <1>5, <1>6, <1>7 DEF GgufNext

LEMMA LoadInvariance == GgufSpec => []LoadInv
  BY LoadInit, LoadStep, PTL DEF GgufSpec

(* A load keeps to what was asked for (llama_loader.py load_llama_gguf):   *)
(* the context as given, or between its floor and the native one; no more  *)
(* layers than given; and first what fits by the estimate.                 *)
THEOREM LoadKeepsToLimits == GgufSpec => []KeepsToLimits
<1>1. LoadInv => KeepsToLimits
  BY DEF LoadInv
<1> QED BY <1>1, LoadInvariance, PTL

(* Every variable of a load has its type.                                  *)
THEOREM LoadIsTyped == GgufSpec => []GgufTypeOK
<1>1. LoadInv => GgufTypeOK
  BY DEF LoadInv, Inputs, LoadTypes, GgufTypeOK
<1> QED BY <1>1, LoadInvariance, PTL

-----------------------------------------------------------------------------
(* Giving up.                                                              *)

(* Attempts are left as long as there are layers to take off the GPU.      *)
Attempts ==
  stage = "try" =>
    tries < MaxLoadAttempts /\ (tries = MaxLoadAttempts - 1 => layers = 0)

LEMMA AttemptsStep == LoadInv /\ Attempts /\ [GgufNext]_ggufVars => Attempts'
<1> SUFFICES ASSUME LoadInv, Attempts, [GgufNext]_ggufVars, stage' = "try"
             PROVE  tries' < MaxLoadAttempts /\ (tries' = MaxLoadAttempts - 1 => layers' = 0)
  BY DEF Attempts
<1>0. MaxLoadAttempts \in Nat \ {0, 1} /\ tries \in Nat
  <2>1. MaxLoadAttempts \in Nat \ {0, 1} /\ tries \in 0..MaxLoadAttempts
    BY GgufAssumption DEF LoadInv, LoadTypes
  <2> QED BY <2>1
<1>1. CASE Plans \/ SearchEnds
  <2>1. tries' = tries /\ stage \in {"plan", "search"}
    BY <1>1 DEF Plans, SearchEnds, PlanWith
  <2>2. tries' = 0
    BY <2>1 DEF LoadInv, LoadTypes
  <2> QED BY <1>0, <2>2
<1>2. CASE SearchBegins \/ SearchHalves \/ LoadReturns \/ GivesUp
  BY <1>2 DEF SearchBegins, SearchHalves, LoadReturns, GivesUp
<1>3. CASE LowersCtx
  <2>1. tries' = tries + 1 /\ tries + 1 < MaxLoadAttempts - 1
    BY <1>3 DEF LowersCtx, TriesLeft
  <2> QED BY <1>0, <2>1
<1>4. CASE ShedsLayers
  <2>1. stage = "try" /\ layers # 0 /\ tries' = tries + 1
    BY <1>4 DEF ShedsLayers
  <2>2. TriesLeft \/ layers' = 0
    BY <1>4 DEF ShedsLayers
  <2>3. tries < MaxLoadAttempts /\ tries # MaxLoadAttempts - 1
    BY <2>1 DEF Attempts
  <2>4. tries + 1 < MaxLoadAttempts - 1 \/ layers' = 0
    BY <2>2 DEF TriesLeft
  <2> QED BY <1>0, <2>1, <2>3, <2>4
<1>5. CASE UNCHANGED ggufVars
  BY <1>5 DEF ggufVars, Attempts
<1> QED BY <1>1, <1>2, <1>3, <1>4, <1>5 DEF GgufNext

(* A load never stops for lack of attempts: the CPU is tried before        *)
(* (llama_loader.py:291).                                                  *)
THEOREM AttemptsSuffice == GgufSpec => [](stage = "try" => tries < MaxLoadAttempts)
<1>1. GgufInit => Attempts
  BY DEF GgufInit, Attempts
<1>2. Attempts => (stage = "try" => tries < MaxLoadAttempts)
  BY DEF Attempts
<1> QED BY <1>1, <1>2, AttemptsStep, LoadInvariance, PTL DEF GgufSpec

(* What halving once does to a bound on the context.                       *)
LEMMA HalfOfProduct ==
  ASSUME NEW c \in Nat, NEW h \in Nat, NEW p \in Nat, NEW r \in Nat,
         h * 2 <= c, c * p <= r
  PROVE  h * (2 * p) <= r
<1>1. (h * 2) * p <= c * p
  BY MulGrows
<1>2. (h * 2) * p = h * (2 * p)
  OBVIOUS
<1>3. h * (2 * p) \in Nat /\ c * p \in Nat
  OBVIOUS
<1> QED BY <1>1, <1>2, <1>3

LEMMA Cancels ==
  ASSUME NEW a \in Nat, NEW b \in Nat, NEW p \in Nat \ {0}, a * p <= b * p
  PROVE  a <= b
<1> SUFFICES ASSUME b + 1 <= a PROVE FALSE
  OBVIOUS
<1>1. (b + 1) * p <= a * p
  BY MulGrows
<1>2. (b + 1) * p = b * p + p
  OBVIOUS
<1>3. b * p \in Nat /\ a * p \in Nat
  OBVIOUS
<1> QED BY <1>1, <1>2, <1>3

(* The halvings the attempts leave room for bring every automatic context  *)
(* to its floor: 64 times MIN_AUTO_CTX, in six halvings, in the code.      *)
Enough(Twofold) ==
  /\ Twofold \in [0..MaxLoadAttempts - 2 -> Nat \ {0}]
  /\ Twofold[0] = 1
  /\ \A k \in 0..MaxLoadAttempts - 3 : Twofold[k + 1] = 2 * Twofold[k]
  /\ \A n \in Natives : n <= Twofold[MaxLoadAttempts - 2] * MinAutoCtx
  /\ MinAutoCtx < Twofold[MaxLoadAttempts - 2] * Block

(* A context above its floor has been halved at every attempt, and          *)
(* attempts to halve it are left.                                           *)
Halved(Twofold) ==
  stage = "try" /\ Automatic /\ ctx > CtxFloor =>
    /\ tries \in 0..MaxLoadAttempts - 3
    /\ ctx * Twofold[tries] <= Twofold[MaxLoadAttempts - 2] * MinAutoCtx
    /\ 0 < model.native /\ model.native < MinAutoCtx => ctx * Twofold[tries] <= MinAutoCtx

GivenUp == stage = "out of memory" => layers = 0 /\ (Automatic => ctx = CtxFloor)

LEMMA AttemptsToHalve ==
  ASSUME NEW Twofold, Enough(Twofold)
  PROVE  /\ MaxLoadAttempts \in Nat /\ MaxLoadAttempts >= 3
         /\ \A k \in 0..MaxLoadAttempts - 2 : Twofold[k] \in Nat \ {0}
<1>1. MaxLoadAttempts \in Nat \ {0, 1} /\ MinAutoCtx % Block = 0
  BY GgufAssumption
<1>2. \A k \in 0..MaxLoadAttempts - 2 : Twofold[k] \in Nat \ {0}
  BY DEF Enough
<1>3. MaxLoadAttempts # 2
  <2> SUFFICES ASSUME MaxLoadAttempts = 2 PROVE FALSE
    OBVIOUS
  <2>1. Twofold[MaxLoadAttempts - 2] = 1 /\ MinAutoCtx < Twofold[MaxLoadAttempts - 2] * Block
    BY DEF Enough
  <2>2. MinAutoCtx < Block
    BY <2>1, SizesTyped
  <2>3. MinAutoCtx % Block = MinAutoCtx
    BY <2>2, SizesTyped
  <2> QED BY <1>1, <2>3, SizesTyped
<1> QED BY <1>1, <1>2, <1>3

LEMMA HalvingIsLeft ==
  ASSUME NEW Twofold, Enough(Twofold), tries \in 0..MaxLoadAttempts - 3
  PROVE  TriesLeft
<1>1. MaxLoadAttempts \in Nat
  BY AttemptsToHalve
<1> QED BY <1>1 DEF TriesLeft

LEMMA PlanIsUnhalved ==
  ASSUME NEW Twofold, Enough(Twofold), Inputs, tries = 0,
         NEW c \in Nat, PlanWith(c), c <= CtxFloor \/ c = MinAutoCtx \/ c <= model.native
  PROVE  Halved(Twofold)'
<1>1. /\ ctx' = c /\ tries' = 0 /\ model' = model /\ request' = request /\ CtxFloor' = CtxFloor
  BY DEF PlanWith, chosen, CtxFloor, Lesser
<1> SUFFICES ASSUME c > CtxFloor
             PROVE  /\ 0 \in 0..MaxLoadAttempts - 3
                    /\ c * Twofold[0] <= Twofold[MaxLoadAttempts - 2] * MinAutoCtx
                    /\ 0 < model.native /\ model.native < MinAutoCtx =>
                         c * Twofold[0] <= MinAutoCtx
  BY <1>1 DEF Halved
<1> DEFINE top == Twofold[MaxLoadAttempts - 2]
<1>2. MaxLoadAttempts - 2 \in 0..MaxLoadAttempts - 2 /\ 0 \in 0..MaxLoadAttempts - 3
  BY AttemptsToHalve
<1>3. top \in Nat \ {0} /\ c * Twofold[0] = c
  <2>1. Twofold[0] = 1
    BY DEF Enough
  <2>2. top \in Nat \ {0}
    BY <1>2, AttemptsToHalve
  <2> QED BY <2>1, <2>2
<1>4. /\ model.native \in Nat /\ CtxFloor \in Nat
      /\ model.native > 0 => CtxFloor <= model.native
      /\ CtxFloor \in {MinAutoCtx, model.native}
  BY FloorIsLeast DEF Inputs
<1>5. model.native <= top * MinAutoCtx
  BY DEF Enough, Inputs
<1>6. top * MinAutoCtx \in Nat /\ MinAutoCtx <= top * MinAutoCtx
  <2>1. 1 * MinAutoCtx <= top * MinAutoCtx
    BY <1>3, SizesTyped, MulGrows
  <2>2. top * MinAutoCtx \in Nat
    BY <1>3, SizesTyped
  <2> QED BY <2>1, <2>2, SizesTyped
<1>7. c <= top * MinAutoCtx
  BY <1>4, <1>5, <1>6, SizesTyped
<1>8. 0 < model.native /\ model.native < MinAutoCtx => c <= MinAutoCtx
  BY <1>4, SizesTyped
<1> HIDE DEF top
<1> QED BY <1>2, <1>3, <1>7, <1>8 DEF top

(* Halving once more: on the last halving the context reaches its floor.   *)
LEMMA HalvesAgain ==
  ASSUME NEW Twofold, Enough(Twofold), Inputs, LoadTypes, Halved(Twofold), LowersCtx
  PROVE  Halved(Twofold)'
<1> DEFINE h == ((ctx \div 2) \div Block) * Block
           top == Twofold[MaxLoadAttempts - 2]
<1>1. /\ stage = "try" /\ Automatic /\ ctx > CtxFloor /\ ctx' = Lowered
      /\ tries' = tries + 1 /\ model' = model /\ request' = request /\ CtxFloor' = CtxFloor
  BY DEF LowersCtx, chosen, CtxFloor, Lesser
<1>2. /\ tries \in 0..MaxLoadAttempts - 3 /\ ctx * Twofold[tries] <= top * MinAutoCtx
      /\ 0 < model.native /\ model.native < MinAutoCtx => ctx * Twofold[tries] <= MinAutoCtx
  BY <1>1 DEF Halved
<1>3. ctx \in Nat /\ model.native \in Nat
  BY DEF Inputs, LoadTypes
<1>4. h \in Nat /\ h * 2 <= ctx
  <2>1. ctx \div 2 \in Nat /\ (ctx \div 2) * 2 <= ctx
    BY <1>3
  <2>2. (ctx \div 2) \div Block \in Nat /\ h <= ctx \div 2
    BY <2>1, SizesTyped, DivBounds
  <2>3. h \in Nat
    BY <2>2, SizesTyped
  <2> HIDE DEF h
  <2> QED BY <1>3, <2>1, <2>2, <2>3
<1>5. /\ CtxFloor \in Nat /\ CtxFloor \in {MinAutoCtx, model.native}
      /\ (model.native = 0 \/ model.native >= MinAutoCtx) => CtxFloor = MinAutoCtx
  BY <1>3, FloorIsLeast, SizesTyped DEF CtxFloor, Lesser
<1>6. MaxLoadAttempts \in Nat /\ MaxLoadAttempts >= 3 /\ tries \in Nat
  BY <1>2, AttemptsToHalve
<1>7. Twofold[tries] \in Nat \ {0} /\ top \in Nat \ {0}
  <2>1. tries \in 0..MaxLoadAttempts - 2 /\ MaxLoadAttempts - 2 \in 0..MaxLoadAttempts - 2
    BY <1>2, <1>6
  <2> QED BY <2>1, AttemptsToHalve
<1>8. Twofold[tries + 1] = 2 * Twofold[tries]
  BY <1>2 DEF Enough
<1>9. top * MinAutoCtx \in Nat
  BY <1>7, SizesTyped
<1> SUFFICES ASSUME h > CtxFloor, ctx' = h
             PROVE  /\ tries + 1 \in 0..MaxLoadAttempts - 3
                    /\ h * (2 * Twofold[tries]) <= top * MinAutoCtx
                    /\ 0 < model.native /\ model.native < MinAutoCtx =>
                         h * (2 * Twofold[tries]) <= MinAutoCtx
  <2>1. ctx' = IF h > CtxFloor THEN h ELSE CtxFloor
    BY <1>1 DEF Lowered
  <2>2. ctx' > CtxFloor => h > CtxFloor /\ ctx' = h
    BY <1>5, <2>1
  <2> HIDE DEF h
  <2> QED BY <1>1, <1>8, <2>2 DEF Halved
<1>10. tries # MaxLoadAttempts - 3
  <2> SUFFICES ASSUME tries = MaxLoadAttempts - 3 PROVE FALSE
    OBVIOUS
  <2>1. tries + 1 = MaxLoadAttempts - 2
    BY <1>6
  <2>2. top = 2 * Twofold[tries]
    BY <1>8, <2>1
  <2>3. CASE 0 < model.native /\ model.native < MinAutoCtx
    <3>1. ctx * Twofold[tries] < (2 * Block) * Twofold[tries]
      <4>1. MinAutoCtx < top * Block
        BY DEF Enough
      <4>2. top * Block = (2 * Block) * Twofold[tries]
        BY <1>7, <2>2, SizesTyped
      <4>3. ctx * Twofold[tries] \in Nat /\ (2 * Block) * Twofold[tries] \in Nat
        BY <1>3, <1>7, SizesTyped
      <4> QED BY <1>2, <2>3, <4>1, <4>2, <4>3, SizesTyped
    <3>2. ctx < 2 * Block
      <4> SUFFICES ASSUME 2 * Block <= ctx PROVE FALSE
        BY <1>3, SizesTyped
      <4>1. (2 * Block) * Twofold[tries] <= ctx * Twofold[tries]
        BY <1>3, <1>7, SizesTyped, MulGrows
      <4>2. ctx * Twofold[tries] \in Nat /\ (2 * Block) * Twofold[tries] \in Nat
        BY <1>3, <1>7, SizesTyped
      <4> QED BY <3>1, <4>1, <4>2
    <3>3. (ctx \div 2) \div Block = 0
      <4>1. ctx \div 2 \in Nat /\ ctx \div 2 < Block
        BY <1>3, <3>2, SizesTyped
      <4> QED BY <4>1, SizesTyped
    <3>4. h = 0
      BY <3>3, SizesTyped
    <3> HIDE DEF h
    <3> QED BY <1>5, <3>4
  <2>4. CASE model.native = 0 \/ model.native >= MinAutoCtx
    <3>1. CtxFloor = MinAutoCtx
      BY <1>5, <2>4
    <3>2. top * MinAutoCtx = (2 * MinAutoCtx) * Twofold[tries]
      BY <1>7, <2>2, SizesTyped
    <3>3. ctx <= 2 * MinAutoCtx
      <4>1. ctx * Twofold[tries] <= (2 * MinAutoCtx) * Twofold[tries]
        BY <1>2, <3>2
      <4> QED BY <1>3, <1>7, <4>1, SizesTyped, Cancels
    <3> HIDE DEF h
    <3> QED BY <1>3, <1>4, <3>1, <3>3, SizesTyped
  <2> QED BY <1>3, <2>3, <2>4, SizesTyped
<1>11. tries + 1 \in 0..MaxLoadAttempts - 3
  BY <1>2, <1>6, <1>10
<1> HIDE DEF h, top
<1>12. h * (2 * Twofold[tries]) <= top * MinAutoCtx
  BY <1>2, <1>3, <1>4, <1>7, <1>9, HalfOfProduct
<1>13. 0 < model.native /\ model.native < MinAutoCtx => h * (2 * Twofold[tries]) <= MinAutoCtx
  BY <1>2, <1>3, <1>4, <1>7, SizesTyped, HalfOfProduct
<1> QED BY <1>11, <1>12, <1>13

LEMMA HalvedStep ==
  ASSUME NEW Twofold, Enough(Twofold), LoadInv, Halved(Twofold), [GgufNext]_ggufVars
  PROVE  Halved(Twofold)'
<1>0. Inputs /\ LoadTypes /\ Searching
  BY DEF LoadInv
<1>a. /\ CtxFloor \in Nat \ {0} /\ model.native \in Nat /\ ctx \in Nat /\ high \in Nat
      /\ request.ctx \in Nat
  BY <1>0, FloorIsLeast DEF Inputs, LoadTypes
<1>1. CASE Plans
  <2>1. CASE Automatic
    <3>1. PlanWith(AutoCtx) /\ tries = 0
      BY <1>0, <1>1, <2>1 DEF Plans, LoadTypes
    <3>2. AutoCtx \in {MinAutoCtx, CtxFloor, model.native}
      BY DEF AutoCtx
    <3>3. PICK c \in {MinAutoCtx, CtxFloor, model.native} : c = AutoCtx
      BY <3>2
    <3>4. c \in Nat /\ (c <= CtxFloor \/ c = MinAutoCtx \/ c <= model.native)
      BY <1>a, SizesTyped
    <3> QED BY <1>0, <3>1, <3>3, <3>4, PlanIsUnhalved
  <2>2. CASE ~Automatic
    <3>1. ~Automatic'
      BY <1>1, <2>2 DEF Plans, PlanWith, chosen, Automatic
    <3> QED BY <3>1 DEF Halved
  <2> QED BY <2>1, <2>2
<1>2. CASE SearchEnds
  <2>1. PlanWith(ctx * Block) /\ tries = 0 /\ stage = "search"
    BY <1>0, <1>2 DEF SearchEnds, LoadTypes
  <2>2. ctx <= high /\ high * Block <= model.native
    BY <1>0, <2>1 DEF Searching
  <2>3. PICK c \in Nat : c = ctx * Block
    BY <1>a, SizesTyped
  <2>4. ctx * Block <= high * Block /\ high * Block \in Nat
    BY <1>a, <2>2, SizesTyped, MulGrows
  <2>5. c <= model.native
    BY <1>a, <2>2, <2>3, <2>4
  <2> QED BY <1>0, <2>1, <2>3, <2>5, PlanIsUnhalved
<1>3. CASE SearchBegins \/ SearchHalves \/ LoadReturns \/ GivesUp
  <2>1. stage' # "try"
    BY <1>3 DEF SearchBegins, SearchHalves, LoadReturns, GivesUp
  <2> QED BY <2>1 DEF Halved
<1>4. CASE LowersCtx
  BY <1>0, <1>4, HalvesAgain
<1>5. CASE ShedsLayers
  <2>1. /\ stage = "try" /\ ~(Automatic /\ ctx > CtxFloor /\ TriesLeft)
        /\ ctx' = ctx /\ model' = model /\ request' = request
    BY <1>5 DEF ShedsLayers, chosen
  <2>2. Automatic' = Automatic /\ CtxFloor' = CtxFloor
    BY <2>1 DEF Automatic, CtxFloor, Lesser
  <2>3. Automatic /\ ctx > CtxFloor => TriesLeft
    <3>1. Automatic /\ ctx > CtxFloor => tries \in 0..MaxLoadAttempts - 3
      BY <2>1 DEF Halved
    <3> QED BY <3>1, HalvingIsLeft
  <2> QED BY <2>1, <2>2, <2>3 DEF Halved
<1>6. CASE UNCHANGED ggufVars
  BY <1>6 DEF ggufVars, Halved, Automatic, CtxFloor, Lesser
<1> QED BY <1>1, <1>2, <1>3, <1>4, <1>5, <1>6 DEF GgufNext

LEMMA Squeezed ==
  ASSUME NEW a \in Nat, NEW b \in Nat, a >= b, ~(a > b)
  PROVE  a = b
  OBVIOUS

LEMMA GivenUpStep ==
  ASSUME NEW Twofold, Enough(Twofold), LoadInv, Halved(Twofold), GivenUp, [GgufNext]_ggufVars
  PROVE  GivenUp'
<1> SUFFICES ASSUME stage' = "out of memory"
             PROVE  layers' = 0 /\ (Automatic' => ctx' = CtxFloor')
  BY DEF GivenUp
<1>1. CASE GivesUp
  <2>1. /\ stage = "try" /\ ~(Automatic /\ ctx > CtxFloor /\ TriesLeft) /\ layers = 0
        /\ layers' = layers /\ ctx' = ctx /\ model' = model /\ request' = request
    BY <1>1 DEF GivesUp, chosen
  <2>2. Automatic' = Automatic /\ CtxFloor' = CtxFloor
    BY <2>1 DEF Automatic, CtxFloor, Lesser
  <2>3. Automatic => ~(ctx > CtxFloor)
    <3>1. Automatic /\ ctx > CtxFloor => tries \in 0..MaxLoadAttempts - 3
      BY <2>1 DEF Halved
    <3> QED BY <2>1, <3>1, HalvingIsLeft
  <2>4. Automatic => ctx >= CtxFloor
    BY <2>1 DEF LoadInv, KeepsToLimits
  <2>5. ctx \in Nat /\ CtxFloor \in Nat
    BY FloorIsLeast DEF LoadInv, LoadTypes
  <2>6. ctx >= CtxFloor /\ ~(ctx > CtxFloor) => ctx = CtxFloor
    BY <2>5, Squeezed
  <2>7. layers' = 0 /\ ctx' = ctx
    BY <2>1
  <2> QED BY <2>2, <2>3, <2>4, <2>6, <2>7
<1>2. CASE UNCHANGED ggufVars
  BY <1>2 DEF ggufVars, GivenUp, Automatic, CtxFloor, Lesser
<1>3. CASE Plans \/ SearchBegins \/ SearchHalves \/ SearchEnds
  BY <1>3 DEF Plans, SearchBegins, SearchHalves, SearchEnds, PlanWith
<1>4. CASE LoadReturns \/ LowersCtx \/ ShedsLayers
  BY <1>4 DEF LoadReturns, LowersCtx, ShedsLayers
<1> QED BY <1>1, <1>2, <1>3, <1>4 DEF GgufNext

(* Memory is given up on only with every layer on the CPU and an automatic *)
(* context at its floor, and never for lack of attempts                    *)
(* (llama_loader.py load_llama_gguf), if the attempts are enough to halve  *)
(* the largest native context down to MIN_AUTO_CTX.                        *)
THEOREM GivingUpIsLast ==
  ASSUME NEW Twofold, Enough(Twofold)
  PROVE  GgufSpec => []LastResort
<1> DEFINE Inv == LoadInv /\ Attempts /\ Halved(Twofold) /\ GivenUp
<1>1. GgufInit => Inv
  BY LoadInit DEF GgufInit, Attempts, Halved, GivenUp
<1>2. Inv /\ [GgufNext]_ggufVars => Inv'
  BY LoadStep, AttemptsStep, HalvedStep, GivenUpStep
<1>3. Inv => LastResort
  BY DEF Attempts, GivenUp, LastResort
<1> QED BY <1>1, <1>2, <1>3, PTL DEF GgufSpec
=============================================================================
