---------------------------- MODULE PlanCacheProofs ----------------------------
(***************************************************************************)
(* What PlanCache promises, for any number of goroutines and any types.    *)
(* PlanShared is about what a goroutine runs; it is kept only because what  *)
(* a goroutine is about to store (Compiled) is its own plan of a type that  *)
(* compiles, and because an entry, once there, is never replaced.           *)
(***************************************************************************)
EXTENDS PlanCache, TLAPS

\* What a goroutine holds when it comes to LoadOrStore.
Compiled ==
    \A g \in Goroutines :
        pc[g] = "store" => /\ plan[g] \in Plans /\ plan[g].typ = target[g]
                           /\ Compile(target[g]) = "plan"

CacheInv == CacheTypeOK /\ PlanShared /\ OnlyCompiledCached /\ Compiled

--------------------------------------------------------------------------------

\* CacheInit: the cache is empty and nobody decodes.
LEMMA InitInv == CacheInit => CacheInv
  BY PlanCacheAssumption
     DEF CacheInit, CacheInv, CacheTypeOK, PlanShared, OnlyCompiledCached, Compiled

\* A goroutine outside the cache: DecodeFast begins, is refused, or returns.
LEMMA OutsideInv ==
    ASSUME CacheInv, NEW g \in Goroutines,
           (\E t \in Types : DecodeFast(g, t)) \/ DecodeFastRefused(g) \/ Return(g)
    PROVE  CacheInv'
<1> USE DEF CacheInv
<1>1. CacheTypeOK'
  BY PlanCacheAssumption DEF CacheTypeOK, DecodeFast, DecodeFastRefused, Return, At
<1>2. PlanShared'
  BY DEF CacheTypeOK, PlanShared, DecodeFast, DecodeFastRefused, Return, At
<1>3. OnlyCompiledCached'
  BY DEF OnlyCompiledCached, DecodeFast, DecodeFastRefused, Return
<1>4. Compiled'
  BY DEF CacheTypeOK, Compiled, DecodeFast, DecodeFastRefused, Return, At
<1> QED BY <1>1, <1>2, <1>3, <1>4

\* Load: a hit is an entry of the type that was looked up.
LEMMA LoadInv ==
    ASSUME CacheInv, NEW g \in Goroutines, Load(g)
    PROVE  CacheInv'
<1> USE DEF CacheInv
<1>1. CacheTypeOK'
  BY DEF CacheTypeOK, Load, At
<1>2. PlanShared'
  BY DEF CacheTypeOK, PlanShared, OnlyCompiledCached, Load, At
<1>3. OnlyCompiledCached'
  BY DEF OnlyCompiledCached, Load
<1>4. Compiled'
  BY DEF CacheTypeOK, Compiled, Load, At
<1> QED BY <1>1, <1>2, <1>3, <1>4

\* compileDecodePlan: a plan of g's own, an error, or the end of the process.
LEMMA CompileInv ==
    ASSUME CacheInv, NEW g \in Goroutines, CompilePlan(g)
    PROVE  CacheInv'
<1> USE DEF CacheInv
<1>1. target[g] \in Types /\ pc[g] = "compile" /\ UNCHANGED <<planCache, target>>
  BY DEF CacheTypeOK, CompilePlan, At
<1>2. CASE /\ Compile(target[g]) = "plan"
           /\ plan' = [plan EXCEPT ![g] = [typ |-> target[g], by |-> g]]
           /\ pc' = [pc EXCEPT ![g] = "store"]
           /\ UNCHANGED crashed
  <2> DEFINE own == [typ |-> target[g], by |-> g]
  <2>1. own \in Plans /\ own.typ = target[g]
    BY <1>1 DEF Plans
  <2> HIDE DEF own
  <2>2. plan' = [plan EXCEPT ![g] = own]
    BY <1>2 DEF own
  <2>3. CacheTypeOK'
    BY <1>1, <1>2, <2>1, <2>2 DEF CacheTypeOK
  <2>4. PlanShared'
    BY <1>1, <1>2, <2>2 DEF CacheTypeOK, PlanShared
  <2>5. Compiled'
    BY <1>1, <1>2, <2>1, <2>2 DEF CacheTypeOK, Compiled
  <2> QED BY <1>1, <2>3, <2>4, <2>5 DEF OnlyCompiledCached
<1>3. CASE pc' = [pc EXCEPT ![g] = "failed"] /\ UNCHANGED <<plan, crashed>>
  BY <1>1, <1>3 DEF CacheTypeOK, PlanShared, OnlyCompiledCached, Compiled
<1>4. CASE crashed' = TRUE /\ UNCHANGED <<plan, pc>>
  BY <1>1, <1>4 DEF CacheTypeOK, PlanShared, OnlyCompiledCached, Compiled
<1> QED BY <1>2, <1>3, <1>4 DEF CompilePlan

\* LoadOrStore: g takes the entry it finds, or makes one where there was none, so
\* that no entry changes under a goroutine that runs it.
LEMMA LoadOrStoreInv ==
    ASSUME CacheInv, NEW g \in Goroutines, LoadOrStore(g)
    PROVE  CacheInv'
<1> USE DEF CacheInv
<1>1. target[g] \in Types /\ plan[g] \in Plans /\ plan[g].typ = target[g]
      /\ Compile(target[g]) = "plan"
  BY DEF CacheTypeOK, Compiled, LoadOrStore, At
<1>2. /\ planCache'[target[g]] = plan'[g] /\ plan'[g] # NoPlan
      /\ plan'[g].typ = target[g] /\ target' = target
      /\ \A h \in Goroutines \ {g} : plan'[h] = plan[h] /\ pc'[h] = pc[h]
      /\ \A t \in Types : planCache[t] # NoPlan => planCache'[t] = planCache[t]
      /\ \A t \in Types \ {target[g]} : planCache'[t] = planCache[t]
  BY <1>1, PlanCacheAssumption DEF CacheTypeOK, OnlyCompiledCached, LoadOrStore, At
<1>3. CacheTypeOK'
  BY <1>1 DEF CacheTypeOK, LoadOrStore, At
<1>4. PlanShared'
  BY <1>1, <1>2 DEF CacheTypeOK, PlanShared, LoadOrStore, At
<1>5. OnlyCompiledCached'
  BY <1>1, <1>2 DEF OnlyCompiledCached
<1>6. Compiled'
  BY <1>2 DEF CacheTypeOK, Compiled, LoadOrStore, At
<1> QED BY <1>3, <1>4, <1>5, <1>6

\* CacheInv is inductive.
LEMMA NextInv == CacheInv /\ [CacheNext]_cacheVars => CacheInv'
<1> SUFFICES ASSUME CacheInv, [CacheNext]_cacheVars PROVE CacheInv'
  OBVIOUS
<1>1. CASE UNCHANGED cacheVars
  BY <1>1 DEF CacheInv, CacheTypeOK, PlanShared, OnlyCompiledCached, Compiled, cacheVars
<1>2. CASE CacheNext
  <2>1. PICK g \in Goroutines :
            \/ \E t \in Types : DecodeFast(g, t)
            \/ DecodeFastRefused(g) \/ Load(g) \/ CompilePlan(g) \/ LoadOrStore(g) \/ Return(g)
    BY <1>2 DEF CacheNext
  <2> QED BY <2>1, OutsideInv, LoadInv, CompileInv, LoadOrStoreInv
<1> QED BY <1>1, <1>2

LEMMA InvHolds == CacheSpec => []CacheInv
  BY InitInv, NextInv, PTL DEF CacheSpec

--------------------------------------------------------------------------------

\* Every local of decodePlanFor has its type, for any goroutines and types.
THEOREM CacheTypeCorrect == CacheSpec => []CacheTypeOK
<1>1. CacheInv => CacheTypeOK
  BY DEF CacheInv
<1> QED BY <1>1, InvHolds, PTL

\* Whatever the interleaving of the compilations, all goroutines that decode into
\* a type run the one plan that decodePlanCache holds for it.
THEOREM OnePlan == CacheSpec => []PlanShared
<1>1. CacheInv => PlanShared
  BY DEF CacheInv
<1> QED BY <1>1, InvHolds, PTL

\* decodePlanCache holds plans of types that compile, under those types.
THEOREM CacheSound == CacheSpec => []OnlyCompiledCached
<1>1. CacheInv => OnlyCompiledCached
  BY DEF CacheInv
<1> QED BY <1>1, InvHolds, PTL

\* An entry of decodePlanCache stays for good: a step that finds a plan under a
\* type leaves that plan there.
THEOREM EntriesFinal ==
    CacheSpec => [][\A t \in Types : planCache[t] # NoPlan => planCache'[t] = planCache[t]]_cacheVars
<1>1. ASSUME CacheInv, [CacheNext]_cacheVars
      PROVE  [\A t \in Types : planCache[t] # NoPlan => planCache'[t] = planCache[t]]_cacheVars
  <2>1. CASE UNCHANGED cacheVars
    BY <2>1
  <2>2. CASE CacheNext
    BY <1>1, <2>2 DEF CacheInv, CacheTypeOK, CacheNext, DecodeFast, DecodeFastRefused, Load,
                      CompilePlan, LoadOrStore, Return
  <2> QED BY <1>1, <2>1, <2>2
<1> QED BY <1>1, InvHolds, PTL DEF CacheSpec
================================================================================
