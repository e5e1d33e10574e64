------------------------------- MODULE PlanCache -------------------------------
(***************************************************************************)
(* decodePlanCache (encoding/decode_plan.go): the sync.Map of compiled decode  *)
(* plans that all goroutines share.  decodePlanFor loads, and on a miss         *)
(* compiles and calls LoadOrStore; other goroutines run between those steps.    *)
(* A plan is known by its type and the goroutine that compiled it: what it      *)
(* holds is a function of the type (Codec).                                     *)
(***************************************************************************)
CONSTANTS
    Goroutines,
    Types,           \* reflect.Type values that can be decoded into
    Compile(_),      \* how compileDecodePlan ends on a type: one of Outcomes
    NoPlan, NoType

Outcomes == {"plan", "error", "overflow"}
Plans == [typ : Types, by : Goroutines]

ASSUME PlanCacheAssumption ==
    /\ NoPlan \notin Plans /\ NoType \notin Types
    /\ \A t \in Types : Compile(t) \in Outcomes

VARIABLES
    planCache,    \* decodePlanCache
    pc,           \* where each goroutine is in DecodeFast
    target,       \* the type it decodes into
    plan,         \* its local p
    crashed       \* a goroutine overflowed its stack, which ends the process

cacheVars == <<planCache, pc, target, plan, crashed>>

CacheInit ==
    /\ planCache = [t \in Types |-> NoPlan]
    /\ pc = [g \in Goroutines |-> "idle"]
    /\ target = [g \in Goroutines |-> NoType]
    /\ plan = [g \in Goroutines |-> NoPlan]
    /\ crashed = FALSE

At(g, l) == ~crashed /\ pc[g] = l

\* DecodeTo, BinDecodeTo and BorshDecodeTo come here.
DecodeFast(g, t) ==
    /\ At(g, "idle")
    /\ pc' = [pc EXCEPT ![g] = "load"]
    /\ target' = [target EXCEPT ![g] = t]
    /\ UNCHANGED <<planCache, plan, crashed>>

\* v is not a pointer, or a nil one.
DecodeFastRefused(g) ==
    /\ At(g, "idle")
    /\ pc' = [pc EXCEPT ![g] = "failed"]
    /\ UNCHANGED <<planCache, target, plan, crashed>>

Load(g) ==
    /\ At(g, "load")
    /\ plan' = [plan EXCEPT ![g] = planCache[target[g]]]
    /\ pc' = [pc EXCEPT ![g] = IF planCache[target[g]] # NoPlan THEN "exec" ELSE "compile"]
    /\ UNCHANGED <<planCache, target, crashed>>

CompilePlan(g) ==
    /\ At(g, "compile")
    /\ \/ /\ Compile(target[g]) = "plan"
          /\ plan' = [plan EXCEPT ![g] = [typ |-> target[g], by |-> g]]
          /\ pc' = [pc EXCEPT ![g] = "store"]
          /\ UNCHANGED crashed
       \/ /\ Compile(target[g]) = "error"
          /\ pc' = [pc EXCEPT ![g] = "failed"]
          /\ UNCHANGED <<plan, crashed>>
       \/ /\ Compile(target[g]) = "overflow"
          /\ crashed' = TRUE
          /\ UNCHANGED <<plan, pc>>
    /\ UNCHANGED <<planCache, target>>

StoreAlways(g) ==                  \* mutant: Store, which overwrites
    /\ At(g, "store")
    /\ planCache' = [planCache EXCEPT ![target[g]] = plan[g]]
    /\ pc' = [pc EXCEPT ![g] = "exec"]
    /\ UNCHANGED <<target, plan, crashed>>
LoadOrStore(g) ==
    /\ At(g, "store")
    /\ IF planCache[target[g]] # NoPlan
         THEN /\ plan' = [plan EXCEPT ![g] = planCache[target[g]]]
              /\ UNCHANGED planCache
         ELSE /\ planCache' = [planCache EXCEPT ![target[g]] = plan[g]]
              /\ UNCHANGED plan
    /\ pc' = [pc EXCEPT ![g] = "exec"]
    /\ UNCHANGED <<target, crashed>>

\* execDecodePlan touches nothing another goroutine sees.
Return(g) ==
    /\ At(g, "exec") \/ At(g, "failed")
    /\ pc' = [pc EXCEPT ![g] = "idle"]
    /\ target' = [target EXCEPT ![g] = NoType]
    /\ plan' = [plan EXCEPT ![g] = NoPlan]
    /\ UNCHANGED <<planCache, crashed>>

CacheNext ==
    \E g \in Goroutines :
        \/ \E t \in Types : DecodeFast(g, t)
        \/ DecodeFastRefused(g) \/ Load(g) \/ CompilePlan(g) \/ LoadOrStore(g) \/ Return(g)

CacheSpec == CacheInit /\ [][CacheNext]_cacheVars

--------------------------------------------------------------------------------

\* Types, and what a goroutine holds at each point of decodePlanFor.
CacheTypeOK ==
    /\ planCache \in [Types -> Plans \cup {NoPlan}]
    /\ pc \in [Goroutines -> {"idle", "load", "compile", "store", "exec", "failed"}]
    /\ target \in [Goroutines -> Types \cup {NoType}]
    /\ plan \in [Goroutines -> Plans \cup {NoPlan}]
    /\ crashed \in BOOLEAN
    /\ \A g \in Goroutines : pc[g] \in {"load", "compile", "store", "exec"} => target[g] \in Types

\* Of two goroutines that both missed and both compiled, the second takes the plan
\* of the first (the loaded result of LoadOrStore): whatever runs is in the cache,
\* for the type that is decoded into, however the compilations interleave.
PlanShared ==
    \A g \in Goroutines :
        pc[g] = "exec" => /\ plan[g] = planCache[target[g]]
                          /\ plan[g] # NoPlan /\ plan[g].typ = target[g]

\* Only a type that compiles is ever cached: a failed compilation leaves no entry
\* behind that a later call would find.
OnlyCompiledCached ==
    \A t \in Types : planCache[t] # NoPlan => planCache[t].typ = t /\ Compile(t) = "plan"
================================================================================
