-------------------------- MODULE ResourceCatalog --------------------------
(***************************************************************************)
(* The engine resource catalog (src/runtime/resource.c): resources with a  *)
(* state, a number of consumers and a number of dependents.  Every         *)
(* operation is one critical section but the release, which runs the       *)
(* owner's callback unlocked with the slot marked RELEASING; the owners of *)
(* a catalog call it from one thread at a time, so that mark is never seen *)
(* and the release is one step.  A handle is its owner's key: an owner     *)
(* clears a handle when it evicts it, and a closing catalog, which leaves  *)
(* the handles to its owner, registers nothing.                            *)
(* ReleaseNeeded is a wrong variant of MayRelease; no action uses it.      *)
(***************************************************************************)
EXTENDS Naturals, FiniteSets, Functions

CONSTANTS Key,            \* the resources an owner may register
          NoKey           \* the absent handle, no member of Key

VARIABLES slots,          \* the slots in use, by key
          closing         \* summary.closing

catalogVars == <<slots, closing>>

Slot == [state : {"READY", "FAILED"}, consumers : Nat, dependents : Nat,
         dependency : Key \cup {NoKey}]

CatalogTypeOK == /\ DOMAIN slots \subseteq Key
                 /\ \A k \in DOMAIN slots : slots[k] \in Slot
                 /\ closing \in BOOLEAN

CatalogInit == slots = [k \in {} |-> NoKey] /\ closing = FALSE

Present(k) == k \in DOMAIN slots
-----------------------------------------------------------------------------
\* yvex_runtime_resource_register; a catalog without room refuses too.
Register(k, dependency) ==
    /\ ~closing /\ ~Present(k)
    /\ dependency # NoKey =>
          Present(dependency) /\ slots[dependency].state = "READY"
    /\ slots' = [j \in DOMAIN slots \cup {k} |->
                    IF j = k THEN [state |-> "READY", consumers |-> 0,
                                   dependents |-> 0, dependency |-> dependency]
                    ELSE IF j = dependency
                         THEN [slots[j] EXCEPT !.dependents = @ + 1]
                    ELSE slots[j]]
    /\ UNCHANGED closing

\* yvex_runtime_resource_acquire.
MayAcquire(k) == ~closing /\ Present(k) /\ slots[k].state = "READY"

Acquire(k) == /\ MayAcquire(k)
              /\ slots' = [slots EXCEPT ![k].consumers = @ + 1]
              /\ UNCHANGED closing

\* yvex_runtime_resource_drop, of each of the keys K.
MayDrop(k) == Present(k) /\ slots[k].consumers > 0

Drop(K) == /\ \A k \in K : MayDrop(k)
           /\ slots' = [k \in DOMAIN slots |->
                           IF k \in K THEN [slots[k] EXCEPT !.consumers = @ - 1]
                           ELSE slots[k]]
           /\ UNCHANGED closing

ReleaseNeeded(k) == Present(k) /\ slots[k].consumers = 0

\* What resource_release refuses: a slot in use or one with dependents.
MayRelease(k) == Present(k) /\ slots[k].consumers = 0 /\ slots[k].dependents = 0

\* resource_remove_locked: the dependency has one dependent less.
Removed(k) ==
    LET rest == Restrict(slots, DOMAIN slots \ {k})
        d == slots[k].dependency
    IN IF d \in DOMAIN rest /\ rest[d].dependents > 0
       THEN [rest EXCEPT ![d].dependents = @ - 1] ELSE rest

\* resource_release whose callback succeeds, and one whose callback fails.
Release(k) == /\ MayRelease(k)
              /\ slots' = Removed(k)
              /\ UNCHANGED closing

ReleaseFails(k) == /\ MayRelease(k)
                   /\ slots' = [slots EXCEPT ![k].state = "FAILED"]
                   /\ UNCHANGED closing
-----------------------------------------------------------------------------
\* The slots yvex_runtime_resource_catalog_close looks for.  Which of them
\* comes first depends on the slot numbers, which the model does not have.
Releasable == {k \in DOMAIN slots : MayRelease(k)}

\* The counts of a catalog are exact and a dependency outlives what was built
\* from it: resource_release refuses a slot with dependents and a removal tells
\* the dependency.
DependencyHeld ==
    \A k \in DOMAIN slots :
       /\ slots[k].dependency # NoKey => Present(slots[k].dependency)
       /\ slots[k].dependents =
             Cardinality({j \in DOMAIN slots : slots[j].dependency = k})
=============================================================================
