------------------------------- MODULE WriteProofs -------------------------------
(***************************************************************************)
(* Writing to a forest one may not read (wnfs/src/private/forest/proofs.rs *)
(* on top of wnfs-nameaccumulator): a writer's forest keeps, next to its   *)
(* entries, a proof for every label that was put or removed, and a service *)
(* that knows which names a writer was given access to checks the proofs   *)
(* against the difference between the writer's forest and its own.         *)
(*                                                                         *)
(* The forest is the map that `ForestMap` promises.  An accumulator stands *)
(* for the set of segments it commits to, and a proof for the pair of its  *)
(* base and its commitment: that no other pair passes is what the          *)
(* accumulators are trusted for.                                           *)
(***************************************************************************)
EXTENDS Naturals, FiniteSets, Bags, BagsExt

CONSTANTS
  Writers,
  Service,
  Allowed,     \* Allowed[w]: the accumulators writer w may write below
  Uses,        \* Uses[w]: the names it writes to
  Cids,
  MaxCalls,    \* bound: calls of a writer between two loads
  MaxUpdates   \* bound: updates there are

ASSUME ServiceAssumption == Service \notin Writers

VARIABLES
  map,         \* the forests of the writers and the service
  proofs,      \* proofs[w]: the ForestProofs next to a writer's forest
  calls,       \* calls[w]: what w put or removed since its last load, how often
  updates      \* what was sent to the service; it comes late, often or never

vars == <<map, proofs, calls, updates>>

Forest ==
  INSTANCE ForestMap WITH
    Devices <- Writers \cup {Service},
    Writes  <- (UNION {Uses[w] : w \in Writers}) \X Cids

--------------------------------------------------------------------------------
(* A name is relative to an accumulator and adds segments to it.           *)
Accumulated(name) == name.relative_to \cup name.segments

NewProofs == [base_of |-> <<>>, batch |-> EmptyBag]

(* NameAccumulator::add: what is multiplied into the batch is big_q, and   *)
(* it is one when there are no segments.                                   *)
BatchablePart(base, commitment) ==
  IF base = commitment THEN EmptyBag ELSE SetToBag({<<base, commitment>>})

(* BatchedProofPart::add                                                   *)
Batched(batch, name) == batch (+) BatchablePart(name.relative_to, Accumulated(name))

(* The map keeps the last base a label was proven from, the batch keeps    *)
(* every proof.                                                            *)
AddAndProveName(p, name) ==
  [base_of |-> [l \in DOMAIN p.base_of \cup {Accumulated(name)} |->
                  IF l = Accumulated(name) THEN name.relative_to ELSE p.base_of[l]],
   batch   |-> Batched(p.batch, name)]

(* Slip: names without segments are expected as well.                      *)
ExpectedOfAll(p) == SetToBag({<<p.base_of[l], l>> : l \in DOMAIN p.base_of})

(* BatchedProofVerification: the factors of what the map names, each once; *)
(* the factor of a name without segments is one.                           *)
Expected(p) ==
  SetToBag({<<p.base_of[l], l>> : l \in {k \in DOMAIN p.base_of : p.base_of[k] # k}})

VerifyProofs(p) == p.batch = Expected(p)

(* What was added, removed or modified.                                    *)
Diff(m, previous) ==
  {l \in DOMAIN m \cup DOMAIN previous : Forest!At(m, l) # Forest!At(previous, l)}

(* Slip: what is gone from the forest is not looked at.                    *)
VerifyWhatIsThere(m, p, previous, allowed_bases) ==
  /\ VerifyProofs(p)
  /\ \A l \in Diff(m, previous) \cap DOMAIN m :
       l \in DOMAIN p.base_of /\ p.base_of[l] \in allowed_bases

VerifyAgainstPreviousState(m, p, previous, allowed_bases) ==
  /\ VerifyProofs(p)
  /\ \A l \in Diff(m, previous) :
       l \in DOMAIN p.base_of /\ p.base_of[l] \in allowed_bases

--------------------------------------------------------------------------------
Init ==
  /\ Forest!Init
  /\ proofs = [w \in Writers |-> NewProofs]
  /\ calls = [w \in Writers |-> EmptyBag]
  /\ updates = {}

(* Both calls prove the name before they touch the forest.                 *)
Proves(w, name) ==
  /\ BagCardinality(calls[w]) < MaxCalls
  /\ proofs' = [proofs EXCEPT ![w] = AddAndProveName(@, name)]
  /\ calls' = [calls EXCEPT ![w] = BagAdd(@, name)]
  /\ UNCHANGED updates

PutEncrypted(w, name, cid) ==
  Proves(w, name) /\ Forest!Put(w, Accumulated(name), cid)

RemoveEncrypted(w, name) ==
  Proves(w, name) /\ Forest!Remove(w, Accumulated(name))

(* A block that the forest needs cannot be loaded.                         *)
CallFails(w, name) == Proves(w, name) /\ UNCHANGED map

(* The writer takes in what the service has and keeps its proofs.          *)
Merge(w) == Forest!Merge(w, Service) /\ UNCHANGED <<proofs, calls, updates>>

(* It starts over: ProvingHamtForest::new of what the service has.         *)
Load(w) ==
  /\ Forest!Load(w, Service)
  /\ proofs' = [proofs EXCEPT ![w] = NewProofs]
  /\ calls' = [calls EXCEPT ![w] = EmptyBag]
  /\ UNCHANGED updates

Update(w) ==
  [writer |-> w, forest |-> map[w], proofs |-> proofs[w], calls |-> calls[w]]

Publish(w) ==
  /\ Cardinality(updates) < MaxUpdates
  /\ updates' = updates \cup {Update(w)}
  /\ UNCHANGED <<map, proofs, calls>>

(* The service stores an update that passes.                               *)
Accept(u) ==
  /\ VerifyAgainstPreviousState(u.forest, u.proofs, map[Service], Allowed[u.writer])
  /\ map' = [map EXCEPT ![Service] = u.forest]
  /\ UNCHANGED <<proofs, calls, updates>>

Next ==
  \/ \E w \in Writers :
       \/ \E name \in Uses[w] :
            \/ \E cid \in Cids : PutEncrypted(w, name, cid)
            \/ RemoveEncrypted(w, name)
            \/ CallFails(w, name)
       \/ Merge(w) \/ Load(w) \/ Publish(w)
  \/ \E u \in updates : Accept(u)

Spec == Init /\ [][Next]_vars

--------------------------------------------------------------------------------
(* Whatever order updates arrive in, however late and however often, what  *)
(* the service's forest has under a label changes only by an update whose  *)
(* writer itself put to or removed that label, under a name relative to an *)
(* accumulator it was given (verify_against_previous_state).  Entries of   *)
(* others, also those the writer never saw, are as they were.              *)
ChangesAreProven ==
  [][\E u \in updates :
       \A l \in Diff(map'[Service], map[Service]) :
         \E name \in BagToSet(u.calls) :
           /\ Accumulated(name) = l
           /\ name.relative_to \in Allowed[u.writer]]_(map[Service])

(* The calls of a writer that kept to what it was given and wrote to each  *)
(* label once.                                                             *)
IsFair(w) ==
  /\ \A name \in BagToSet(calls[w]) :
       name.relative_to \in Allowed[w] /\ calls[w][name] = 1
  /\ \A n1, n2 \in BagToSet(calls[w]) : Accumulated(n1) = Accumulated(n2) => n1 = n2

(* A writer's forest that differs from the service's only where it put or  *)
(* removed something passes, as long as the writer kept to its access and  *)
(* wrote to no label twice: calls that failed, merges in between and names *)
(* without segments of their own do no harm (add_and_prove_name,           *)
(* verify_proofs).  Writing to a label twice does.                         *)
FairWritesPass ==
  \A w \in Writers :
    /\ IsFair(w)
    /\ Diff(map[w], map[Service]) \subseteq {Accumulated(n) : n \in BagToSet(calls[w])}
    => VerifyAgainstPreviousState(map[w], proofs[w], map[Service], Allowed[w])
================================================================================
