---------------------------- MODULE WriteProofsProofs ----------------------------
(***************************************************************************)
(* What the service may rely on, for any writers, names, CIDs and access,  *)
(* and any number of calls and updates.                                    *)
(*                                                                         *)
(* The invariant says what a ForestProofs knows of the calls it was filled *)
(* by, of every writer's and of every update on its way: its map has the   *)
(* labels of these calls and for each a base one of them had; its batch    *)
(* has the pairs of those that add segments, and the pair of a call nobody *)
(* repeated once.                                                          *)
(***************************************************************************)
EXTENDS WriteProofs, TLAPS

(* The pair that a call adds to the batch, if it adds segments at all.     *)
Pair(name) == <<name.relative_to, Accumulated(name)>>
AddsSegments(name) == name.relative_to # Accumulated(name)

(* No other call of the writer, and not the same again, was to its label.  *)
OnlyCallToItsLabel(name, c) ==
  /\ c[name] = 1
  /\ \A other \in DOMAIN c : Accumulated(other) = Accumulated(name) => other = name

(* The proofs p are those of the calls c.                                  *)
LabelsOfCalls(p, c) ==
  DOMAIN p.base_of = {Accumulated(n) : n \in DOMAIN c}

BasesOfCalls(p, c) ==
  \A l \in DOMAIN p.base_of :
    \E n \in DOMAIN c : Accumulated(n) = l /\ p.base_of[l] = n.relative_to

BatchOfCalls(p, c) ==
  DOMAIN p.batch = {Pair(n) : n \in {k \in DOMAIN c : AddsSegments(k)}}

FactorsOfCalls(p, c) ==
  \A n \in DOMAIN c :
    AddsSegments(n) /\ OnlyCallToItsLabel(n, c) => p.batch[Pair(n)] = 1

ProofsOfCalls(p, c) ==
  /\ LabelsOfCalls(p, c)
  /\ BasesOfCalls(p, c)
  /\ BatchOfCalls(p, c)
  /\ FactorsOfCalls(p, c)

Bag(c) == c = [n \in DOMAIN c |-> c[n]] /\ \A n \in DOMAIN c : c[n] \in Nat \ {0}

IInv ==
  /\ map = [d \in Writers \cup {Service} |-> map[d]]
  /\ proofs = [w \in Writers |-> proofs[w]]
  /\ calls = [w \in Writers |-> calls[w]]
  /\ \A w \in Writers :
       Bag(calls[w]) /\ Bag(proofs[w].batch) /\ ProofsOfCalls(proofs[w], calls[w])
  /\ \A u \in updates :
       u.writer \in Writers /\ ProofsOfCalls(u.proofs, u.calls)

--------------------------------------------------------------------------------
LEMMA EmptyProofs ==
  ProofsOfCalls(NewProofs, EmptyBag) /\ Bag(EmptyBag) /\ Bag(NewProofs.batch)
BY DEF ProofsOfCalls, LabelsOfCalls, BasesOfCalls, BatchOfCalls, FactorsOfCalls, Bag,
       NewProofs, EmptyBag, SetToBag

(* What `Batched` adds is the pair of the name, if it adds segments.       *)
IsBatched(new, batch, name) ==
  /\ Bag(new)
  /\ DOMAIN new = DOMAIN batch \cup {x \in {Pair(name)} : AddsSegments(name)}
  /\ \A x \in DOMAIN batch : x # Pair(name) => new[x] = batch[x]
  /\ AddsSegments(name) /\ Pair(name) \notin DOMAIN batch => new[Pair(name)] = 1

LEMMA BatchedIs ==
  ASSUME NEW batch, Bag(batch), NEW name, NEW new, new = Batched(batch, name)
  PROVE  IsBatched(new, batch, name)
<1>1. CASE AddsSegments(name)
  <2>1. new = [x \in DOMAIN batch \cup {Pair(name)} |->
                 (IF x \in DOMAIN batch THEN batch[x] ELSE 0)
                   + (IF x \in {Pair(name)} THEN 1 ELSE 0)]
    BY <1>1 DEF Batched, BatchablePart, SetToBag, Pair, AddsSegments, (+)
  <2>2. \A x \in DOMAIN batch : batch[x] \in Nat \ {0}
    BY DEF Bag
  <2> QED
    BY <1>1, <2>1, <2>2 DEF Bag, IsBatched
<1>2. CASE ~AddsSegments(name)
  <2>1. new = [x \in DOMAIN batch |-> batch[x] + 0]
    BY <1>2 DEF Batched, BatchablePart, EmptyBag, SetToBag, AddsSegments, (+)
  <2>2. \A x \in DOMAIN batch : batch[x] \in Nat \ {0}
    BY DEF Bag
  <2> QED
    BY <1>2, <2>1, <2>2 DEF Bag, IsBatched
<1> QED
  BY <1>1, <1>2

(* BagAdd counts one more of the name, and no less of the others.          *)
LEMMA BagAddIs ==
  ASSUME NEW c, Bag(c), NEW name, NEW new, new = BagAdd(c, name)
  PROVE  /\ Bag(new)
         /\ DOMAIN new = DOMAIN c \cup {name}
         /\ \A x \in DOMAIN c : x # name => new[x] = c[x]
         /\ new[name] = 1 <=> name \notin DOMAIN c
<1>1. CASE name \in DOMAIN c
  <2>1. new = [n \in DOMAIN c |-> IF n = name THEN c[n] + 1 ELSE c[n]]
    BY <1>1 DEF BagAdd
  <2>2. \A n \in DOMAIN c : c[n] \in Nat \ {0}
    BY DEF Bag
  <2>3. DOMAIN new = DOMAIN c /\ new = [n \in DOMAIN new |-> new[n]]
    BY <2>1
  <2>4. \A n \in DOMAIN c : new[n] = IF n = name THEN c[n] + 1 ELSE c[n]
    BY <2>1
  <2>5. new[name] # 1
    BY <1>1, <2>2, <2>4
  <2>6. Bag(new)
    BY <2>2, <2>3, <2>4 DEF Bag
  <2> QED
    BY <1>1, <2>3, <2>4, <2>5, <2>6
<1>2. CASE name \notin DOMAIN c
  <2>1. new = [n \in DOMAIN c \cup {name} |-> IF n = name THEN 1 ELSE c[n]]
    BY <1>2 DEF BagAdd
  <2> QED
    BY <1>2, <2>1 DEF Bag
<1> QED
  BY <1>1, <1>2

(* Proving a name keeps the proofs those of the calls.                     *)
LEMMA ProvingKeepsProofs ==
  ASSUME NEW p, NEW c, NEW name, Bag(c), Bag(p.batch), ProofsOfCalls(p, c)
  PROVE  LET q == AddAndProveName(p, name)
             d == BagAdd(c, name)
         IN  Bag(d) /\ Bag(q.batch) /\ ProofsOfCalls(q, d)
<1> DEFINE q == AddAndProveName(p, name)
           d == BagAdd(c, name)
           acc == Accumulated(name)
<1>1. /\ DOMAIN q.base_of = DOMAIN p.base_of \cup {acc}
      /\ \A l \in DOMAIN q.base_of :
           q.base_of[l] = IF l = acc THEN name.relative_to ELSE p.base_of[l]
      /\ q.batch = Batched(p.batch, name)
  BY DEF AddAndProveName
<1>2. /\ Bag(d)
      /\ DOMAIN d = DOMAIN c \cup {name}
      /\ \A x \in DOMAIN c : x # name => d[x] = c[x]
      /\ d[name] = 1 <=> name \notin DOMAIN c
  BY BagAddIs
<1>3. /\ Bag(q.batch)
      /\ DOMAIN q.batch =
           DOMAIN p.batch \cup {x \in {Pair(name)} : AddsSegments(name)}
      /\ \A x \in DOMAIN p.batch : x # Pair(name) => q.batch[x] = p.batch[x]
      /\ AddsSegments(name) /\ Pair(name) \notin DOMAIN p.batch => q.batch[Pair(name)] = 1
  <2> DEFINE old == p.batch
             new == q.batch
  <2>1. Bag(old) /\ new = Batched(old, name)
    BY <1>1
  <2> HIDE DEF q, old, new
  <2>2. IsBatched(new, old, name)
    BY <2>1, BatchedIs
  <2> QED
    BY <2>2 DEF IsBatched, old, new
<1> HIDE DEF q, d
<1>4. LabelsOfCalls(q, d)
  BY <1>1, <1>2 DEF ProofsOfCalls, LabelsOfCalls
<1>5. BasesOfCalls(q, d)
  BY <1>1, <1>2 DEF ProofsOfCalls, BasesOfCalls
<1>6. BatchOfCalls(q, d)
  BY <1>2, <1>3 DEF ProofsOfCalls, BatchOfCalls
<1>7. FactorsOfCalls(q, d)
  <2> SUFFICES ASSUME NEW n \in DOMAIN d, AddsSegments(n), OnlyCallToItsLabel(n, d)
               PROVE  q.batch[Pair(n)] = 1
    BY DEF FactorsOfCalls
  <2>1. CASE n = name
    <3>1. name \notin DOMAIN c
      BY <2>1, <1>2 DEF OnlyCallToItsLabel
    <3>2. \A k \in DOMAIN c : Accumulated(k) # acc
      BY <2>1, <3>1, <1>2 DEF OnlyCallToItsLabel
    <3>3. Pair(name) \notin DOMAIN p.batch
      BY <3>2 DEF ProofsOfCalls, BatchOfCalls, Pair
    <3> QED
      BY <2>1, <3>3, <1>3
  <2>2. CASE n # name
    <3>1. n \in DOMAIN c /\ OnlyCallToItsLabel(n, c) /\ Accumulated(n) # acc
      BY <2>2, <1>2 DEF OnlyCallToItsLabel
    <3>2. Pair(n) \in DOMAIN p.batch /\ p.batch[Pair(n)] = 1
      BY <3>1 DEF ProofsOfCalls, BatchOfCalls, FactorsOfCalls
    <3> QED
      BY <3>1, <3>2, <1>3 DEF Pair
  <2> QED
    BY <2>1, <2>2
<1> QED
  BY <1>2, <1>3, <1>4, <1>5, <1>6, <1>7 DEF ProofsOfCalls, q, d

--------------------------------------------------------------------------------
LEMMA InitIInv == Init => IInv
BY EmptyProofs DEF Init, IInv, Forest!Init

(* A call of a writer, whatever becomes of its forest.                     *)
LEMMA ProvesKeepsIInv ==
  ASSUME IInv, NEW w \in Writers, NEW name, Proves(w, name),
         map' = [d \in Writers \cup {Service} |-> map'[d]]
  PROVE  IInv'
<1> DEFINE p == proofs[w]
           c == calls[w]
           q == AddAndProveName(p, name)
           d == BagAdd(c, name)
<1>1. Bag(c) /\ Bag(p.batch) /\ ProofsOfCalls(p, c)
  BY DEF IInv
<1>2. proofs' = [proofs EXCEPT ![w] = q] /\ calls' = [calls EXCEPT ![w] = d]
  BY DEF Proves
<1>3. updates' = updates
  BY DEF Proves
<1> HIDE DEF p, c
<1>4. Bag(d) /\ Bag(q.batch) /\ ProofsOfCalls(q, d)
  BY <1>1, ProvingKeepsProofs
<1> HIDE DEF q, d
<1>5. \A v \in Writers : v # w => proofs'[v] = proofs[v] /\ calls'[v] = calls[v]
  BY <1>2 DEF IInv
<1>6. proofs'[w] = q /\ calls'[w] = d
  BY <1>2 DEF IInv
<1>7. /\ proofs' = [v \in Writers |-> proofs'[v]]
      /\ calls' = [v \in Writers |-> calls'[v]]
  BY <1>2 DEF IInv
<1>8. \A v \in Writers :
        Bag(calls'[v]) /\ Bag(proofs'[v].batch) /\ ProofsOfCalls(proofs'[v], calls'[v])
  BY <1>4, <1>5, <1>6 DEF IInv
<1> QED
  BY <1>3, <1>7, <1>8 DEF IInv

LEMMA StepKeepsIInv == IInv /\ [Next]_vars => IInv'
<1> SUFFICES ASSUME IInv, [Next]_vars PROVE IInv'
  OBVIOUS
<1>1. ASSUME NEW w \in Writers, NEW name \in Uses[w], NEW cid \in Cids,
             PutEncrypted(w, name, cid)
      PROVE  IInv'
  <2>1. map' = [d \in Writers \cup {Service} |-> map'[d]]
    BY <1>1 DEF PutEncrypted, Forest!Put, IInv
  <2> QED
    BY <1>1, <2>1, ProvesKeepsIInv DEF PutEncrypted
<1>2. ASSUME NEW w \in Writers, NEW name \in Uses[w], RemoveEncrypted(w, name)
      PROVE  IInv'
  <2>1. map' = [d \in Writers \cup {Service} |-> map'[d]]
    BY <1>2 DEF RemoveEncrypted, Forest!Remove, IInv
  <2> QED
    BY <1>2, <2>1, ProvesKeepsIInv DEF RemoveEncrypted
<1>3. ASSUME NEW w \in Writers, NEW name \in Uses[w], CallFails(w, name)
      PROVE  IInv'
  <2>1. map' = [d \in Writers \cup {Service} |-> map'[d]]
    BY <1>3 DEF CallFails, IInv
  <2> QED
    BY <1>3, <2>1, ProvesKeepsIInv DEF CallFails
<1>4. ASSUME NEW w \in Writers, Merge(w) PROVE IInv'
  <2>1. map' = [d \in Writers \cup {Service} |-> map'[d]]
    BY <1>4 DEF Merge, Forest!Merge, IInv
  <2> QED
    BY <1>4, <2>1 DEF Merge, IInv
<1>5. ASSUME NEW w \in Writers, Load(w) PROVE IInv'
  <2>1. map' = [d \in Writers \cup {Service} |-> map'[d]]
    BY <1>5 DEF Load, Forest!Load, IInv
  <2>2. /\ proofs' = [proofs EXCEPT ![w] = NewProofs]
        /\ calls' = [calls EXCEPT ![w] = EmptyBag]
        /\ updates' = updates
    BY <1>5 DEF Load
  <2>3. /\ proofs' = [v \in Writers |-> proofs'[v]]
        /\ calls' = [v \in Writers |-> calls'[v]]
    BY <2>2 DEF IInv
  <2>4. \A v \in Writers :
          Bag(calls'[v]) /\ Bag(proofs'[v].batch) /\ ProofsOfCalls(proofs'[v], calls'[v])
    BY <2>2, EmptyProofs DEF IInv
  <2> QED
    BY <2>1, <2>2, <2>3, <2>4 DEF IInv
<1>6. ASSUME NEW w \in Writers, Publish(w) PROVE IInv'
  <2>1. Update(w).writer \in Writers /\ ProofsOfCalls(Update(w).proofs, Update(w).calls)
    BY DEF IInv, Update
  <2> QED
    BY <1>6, <2>1 DEF Publish, IInv
<1>7. ASSUME NEW u \in updates, Accept(u) PROVE IInv'
  <2>1. map' = [d \in Writers \cup {Service} |-> map'[d]]
    BY <1>7 DEF Accept, IInv
  <2> QED
    BY <1>7, <2>1 DEF Accept, IInv
<1>8. CASE UNCHANGED vars
  BY <1>8 DEF vars, IInv
<1> QED
  BY <1>1, <1>2, <1>3, <1>4, <1>5, <1>6, <1>7, <1>8 DEF Next

LEMMA ProofsAreOfCalls == Spec => []IInv
BY InitIInv, StepKeepsIInv, PTL DEF Spec

--------------------------------------------------------------------------------
(* No writer's call changes what the service has.                          *)
LEMMA OnlyAcceptChangesService ==
  ASSUME IInv, [Next]_vars, map'[Service] # map[Service]
  PROVE  \E u \in updates : Accept(u)
<1>1. \A w \in Writers : w # Service
  BY ServiceAssumption
<1> QED
  BY <1>1 DEF IInv, Next, vars, PutEncrypted, RemoveEncrypted, CallFails, Merge, Load,
     Publish, Forest!Put, Forest!Remove, Forest!Merge, Forest!Load

(* What the service accepts changes only labels that the update's calls    *)
(* were to, from a base the writer was given.                              *)
LEMMA AcceptedIsProven ==
  ASSUME IInv, NEW u \in updates, Accept(u), NEW l \in Diff(map'[Service], map[Service])
  PROVE  \E name \in BagToSet(u.calls) :
           Accumulated(name) = l /\ name.relative_to \in Allowed[u.writer]
<1>1. map'[Service] = u.forest
  BY DEF Accept, IInv
<1>2. l \in DOMAIN u.proofs.base_of /\ u.proofs.base_of[l] \in Allowed[u.writer]
  BY <1>1 DEF Accept, VerifyAgainstPreviousState
<1>3. BasesOfCalls(u.proofs, u.calls)
  BY DEF IInv, ProofsOfCalls
<1> QED
  BY <1>2, <1>3 DEF BasesOfCalls, BagToSet

(* Whatever order updates arrive in, what the service has under a label    *)
(* only changes by an update whose writer put to or removed that label     *)
(* under a name it was given access to (verify_against_previous_state).    *)
THEOREM ChangesNeedProof == Spec => ChangesAreProven
<1>1. IInv /\ [Next]_vars =>
        [\E u \in updates :
           \A l \in Diff(map'[Service], map[Service]) :
             \E name \in BagToSet(u.calls) :
               /\ Accumulated(name) = l
               /\ name.relative_to \in Allowed[u.writer]]_(map[Service])
  BY OnlyAcceptChangesService, AcceptedIsProven
<1> QED
  BY <1>1, ProofsAreOfCalls, PTL DEF Spec, ChangesAreProven

(* The batch of a fair writer is the product of the factors its map names. *)
LEMMA FairBatchIsExpected ==
  ASSUME IInv, NEW w \in Writers, IsFair(w)
  PROVE  VerifyProofs(proofs[w])
<1> DEFINE p == proofs[w]
           c == calls[w]
<1>1. Bag(p.batch) /\ ProofsOfCalls(p, c)
  BY DEF IInv
<1>2. \A n \in DOMAIN c : OnlyCallToItsLabel(n, c)
  BY DEF IsFair, OnlyCallToItsLabel, BagToSet
<1> HIDE DEF p, c
<1>3. \A n \in DOMAIN c :
        Accumulated(n) \in DOMAIN p.base_of /\ p.base_of[Accumulated(n)] = n.relative_to
  BY <1>1, <1>2 DEF ProofsOfCalls, LabelsOfCalls, BasesOfCalls, OnlyCallToItsLabel
<1>4. DOMAIN p.batch =
        {<<p.base_of[l], l>> : l \in {k \in DOMAIN p.base_of : p.base_of[k] # k}}
  <2>1. \A x \in DOMAIN p.batch :
          \E l \in DOMAIN p.base_of : p.base_of[l] # l /\ x = <<p.base_of[l], l>>
    BY <1>1, <1>3 DEF ProofsOfCalls, BatchOfCalls, Pair, AddsSegments
  <2>2. \A l \in DOMAIN p.base_of :
          p.base_of[l] # l => <<p.base_of[l], l>> \in DOMAIN p.batch
    BY <1>1, <1>3 DEF ProofsOfCalls, BasesOfCalls, BatchOfCalls, Pair, AddsSegments
  <2> QED
    BY <2>1, <2>2
<1>5. \A x \in DOMAIN p.batch : p.batch[x] = 1
  BY <1>1, <1>2 DEF ProofsOfCalls, BatchOfCalls, FactorsOfCalls
<1>6. p.batch = [x \in DOMAIN p.batch |-> 1]
  BY <1>1, <1>5 DEF Bag
<1> QED
  BY <1>4, <1>6 DEF VerifyProofs, Expected, SetToBag, p

(* A writer that kept to its access and wrote to each label once passes,   *)
(* whatever it merged, whatever failed and whatever others wrote: the      *)
(* batch is exactly what its map makes the service expect.                 *)
THEOREM FairWritesAreAccepted == Spec => []FairWritesPass
<1>1. ASSUME IInv, NEW w \in Writers, IsFair(w),
             Diff(map[w], map[Service]) \subseteq {Accumulated(n) : n \in BagToSet(calls[w])}
      PROVE  VerifyAgainstPreviousState(map[w], proofs[w], map[Service], Allowed[w])
  <2>1. ASSUME NEW l \in Diff(map[w], map[Service])
        PROVE  l \in DOMAIN proofs[w].base_of /\ proofs[w].base_of[l] \in Allowed[w]
    <3>1. l \in DOMAIN proofs[w].base_of
      BY <1>1, <2>1 DEF IInv, ProofsOfCalls, LabelsOfCalls, BagToSet
    <3>2. \E n \in BagToSet(calls[w]) : proofs[w].base_of[l] = n.relative_to
      BY <3>1, <1>1 DEF IInv, ProofsOfCalls, BasesOfCalls, BagToSet
    <3> QED
      BY <3>1, <3>2, <1>1 DEF IsFair
  <2> QED
    BY <1>1, <2>1, FairBatchIsExpected DEF VerifyAgainstPreviousState
<1>2. IInv => FairWritesPass
  BY <1>1 DEF FairWritesPass
<1> QED
  BY <1>2, ProofsAreOfCalls, PTL
==================================================================================
