--------------------------- MODULE DupLink_proofs ---------------------------
(* Proofs about DupLink for any frames, outputs, containers and              *)
(* configurations.                                                           *)
EXTENDS DupLink, FiniteSetTheorems, TLAPS

(***************************************************************************)
(* The inductive invariant.  An output is owed a frame if it has a copy, or  *)
(* is the delayed one and is about to get one: a call is handing it on, or   *)
(* the output it waits for has not given it back.  dupCount is at least the  *)
(* number of outputs that are owed the frame.  It may be more: the link's    *)
(* task may take away the frame that a call is handing on.                   *)
(***************************************************************************)
HasDelay == delayedOutputQueId # NoQue
Handing(o) == put[o].at \in {"forward", "putFull"}
Due(f) == \E o \in OutQues : Handing(o) /\ f \in put[o].last

Waiting(f) ==
    IF syncDelayedOutputQueId # NoQue
    THEN syncDelayedOutputQueId \in Holders(f)
    ELSE dupCount[f] > 1
Awaited(f) == HasDelay /\ (Due(f) \/ Waiting(f))
Owed(f) == Holders(f) \cup {o \in OutQues : o = delayedOutputQueId /\ Awaited(f)}

Away == Frames \ (free \cup inQue)

CountOK(f) ==
    /\ Cardinality(Owed(f)) <= dupCount[f]
    /\ Awaited(f) => delayedOutputQueId \notin Holders(f)
    /\ HasDelay /\ Due(f) => ~Waiting(f)

(* An output has one copy of a frame.                                        *)
OneCopy(o) == /\ full[o] \cap held[o] = {} /\ full[o] \cap Pending(o) = {}
              /\ held[o] \cap Pending(o) = {}

PutOK(o) ==
    /\ put[o].at \in {"each", "forward", "putFull"} <=> lock = o
    /\ put[o].at \in {"none", "containers"} => put[o].back = {}
    /\ put[o].todo \subseteq held[o]
    /\ o \notin OutQues => put[o].at = "none"
    /\ \A f \in put[o].back : f \in Away /\ Holders(f) = {} /\ (HasDelay => ~Due(f))
    /\ Handing(o) => asserted \/ (HasDelay /\ syncDelayedOutputQueId # delayedOutputQueId)
    /\ put[o].at = "putFull" /\ HasDelay => outList[delayedOutputQueId] \subseteq put[o].last

PutType == [at : {"none", "each", "forward", "putFull", "containers"}, todo : SUBSET Frames,
            frames : SUBSET Frames, last : SUBSET Frames, back : SUBSET Frames]
Types ==
    /\ config \in Configs
    /\ free \subseteq Frames /\ inQue \subseteq Frames /\ free \cap inQue = {}
    /\ dupCount \in [Frames -> Int]
    /\ outId \in 0 .. NumOutQue /\ outList \in [Outs -> SUBSET Frames]
    /\ full \in [Outs -> SUBSET Frames] /\ held \in [Outs -> SUBSET Frames]
    /\ put \in [Outs -> PutType] /\ lock \in Ids
    /\ delayedOutputQueId \in Ids /\ syncDelayedOutputQueId \in Ids
    /\ cmds \subseteq config.delayCmds
    /\ HasDelay => delayedOutputQueId \in OutQues /\ NumOutQue > 1

IInv ==
    /\ Types /\ ReturnedLast
    /\ \A f \in Away : CountOK(f)
    /\ \A o \in OutQues : OneCopy(o)
    /\ \A o \in Outs : PutOK(o)

LEMMA Sizes ==
  ASSUME config \in Configs
  PROVE  /\ NumOutQue \in 1 .. MaxOutQue /\ MaxOutQue \in Nat /\ NumOutQue \in Nat
         /\ OutQues \subseteq Outs /\ Outs \subseteq Ids /\ NoQue \notin Outs /\ NoQue \in Ids
         /\ IsFiniteSet(OutQues) /\ Cardinality(OutQues) = NumOutQue
  <1>1. /\ NumOutQue \in 1 .. MaxOutQue /\ MaxOutQue \in Nat
    BY DupAssumption DEF ConfigType, NumOutQue
  <1>2. IsFiniteSet(0 .. NumOutQue - 1) /\ Cardinality(0 .. NumOutQue - 1) = NumOutQue
    BY <1>1, FS_Interval
  <1> QED BY <1>1, <1>2 DEF OutQues, Outs, Ids, NoQue

(* Few outputs are owed what few have.                                       *)
LEMMA FewOwed ==
  ASSUME config \in Configs, NEW S \in SUBSET OutQues, NEW T \in SUBSET S
  PROVE  /\ IsFiniteSet(S) /\ Cardinality(S) \in Nat /\ Cardinality(S) <= NumOutQue
         /\ Cardinality(T) \in Nat /\ Cardinality(T) <= Cardinality(S)
         /\ \A o \in S : o \notin T => Cardinality(T) <= Cardinality(S) - 1
         /\ Cardinality(S) <= 0 => S = {}
         /\ Cardinality(S) <= 1 => \A u, v \in S : u = v
  <1>1. /\ IsFiniteSet(OutQues) /\ Cardinality(OutQues) = NumOutQue
    BY Sizes
  <1>2. IsFiniteSet(S) /\ IsFiniteSet(T)
    BY <1>1, FS_Subset
  <1>3. Cardinality(S) \in Nat /\ Cardinality(T) \in Nat
    BY <1>2, FS_CardinalityType
  <1>4. Cardinality(S) <= NumOutQue /\ Cardinality(T) <= Cardinality(S)
    BY <1>1, <1>2, FS_Subset
  <1>5. ASSUME NEW o \in S, o \notin T PROVE Cardinality(T) <= Cardinality(S) - 1
    <2>1. IsFiniteSet(S \ {o}) /\ Cardinality(S \ {o}) = Cardinality(S) - 1
      BY <1>2, FS_RemoveElement
    <2>2. T \subseteq S \ {o}
      BY <1>5
    <2>3. Cardinality(T) <= Cardinality(S \ {o})
      BY <2>1, <2>2, FS_Subset
    <2> QED BY <2>1, <2>3
  <1>6. Cardinality(S) <= 0 => S = {}
    BY <1>2, <1>3, FS_EmptySet
  <1>7. ASSUME Cardinality(S) <= 1, NEW u \in S, NEW v \in S PROVE u = v
    <2> SUFFICES ASSUME u # v PROVE FALSE
      OBVIOUS
    <2>1. IsFiniteSet(S \ {u}) /\ Cardinality(S \ {u}) = Cardinality(S) - 1
      BY <1>2, FS_RemoveElement
    <2>2. IsFiniteSet(S \ {u}) /\ Cardinality(S \ {u}) = 0
      BY <2>1, <1>3, <1>7, FS_EmptySet, FS_CardinalityType
    <2> QED BY <2>2, FS_EmptySet
  <1> QED BY <1>2, <1>3, <1>4, <1>5, <1>6, <1>7

LEMMA OwedOuts == Types => \A f \in Frames : Holders(f) \subseteq Owed(f) /\ Owed(f) \subseteq OutQues
  BY DEF Owed, Holders

LEMMA InitIInv == Init => IInv
  <1> SUFFICES ASSUME Init PROVE IInv
    OBVIOUS
  <1>1. config \in Configs
    BY DEF Init
  <1>2. \A o \in Outs : /\ put[o] = NoPut /\ full[o] = {} /\ held[o] = {} /\ outList[o] = {}
    BY DEF Init
  <1>3. \A o \in OutQues : Pending(o) = {}
    BY <1>1, <1>2, Sizes DEF Pending
  <1>4. Types
    <2>1. NoPut \in PutType
      BY DEF NoPut, PutType
    <2> QED BY <1>1, <1>2, <2>1, Sizes DEF Init, Types, HasDelay
  <1>5. \A f : Holders(f) = {}
    BY <1>1, <1>2, <1>3, Sizes DEF Holders
  <1>6. ReturnedLast
    BY <1>2, <1>5 DEF ReturnedLast, NoPut
  <1>7. Away = {}
    BY DEF Init, Away
  <1>8. \A o \in OutQues : OneCopy(o)
    BY <1>1, <1>2, <1>3, Sizes DEF OneCopy
  <1>9. \A o \in Outs : PutOK(o)
    BY <1>1, <1>2, Sizes DEF Init, PutOK, NoPut, Handing
  <1> QED BY <1>4, <1>6, <1>7, <1>8, <1>9 DEF IInv

(***************************************************************************)
(* Steps that neither count nor hand anything on: what each output has, and  *)
(* what is due, stays as it is.                                              *)
(***************************************************************************)
settings == <<config, delayedOutputQueId, syncDelayedOutputQueId>>

LEMMA SameCount ==
  ASSUME UNCHANGED <<settings, dupCount>>, NEW f \in Frames,
         Holders(f)' = Holders(f), Due(f)' <=> Due(f)
  PROVE  CountOK(f) => CountOK(f)'
  <1>1. Awaited(f)' <=> Awaited(f)
    BY DEF Awaited, Waiting, HasDelay, settings, NoQue
  <1>2. Owed(f)' = Owed(f)
    BY <1>1 DEF Owed, settings, OutQues, NumOutQue
  <1> QED BY <1>1, <1>2 DEF CountOK, settings, Waiting, HasDelay, NoQue

LEMMA SameOwed ==
  ASSUME UNCHANGED <<settings, dupCount>>, NEW f,
         Holders(f)' = Holders(f), Due(f)' <=> Due(f)
  PROVE  Owed(f)' = Owed(f)
  <1>1. Awaited(f)' <=> Awaited(f)
    BY DEF Awaited, Waiting, HasDelay, settings, NoQue
  <1> QED BY <1>1 DEF Owed, settings, OutQues, NumOutQue

LEMMA SameDue ==
  ASSUME UNCHANGED config, NEW f,
         \A o \in OutQues : (Handing(o)' <=> Handing(o)) /\ (Handing(o) => put'[o].last = put[o].last)
  PROVE  Due(f)' <=> Due(f)
  BY DEF Due, OutQues, NumOutQue

LEMMA SameHolders ==
  ASSUME UNCHANGED <<config, full, held>>, \A o \in OutQues : Pending(o)' = Pending(o)
  PROVE  \A f : Holders(f)' = Holders(f)
  BY DEF Holders, OutQues, NumOutQue

LEMMA SamePending ==
  UNCHANGED <<config, outId, delayedOutputQueId, outList>> => \A o : Pending(o)' = Pending(o)
  BY DEF Pending, InHandler, Direct, NumOutQue

LEMMA ProduceIInv ==
  ASSUME IInv, NEW f \in Frames, Produce(f)
  PROVE  IInv' /\ \A g \in Frames : Owed(g)' = Owed(g)
  <1>1. /\ f \in free /\ free' = free \ {f} /\ inQue' = inQue \cup {f}
        /\ UNCHANGED <<settings, dupCount, outId, outList, full, held, put, lock, cmds, asserted>>
    BY DEF Produce, settings, outputs, delay
  <1>2. /\ \A g : Holders(g)' = Holders(g)
        /\ \A o : Pending(o)' = Pending(o)
    BY <1>1, SamePending, SameHolders DEF settings
  <1>3. \A g \in Frames : Due(g)' <=> Due(g)
    BY <1>1, SameDue DEF settings, Handing
  <1>4. Away' = Away /\ (free \cup inQue)' = free \cup inQue
    BY <1>1 DEF Away
  <1>5. Types'
    BY <1>1 DEF IInv, Types, settings, HasDelay, NoQue, OutQues, NumOutQue
  <1>6. ReturnedLast'
    BY <1>1, <1>2, <1>4 DEF IInv, ReturnedLast
  <1>7. \A g \in Away' : CountOK(g)'
    BY <1>1, <1>2, <1>3, <1>4, SameCount DEF IInv, Away
  <1>8. \A o \in OutQues' : OneCopy(o)'
    BY <1>1, <1>2 DEF IInv, OneCopy, OutQues, NumOutQue, settings
  <1>9. \A o \in Outs : PutOK(o)'
    <2> SUFFICES ASSUME NEW o \in Outs PROVE PutOK(o)'
      OBVIOUS
    <2>1. PutOK(o) /\ put[o] \in PutType
      BY DEF IInv, Types
    <2>2. \A g \in put[o].back : g \in Frames
      BY <2>1 DEF PutType
    <2> QED BY <1>1, <1>2, <1>3, <1>4, <2>1, <2>2
            DEF PutOK, Handing, HasDelay, settings, NoQue, OutQues, NumOutQue
  <1>10. \A g \in Frames : Owed(g)' = Owed(g)
    BY <1>1, <1>2, <1>3, SameOwed
  <1> QED BY <1>5, <1>6, <1>7, <1>8, <1>9, <1>10 DEF IInv

LEMMA GetFullIInv ==
  ASSUME IInv, NEW o \in OutQues, GetFull(o)
  PROVE  IInv' /\ \A g \in Frames : Owed(g)' = Owed(g)
  <1>1. /\ held' = [held EXCEPT ![o] = @ \cup full[o]] /\ full' = [full EXCEPT ![o] = {}]
        /\ UNCHANGED <<settings, free, inQue, dupCount, outId, outList, put, lock, cmds, asserted>>
    BY DEF GetFull, settings, producer, delay
  <1>2. config \in Configs /\ o \in Outs
    BY Sizes DEF IInv, Types
  <1>3. \A u : Pending(u)' = Pending(u)
    BY <1>1, SamePending DEF settings
  <1>4. Types'
    BY <1>1, <1>2 DEF IInv, Types, settings, HasDelay, NoQue, OutQues, NumOutQue
  <1>5. \A u \in OutQues : /\ full'[u] \cup held'[u] = full[u] \cup held[u]
                           /\ full'[u] \subseteq full[u] /\ full'[u] \cap held'[u] = {}
    <2> SUFFICES ASSUME NEW u \in OutQues
                 PROVE  /\ full'[u] \cup held'[u] = full[u] \cup held[u]
                        /\ full'[u] \subseteq full[u] /\ full'[u] \cap held'[u] = {}
      OBVIOUS
    <2>1. u \in Outs /\ full \in [Outs -> SUBSET Frames] /\ held \in [Outs -> SUBSET Frames]
      BY <1>2, Sizes DEF IInv, Types
    <2>2. CASE u = o
      BY <1>1, <2>1, <2>2
    <2>3. CASE u # o
      BY <1>1, <2>1, <2>3 DEF IInv, OneCopy
    <2> QED BY <2>2, <2>3
  <1>6. \A g : Holders(g)' = Holders(g)
    BY <1>1, <1>3, <1>5 DEF Holders, settings, OutQues, NumOutQue
  <1>7. \A g \in Frames : Due(g)' <=> Due(g)
    BY <1>1, SameDue DEF settings, Handing
  <1>8. Away' = Away
    BY <1>1 DEF Away
  <1>9. ReturnedLast'
    BY <1>1, <1>6 DEF IInv, ReturnedLast
  <1>10. \A g \in Away' : CountOK(g)'
    BY <1>1, <1>6, <1>7, <1>8, SameCount DEF IInv, Away
  <1>11. \A u \in OutQues' : OneCopy(u)'
    BY <1>1, <1>3, <1>5 DEF IInv, OneCopy, OutQues, NumOutQue, settings
  <1>12. \A u \in Outs : PutOK(u)'
    <2> SUFFICES ASSUME NEW u \in Outs PROVE PutOK(u)'
      OBVIOUS
    <2>1. PutOK(u) /\ put[u] \in PutType
      BY DEF IInv, Types
    <2>2. \A g \in put[u].back : g \in Frames
      BY <2>1 DEF PutType
    <2>3. held[u] \subseteq held'[u]
      BY <1>1, <1>2 DEF IInv, Types
    <2> QED BY <1>1, <1>6, <1>7, <1>8, <2>1, <2>2, <2>3
            DEF PutOK, Handing, HasDelay, settings, NoQue, OutQues, NumOutQue
  <1>13. \A g \in Frames : Owed(g)' = Owed(g)
    BY <1>1, <1>6, <1>7, SameOwed
  <1> QED BY <1>4, <1>9, <1>10, <1>11, <1>12, <1>13 DEF IInv

LEMMA PutOutIInv ==
  ASSUME IInv, PutOut
  PROVE  IInv' /\ \A g \in Frames : Owed(g)' = Owed(g)
  <1> DEFINE u == outId
  <1>1. /\ InHandler /\ outId' = outId + 1
        /\ UNCHANGED <<settings, free, inQue, dupCount, held, put, lock, cmds, asserted>>
    BY DEF PutOut, settings, producer, delay
  <1>2. config \in Configs /\ outId \in OutQues /\ outId \in Outs /\ outId' \in 0 .. NumOutQue
    BY <1>1, Sizes DEF IInv, Types, InHandler, OutQues
  <1>3. \A o : Direct(o)' <=> Direct(o)
    BY <1>1 DEF Direct, settings, NumOutQue
  <1>4. PICK a \in OutQues : a = outId
    BY <1>2
  <1>5. /\ full \in [Outs -> SUBSET Frames] /\ outList \in [Outs -> SUBSET Frames] /\ OutQues \subseteq Outs
    BY <1>2, Sizes DEF IInv, Types
  <1>6. \/ /\ Direct(a) /\ full' = [full EXCEPT ![a] = @ \cup outList[a]]
           /\ outList' = [outList EXCEPT ![a] = {}]
        \/ /\ ~Direct(a) /\ full' = full /\ outList' = outList
    BY <1>4 DEF PutOut, PutFull
  <1>7. Types'
    BY <1>1, <1>2, <1>5, <1>6 DEF IInv, Types, settings, HasDelay, NoQue, OutQues, NumOutQue
  <1>8. \A o \in OutQues : o # a => Pending(o)' = Pending(o) /\ full'[o] = full[o]
    <2> SUFFICES ASSUME NEW o \in OutQues, o # a PROVE Pending(o)' = Pending(o) /\ full'[o] = full[o]
      OBVIOUS
    <2>1. o \in Outs /\ full'[o] = full[o] /\ outList'[o] = outList[o]
      BY <1>5, <1>6
    <2>2. outId <= o <=> outId + 1 <= o
      BY <1>2, <1>4, Sizes DEF OutQues
    <2>3. InHandler' \/ ~(outId + 1 <= o)
      BY <1>1, <1>2, Sizes DEF InHandler, OutQues, settings, NumOutQue
    <2> QED BY <1>1, <1>3, <2>1, <2>2, <2>3 DEF Pending
  <1>9. Pending(a)' = {} /\ full'[a] = full[a] \cup Pending(a)
    <2>1. ~(outId' <= a) /\ outId <= a
      BY <1>1, <1>2, <1>4, Sizes DEF OutQues
    <2> QED BY <1>1, <1>4, <1>5, <1>6, <2>1 DEF Pending
  <1>10. \A g : Holders(g)' = Holders(g)
    BY <1>1, <1>8, <1>9 DEF Holders, settings, OutQues, NumOutQue
  <1>11. \A g \in Frames : Due(g)' <=> Due(g)
    BY <1>1, SameDue DEF settings, Handing
  <1>12. Away' = Away
    BY <1>1 DEF Away
  <1>13. ReturnedLast'
    BY <1>1, <1>10 DEF IInv, ReturnedLast
  <1>14. \A g \in Away' : CountOK(g)'
    BY <1>1, <1>10, <1>11, <1>12, SameCount DEF IInv, Away
  <1>15. \A o \in OutQues' : OneCopy(o)'
    BY <1>1, <1>8, <1>9 DEF IInv, OneCopy, OutQues, NumOutQue, settings
  <1>16. \A o \in Outs : PutOK(o)'
    <2> SUFFICES ASSUME NEW o \in Outs PROVE PutOK(o)'
      OBVIOUS
    <2>1. PutOK(o) /\ put[o] \in PutType
      BY DEF IInv, Types
    <2>2. \A g \in put[o].back : g \in Frames
      BY <2>1 DEF PutType
    <2>3. HasDelay => outList'[delayedOutputQueId] \subseteq outList[delayedOutputQueId]
      BY <1>5, <1>6 DEF IInv, Types
    <2> QED BY <1>1, <1>10, <1>11, <1>12, <2>1, <2>2, <2>3
            DEF PutOK, Handing, HasDelay, settings, NoQue, OutQues, NumOutQue
  <1>17. \A g \in Frames : Owed(g)' = Owed(g)
    BY <1>1, <1>10, <1>11, SameOwed
  <1> QED BY <1>7, <1>13, <1>14, <1>15, <1>16, <1>17 DEF IInv

(* A call whose place changes while what is due does not.                    *)
LEMMA PutContainersIInv ==
  ASSUME IInv, NEW o \in OutQues, PutContainers(o)
  PROVE  IInv' /\ \A g \in Frames : Owed(g)' = Owed(g)
  <1>1. /\ put' = [put EXCEPT ![o] = NoPut] /\ put[o].at = "containers"
        /\ UNCHANGED <<settings, free, inQue, dupCount, outId, outList, full, held, lock, cmds, asserted>>
    BY DEF PutContainers, settings, producer, delay
  <1>2. config \in Configs /\ o \in Outs /\ NoPut \in PutType /\ put \in [Outs -> PutType]
    BY Sizes DEF IInv, Types, NoPut, PutType
  <1>3. \A u \in Outs : (u = o => put'[u] = NoPut) /\ (u # o => put'[u] = put[u])
    BY <1>1, <1>2
  <1>4. \A u \in Outs : Handing(u)' <=> Handing(u)
    BY <1>1, <1>3 DEF Handing, NoPut
  <1>5. \A g \in Frames : Due(g)' <=> Due(g)
    BY <1>1, <1>2, <1>3, <1>4, Sizes, SameDue DEF settings, Handing
  <1>6. /\ \A g : Holders(g)' = Holders(g)
        /\ \A u : Pending(u)' = Pending(u)
    BY <1>1, SamePending, SameHolders DEF settings
  <1>7. Types'
    BY <1>1, <1>2 DEF IInv, Types, settings, HasDelay, NoQue, OutQues, NumOutQue
  <1>8. Away' = Away
    BY <1>1 DEF Away
  <1>9. ReturnedLast'
    BY <1>1, <1>3, <1>6 DEF IInv, ReturnedLast, NoPut
  <1>10. \A g \in Away' : CountOK(g)'
    BY <1>1, <1>5, <1>6, <1>8, SameCount DEF IInv, Away
  <1>11. \A u \in OutQues' : OneCopy(u)'
    BY <1>1, <1>6 DEF IInv, OneCopy, OutQues, NumOutQue, settings
  <1>12. \A u \in Outs : PutOK(u)'
    <2> SUFFICES ASSUME NEW u \in Outs PROVE PutOK(u)'
      OBVIOUS
    <2>1. PutOK(u) /\ put[u] \in PutType
      BY DEF IInv, Types
    <2>2. \A g \in put[u].back : g \in Frames
      BY <2>1 DEF PutType
    <2>3. CASE u = o
      BY <1>1, <1>3, <2>1, <2>3 DEF PutOK, NoPut, Handing, OutQues, NumOutQue, settings
    <2>4. CASE u # o
      BY <1>1, <1>3, <1>5, <1>6, <1>8, <2>1, <2>2, <2>4
         DEF PutOK, Handing, HasDelay, settings, NoQue, OutQues, NumOutQue
    <2> QED BY <2>3, <2>4
  <1>13. \A g \in Frames : Owed(g)' = Owed(g)
    BY <1>1, <1>6, <1>5, SameOwed
  <1> QED BY <1>7, <1>9, <1>10, <1>11, <1>12, <1>13 DEF IInv

(* Who has the lock is the only one that hands frames on.                    *)
LEMMA OneLocked ==
  ASSUME IInv, NEW o \in Outs, put[o].at \in {"each", "forward", "putFull"}
  PROVE  \A u \in Outs : put[u].at \in {"each", "forward", "putFull"} => u = o
  BY DEF IInv, PutOK

LEMMA PutBackIInv ==
  ASSUME IInv, NEW o \in OutQues, PutBack(o)
  PROVE  IInv' /\ \A g \in Frames : Owed(g)' = Owed(g)
  <1>1. /\ put[o].at = "each" /\ put[o].todo = {} /\ free' = free \cup put[o].back
        /\ put' = [put EXCEPT ![o] = [NoPut EXCEPT !.at = "containers", !.frames = @ \cup put[o].frames]]
        /\ lock' = NoQue
        /\ UNCHANGED <<settings, inQue, dupCount, outId, outList, full, held, cmds, asserted>>
    BY DEF PutBack, settings, outputs, delay
  <1>2. config \in Configs /\ o \in Outs /\ put \in [Outs -> PutType] /\ OutQues \subseteq Outs
    BY Sizes DEF IInv, Types
  <1>3. PICK p : p = [NoPut EXCEPT !.at = "containers"]
    OBVIOUS
  <1>4. PICK q : q = [p EXCEPT !.frames = @ \cup put[o].frames]
    OBVIOUS
  <1>5. /\ q.at = "containers" /\ q.back = {} /\ q.todo = {} /\ q \in PutType
        /\ put' = [put EXCEPT ![o] = q]
    <2>1. p \in PutType /\ p.at = "containers" /\ p.back = {} /\ p.todo = {}
      BY <1>3 DEF NoPut, PutType
    <2>2. put[o].frames \subseteq Frames
      BY <1>2 DEF PutType
    <2>3. q.at = "containers" /\ q.back = {} /\ q.todo = {} /\ q \in PutType
      BY <1>4, <2>1, <2>2 DEF PutType
    <2> QED BY <1>1, <1>3, <1>4, <2>3
  <1>6. \A u \in Outs : (u = o => put'[u] = q) /\ (u # o => put'[u] = put[u])
    BY <1>2, <1>5
  <1>7. \A u \in Outs : put[u].at \in {"each", "forward", "putFull"} => u = o
    BY <1>1, <1>2, OneLocked
  <1>8. \A u \in Outs : ~Handing(u) /\ ~Handing(u)'
    BY <1>1, <1>5, <1>6, <1>7 DEF Handing
  <1>9. \A g \in Frames : ~Due(g) /\ (Due(g)' <=> Due(g))
    BY <1>1, <1>2, <1>8 DEF Due, settings, OutQues, NumOutQue
  <1>10. /\ \A g : Holders(g)' = Holders(g)
         /\ \A u : Pending(u)' = Pending(u)
    BY <1>1, SamePending, SameHolders DEF settings
  <1>11. \A g \in put[o].back : g \in Away /\ Holders(g) = {}
    BY <1>2 DEF IInv, PutOK
  <1>12. Types'
    <2>1. free' \subseteq Frames /\ free' \cap inQue = {}
      BY <1>1, <1>11 DEF IInv, Types, Away
    <2> QED BY <1>1, <1>2, <1>5, <2>1, Sizes
            DEF IInv, Types, settings, HasDelay, NoQue, OutQues, NumOutQue, Ids
  <1>13. Away' = Away \ put[o].back
    BY <1>1 DEF Away
  <1>14. ReturnedLast'
    BY <1>1, <1>8, <1>10, <1>11 DEF IInv, ReturnedLast, Handing
  <1>15. \A g \in Away' : CountOK(g)'
    BY <1>1, <1>9, <1>10, <1>13, SameCount DEF IInv, Away
  <1>16. \A u \in OutQues' : OneCopy(u)'
    BY <1>1, <1>10 DEF IInv, OneCopy, OutQues, NumOutQue, settings
  <1>17. \A u \in Outs : PutOK(u)'
    <2> SUFFICES ASSUME NEW u \in Outs PROVE PutOK(u)'
      OBVIOUS
    <2>1. PutOK(u) /\ put[u] \in PutType
      BY <1>2 DEF IInv
    <2>2. u # NoQue
      BY <1>2, Sizes
    <2>3. CASE u = o
      BY <1>1, <1>5, <1>6, <1>8, <2>2, <2>3 DEF PutOK, OutQues, NumOutQue, settings
    <2>4. CASE u # o
      <3>1. put[u].at \in {"none", "containers"} /\ put'[u] = put[u]
        BY <1>6, <1>7, <2>1, <2>4 DEF PutType
      <3> QED BY <1>1, <1>8, <2>1, <2>2, <2>4, <3>1 DEF PutOK, OutQues, NumOutQue, settings
    <2> QED BY <2>3, <2>4
  <1>18. \A g \in Frames : Owed(g)' = Owed(g)
    BY <1>1, <1>10, <1>9, SameOwed
  <1> QED BY <1>12, <1>14, <1>15, <1>16, <1>17, <1>18 DEF IInv

(* A call only hands on with a delayed output, which no list is for.         *)
LEMMA HandingOn ==
  ASSUME IInv, ~asserted, NEW o \in OutQues, Handing(o)
  PROVE  /\ HasDelay /\ delayedOutputQueId \in OutQues /\ delayedOutputQueId \in Outs
         /\ syncDelayedOutputQueId # delayedOutputQueId
         /\ ~Direct(delayedOutputQueId) /\ Pending(delayedOutputQueId) = {}
         /\ lock = o /\ \A u \in Outs : Handing(u) => u = o
  <1>1. config \in Configs /\ o \in Outs /\ OutQues \subseteq Outs
    BY Sizes DEF IInv, Types
  <1>2. PutOK(o) /\ \A u \in Outs : put[u].at \in {"each", "forward", "putFull"} => u = o
    BY <1>1, OneLocked DEF IInv, Handing
  <1>3. /\ HasDelay /\ delayedOutputQueId \in OutQues /\ NumOutQue > 1
        /\ syncDelayedOutputQueId # delayedOutputQueId /\ lock = o
    BY <1>2 DEF PutOK, IInv, Types, Handing
  <1>4. ~Direct(delayedOutputQueId)
    BY <1>1, <1>3, Sizes DEF Direct
  <1> QED BY <1>1, <1>2, <1>3, <1>4 DEF Pending, Handing

LEMMA ForwardIInv ==
  ASSUME IInv, ~asserted, NEW o \in OutQues, Forward(o)
  PROVE  IInv' /\ \A g \in Frames : Owed(g)' = Owed(g)
  <1>1. PICK d : d = delayedOutputQueId
    OBVIOUS
  <1>2. /\ put[o].at = "forward" /\ put' = [put EXCEPT ![o].at = "putFull"]
        /\ outList' = [outList EXCEPT ![d] = put[o].last]
        /\ UNCHANGED <<settings, free, inQue, dupCount, outId, full, held, lock, cmds>>
    BY <1>1 DEF Forward, settings, producer, delay
  <1>3. config \in Configs /\ o \in Outs /\ put \in [Outs -> PutType] /\ OutQues \subseteq Outs
    BY Sizes DEF IInv, Types
  <1>4. /\ HasDelay /\ d \in OutQues /\ d \in Outs /\ syncDelayedOutputQueId # d
        /\ ~Direct(d) /\ Pending(d) = {} /\ lock = o
    BY <1>1, <1>2, HandingOn DEF Handing
  <1>5. \A u \in Outs : put[u].at \in {"each", "forward", "putFull"} => u = o
    BY <1>2, <1>3, OneLocked
  <1>6. PICK q : q = [put[o] EXCEPT !.at = "putFull"]
    OBVIOUS
  <1>7. /\ q.at = "putFull" /\ q.last = put[o].last /\ q.back = put[o].back /\ q.todo = put[o].todo
        /\ q \in PutType /\ put' = [put EXCEPT ![o] = q]
    BY <1>2, <1>3, <1>6 DEF PutType
  <1>8. \A u \in Outs : (u = o => put'[u] = q) /\ (u # o => put'[u] = put[u])
    BY <1>3, <1>7
  <1>9. \A u \in Outs : (Handing(u)' <=> Handing(u)) /\ put'[u].last = put[u].last
    BY <1>2, <1>7, <1>8 DEF Handing
  <1>10. \A g \in Frames : Due(g)' <=> Due(g)
    BY <1>2, <1>3, <1>9, SameDue DEF settings
  <1>11. \A u : Direct(u)' <=> Direct(u)
    BY <1>2 DEF Direct, settings, NumOutQue
  <1>12. \A u \in OutQues : Pending(u)' = Pending(u)
    <2> SUFFICES ASSUME NEW u \in OutQues PROVE Pending(u)' = Pending(u)
      OBVIOUS
    <2>1. CASE u = d
      BY <1>4, <1>11, <2>1 DEF Pending
    <2>2. CASE u # d
      <3>1. outList'[u] = outList[u]
        BY <1>2, <1>3, <2>2 DEF IInv, Types
      <3> QED BY <1>2, <1>11, <3>1 DEF Pending, InHandler, NumOutQue, settings
    <2> QED BY <2>1, <2>2
  <1>13. \A g : Holders(g)' = Holders(g)
    BY <1>2, <1>12, SameHolders DEF settings
  <1>14. Types'
    <2>1. put[o].last \subseteq Frames
      BY <1>3 DEF PutType
    <2> QED BY <1>2, <1>3, <1>4, <1>7, <2>1
            DEF IInv, Types, settings, HasDelay, NoQue, OutQues, NumOutQue
  <1>15. Away' = Away
    BY <1>2 DEF Away
  <1>16. ReturnedLast'
    BY <1>2, <1>9, <1>13 DEF IInv, ReturnedLast, Handing
  <1>17. \A g \in Away' : CountOK(g)'
    BY <1>2, <1>10, <1>13, <1>15, SameCount DEF IInv, Away
  <1>18. \A u \in OutQues' : OneCopy(u)'
    BY <1>2, <1>12 DEF IInv, OneCopy, OutQues, NumOutQue, settings
  <1>19. \A u \in Outs : PutOK(u)'
    <2> SUFFICES ASSUME NEW u \in Outs PROVE PutOK(u)'
      OBVIOUS
    <2>1. PutOK(u) /\ put[u] \in PutType
      BY <1>3 DEF IInv
    <2>2. HasDelay' /\ (syncDelayedOutputQueId # delayedOutputQueId)'
      BY <1>1, <1>2, <1>4 DEF settings, HasDelay, NoQue
    <2>3. CASE u = o
      <3>1. outList'[d] = put[o].last
        BY <1>2, <1>4 DEF IInv, Types
      <3>2. \A f \in q.back : f \in Away' /\ Holders(f)' = {} /\ ~Due(f)'
        <4>1. \A f \in put[o].back : f \in Away /\ Holders(f) = {} /\ ~Due(f)
          BY <1>4, <2>1, <2>3 DEF PutOK
        <4> QED BY <1>7, <1>10, <1>13, <1>15, <4>1 DEF Away
      <3>3. q.todo \subseteq held'[o] /\ put'[o] = q
        BY <1>2, <1>3, <1>7, <1>8, <2>1, <2>3 DEF PutOK
      <3> QED BY <1>1, <1>2, <1>3, <1>4, <1>7, <2>2, <2>3, <3>1, <3>2, <3>3
              DEF PutOK, OutQues, NumOutQue, settings
    <2>4. CASE u # o
      <3>1. put[u].at \in {"none", "containers"} /\ put'[u] = put[u]
        BY <1>5, <1>8, <2>1, <2>4 DEF PutType
      <3> QED BY <1>2, <1>4, <2>1, <2>4, <3>1 DEF PutOK, OutQues, NumOutQue, settings, Handing
    <2> QED BY <2>3, <2>4
  <1>20. \A g \in Frames : Owed(g)' = Owed(g)
    BY <1>2, <1>13, <1>10, SameOwed
  <1> QED BY <1>14, <1>16, <1>17, <1>18, <1>19, <1>20 DEF IInv

LEMMA PutDelayedIInv ==
  ASSUME IInv, ~asserted, NEW o \in OutQues, PutDelayed(o)
  PROVE  /\ IInv'
         /\ outList[delayedOutputQueId] = put[o].last => \A g \in Away : Owed(g)' = Owed(g)
  <1>1. PICK d : d = delayedOutputQueId
    OBVIOUS
  <1>2. /\ put[o].at = "putFull" /\ put' = [put EXCEPT ![o].at = "each", ![o].last = {}]
        /\ full' = [full EXCEPT ![d] = @ \cup outList[d]]
        /\ outList' = [outList EXCEPT ![d] = {}]
        /\ UNCHANGED <<settings, free, inQue, dupCount, outId, held, lock, cmds, asserted>>
    BY <1>1 DEF PutDelayed, PutFull, settings, producer, delay
  <1>3. config \in Configs /\ o \in Outs /\ put \in [Outs -> PutType] /\ OutQues \subseteq Outs
    BY Sizes DEF IInv, Types
  <1>4. /\ HasDelay /\ d \in OutQues /\ d \in Outs /\ syncDelayedOutputQueId # d
        /\ ~Direct(d) /\ Pending(d) = {} /\ lock = o
    BY <1>1, <1>2, HandingOn DEF Handing
  <1>5. \A u \in Outs : put[u].at \in {"each", "forward", "putFull"} => u = o
    BY <1>2, <1>3, OneLocked
  <1>6. PICK a : a = [put EXCEPT ![o].at = "each"]
    OBVIOUS
  <1>7. PICK q : q = [a[o] EXCEPT !.last = {}]
    OBVIOUS
  <1>8. /\ q.at = "each" /\ q.last = {} /\ q.back = put[o].back /\ q.todo = put[o].todo /\ q \in PutType
        /\ put' = [a EXCEPT ![o] = q] /\ a \in [Outs -> PutType]
        /\ \A u \in Outs : u # o => a[u] = put[u]
    <2>1. PICK r : r = [put[o] EXCEPT !.at = "each"]
      OBVIOUS
    <2>2. r \in PutType /\ r.at = "each" /\ r.back = put[o].back /\ r.todo = put[o].todo
      BY <1>3, <2>1 DEF PutType
    <2>3. a = [put EXCEPT ![o] = r] /\ a[o] = r
      BY <1>3, <1>6, <2>1
    <2>4. q \in PutType /\ q.at = "each" /\ q.back = put[o].back /\ q.last = {} /\ q.todo = put[o].todo
      BY <1>7, <2>2, <2>3 DEF PutType
    <2>5. put' = [a EXCEPT ![o] = q]
      BY <1>2, <1>3, <1>6, <1>7
    <2> QED BY <1>3, <2>2, <2>3, <2>4, <2>5
  <1>9. \A u \in Outs : (u = o => put'[u] = q) /\ (u # o => put'[u] = put[u])
    BY <1>3, <1>8
  <1>10. \A u \in Outs : (Handing(u) => u = o) /\ ~Handing(u)'
    BY <1>5, <1>8, <1>9 DEF Handing
  <1>11. \A g \in Frames : (Due(g) <=> g \in put[o].last) /\ ~Due(g)'
    BY <1>2, <1>3, <1>10 DEF Due, Handing, settings, OutQues, NumOutQue
  <1>12. \A u \in OutQues : Pending(u)' = Pending(u)
    <2> SUFFICES ASSUME NEW u \in OutQues PROVE Pending(u)' = Pending(u)
      OBVIOUS
    <2>1. Direct(u)' <=> Direct(u)
      BY <1>2 DEF Direct, settings, NumOutQue
    <2>2. CASE u = d
      BY <1>4, <2>1, <2>2 DEF Pending
    <2>3. CASE u # d
      <3>1. outList'[u] = outList[u]
        BY <1>2, <1>3, <2>3 DEF IInv, Types
      <3> QED BY <1>2, <2>1, <3>1 DEF Pending, InHandler, NumOutQue, settings
    <2> QED BY <2>2, <2>3
  <1>13. /\ full'[d] = full[d] \cup outList[d] /\ \A u \in OutQues : u # d => full'[u] = full[u]
    BY <1>2, <1>3, <1>4 DEF IInv, Types
  <1>14. outList[d] \subseteq put[o].last /\ outList[d] \subseteq Frames
    BY <1>1, <1>2, <1>3, <1>4 DEF IInv, PutOK, Types
  <1>15. \A g : Holders(g)' = Holders(g) \cup {u \in {d} : g \in outList[d]}
    BY <1>2, <1>4, <1>12, <1>13 DEF Holders, settings, OutQues, NumOutQue
  <1>16. Away' = Away
    BY <1>2 DEF Away
  <1>17. \A g \in outList[d] : g \in Away /\ Due(g) /\ Awaited(g) /\ d \notin Holders(g)
    <2> SUFFICES ASSUME NEW g \in outList[d]
                 PROVE  g \in Away /\ Due(g) /\ Awaited(g) /\ d \notin Holders(g)
      OBVIOUS
    <2>1. g \in Frames /\ Due(g) /\ g \in put[o].last
      BY <1>11, <1>14
    <2>2. g \in Away
      BY <1>2, <1>3, <2>1 DEF IInv, ReturnedLast, Away
    <2> QED BY <1>1, <1>4, <2>1, <2>2 DEF Awaited, IInv, CountOK
  <1>18. Types'
    <2>1. put' \in [Outs -> PutType]
      BY <1>3, <1>8
    <2>2. full \in [Outs -> SUBSET Frames] /\ outList \in [Outs -> SUBSET Frames]
      BY DEF IInv, Types
    <2>3. full' \in [Outs -> SUBSET Frames]
      BY <1>2, <1>4, <1>14, <2>2
    <2>4. outList' \in [Outs -> SUBSET Frames]
      BY <1>2, <1>4, <2>2
    <2>5. Types
      BY DEF IInv
    <2> QED BY <1>2, <2>1, <2>3, <2>4, <2>5 DEF Types, settings, HasDelay, NoQue, OutQues, NumOutQue
  <1>19. ReturnedLast'
    <2>1. \A g \in free \cup inQue : g \notin outList[d]
      BY <1>17 DEF Away
    <2> QED BY <1>2, <1>10, <1>15, <2>1 DEF IInv, ReturnedLast, Handing
  <1>20. \A g \in Away' : CountOK(g)'
    <2> SUFFICES ASSUME NEW g \in Away PROVE CountOK(g)'
      BY <1>16
    <2>1. g \in Frames /\ CountOK(g) /\ HasDelay /\ HasDelay'
      BY <1>2, <1>4 DEF IInv, Away, HasDelay, settings, NoQue
    <2>2. Waiting(g)' <=> Waiting(g)
      BY <1>2, <1>4, <1>15 DEF Waiting, settings, NoQue
    <2>3. Awaited(g)' <=> Waiting(g)
      BY <1>11, <2>1, <2>2 DEF Awaited
    <2>4. Owed(g)' = Holders(g)' \cup {u \in OutQues : u = d /\ Waiting(g)}
      BY <1>1, <1>2, <2>3 DEF Owed, settings, OutQues, NumOutQue
    <2>5. Owed(g)' \subseteq Owed(g)
      BY <1>1, <1>4, <1>15, <1>17, <2>1, <2>4 DEF Owed, Awaited
    <2>6. Cardinality(Owed(g)') <= Cardinality(Owed(g))
          /\ Cardinality(Owed(g)') \in Nat /\ Cardinality(Owed(g)) \in Nat
      BY <1>3, <2>1, <2>5, OwedOuts, FewOwed DEF IInv
    <2>7. Cardinality(Owed(g))' <= dupCount'[g]
      <3>1. dupCount[g] \in Int
        BY <2>1 DEF IInv, Types
      <3> QED BY <1>2, <2>1, <2>6, <3>1 DEF CountOK
    <2>8. Waiting(g) => d \notin Holders(g)'
      BY <1>1, <1>15, <1>17, <2>1 DEF CountOK, Awaited
    <2> QED BY <1>1, <1>2, <1>11, <2>1, <2>3, <2>7, <2>8 DEF CountOK, settings
  <1>21. \A u \in OutQues' : OneCopy(u)'
    <2> SUFFICES ASSUME NEW u \in OutQues PROVE OneCopy(u)'
      BY <1>2 DEF settings, OutQues, NumOutQue
    <2>1. OneCopy(u)
      BY DEF IInv
    <2>2. CASE u = d
      <3>1. outList[d] \cap held[d] = {}
        BY <1>4, <1>17 DEF Holders
      <3> QED BY <1>2, <1>4, <1>12, <1>13, <2>1, <2>2, <3>1 DEF OneCopy
    <2>3. CASE u # d
      BY <1>2, <1>12, <1>13, <2>1, <2>3 DEF OneCopy
    <2> QED BY <2>2, <2>3
  <1>22. \A u \in Outs : PutOK(u)'
    <2> SUFFICES ASSUME NEW u \in Outs PROVE PutOK(u)'
      OBVIOUS
    <2>1. PutOK(u) /\ put[u] \in PutType
      BY <1>3 DEF IInv
    <2>3. CASE u = o
      <3>2. \A f \in q.back : f \in Away' /\ Holders(f)' = {} /\ ~Due(f)'
        <4>1. \A f \in put[o].back : f \in Away /\ Holders(f) = {} /\ ~Due(f)
          BY <1>4, <2>1, <2>3 DEF PutOK
        <4> QED BY <1>8, <1>11, <1>15, <1>16, <1>17, <4>1 DEF Away
      <3>3. q.todo \subseteq held'[o] /\ put'[o] = q
        BY <1>2, <1>3, <1>8, <1>9, <2>1, <2>3 DEF PutOK
      <3> QED BY <1>2, <1>3, <1>4, <1>8, <1>10, <2>3, <3>2, <3>3
              DEF PutOK, OutQues, NumOutQue, settings
    <2>4. CASE u # o
      <3>1. put[u].at \in {"none", "containers"} /\ put'[u] = put[u]
        BY <1>5, <1>9, <2>1, <2>4 DEF PutType
      <3> QED BY <1>2, <1>4, <2>1, <2>4, <3>1 DEF PutOK, OutQues, NumOutQue, settings, Handing
    <2> QED BY <2>3, <2>4
  <1>23. ASSUME outList[d] = put[o].last, NEW g \in Away PROVE Owed(g)' = Owed(g)
    <2>1. g \in Frames /\ CountOK(g) /\ HasDelay /\ HasDelay'
      BY <1>2, <1>4 DEF IInv, Away, HasDelay, settings, NoQue
    <2>2. Waiting(g)' <=> Waiting(g)
      BY <1>2, <1>4, <1>15 DEF Waiting, settings, NoQue
    <2>3. Awaited(g)' <=> Waiting(g)
      BY <1>11, <2>1, <2>2 DEF Awaited
    <2>4. Awaited(g) <=> g \in outList[d] \/ Waiting(g)
      BY <1>11, <1>23, <2>1 DEF Awaited
    <2> QED BY <1>1, <1>2, <1>4, <1>15, <2>3, <2>4 DEF Owed, settings, OutQues, NumOutQue
  <1> QED BY <1>1, <1>18, <1>19, <1>20, <1>21, <1>22, <1>23 DEF IInv

(* A call that starts changes neither what the outputs have nor what is due. *)
LEMMA PutEmptyIInv ==
  ASSUME IInv, NEW o \in OutQues, NEW frames \in SUBSET held[o], PutEmpty(o, frames)
  PROVE  IInv' /\ \A g \in Frames : Owed(g)' = Owed(g)
  <1>1. PICK q : q = [NoPut EXCEPT !.at = "each", !.todo = frames]
    OBVIOUS
  <1>2. /\ put[o] = NoPut /\ lock = NoQue /\ lock' = o /\ put' = [put EXCEPT ![o] = q]
        /\ UNCHANGED <<settings, free, inQue, dupCount, outId, outList, full, held, cmds, asserted>>
    BY <1>1 DEF PutEmpty, settings, producer, outputs, delay
  <1>3. /\ config \in Configs /\ o \in Outs /\ put \in [Outs -> PutType] /\ OutQues \subseteq Outs
        /\ frames \subseteq Frames
    BY Sizes DEF IInv, Types
  <1>4. q.at = "each" /\ q.todo = frames /\ q.back = {} /\ q \in PutType
    BY <1>1, <1>3 DEF NoPut, PutType
  <1>5. \A u \in Outs : (u = o => put'[u] = q) /\ (u # o => put'[u] = put[u])
    BY <1>2, <1>3
  <1>6. \A u \in Outs : put[u].at \in {"none", "containers"} /\ ~Handing(u) /\ ~Handing(u)'
    <2>1. \A u \in Outs : u # NoQue /\ PutOK(u) /\ put[u] \in PutType
      BY <1>3, Sizes DEF IInv
    <2> QED BY <1>2, <1>4, <1>5, <2>1 DEF PutOK, PutType, Handing
  <1>7. \A g \in Frames : ~Due(g) /\ (Due(g)' <=> Due(g))
    BY <1>2, <1>3, <1>6 DEF Due, settings, OutQues, NumOutQue
  <1>8. /\ \A g : Holders(g)' = Holders(g)
        /\ \A u : Pending(u)' = Pending(u)
    BY <1>2, SamePending, SameHolders DEF settings
  <1>9. Types'
    BY <1>2, <1>3, <1>4, Sizes DEF IInv, Types, settings, HasDelay, NoQue, OutQues, NumOutQue, Ids
  <1>10. Away' = Away
    BY <1>2 DEF Away
  <1>11. ReturnedLast'
    BY <1>2, <1>6, <1>8 DEF IInv, ReturnedLast, Handing
  <1>12. \A g \in Away' : CountOK(g)'
    BY <1>2, <1>7, <1>8, <1>10, SameCount DEF IInv, Away
  <1>13. \A u \in OutQues' : OneCopy(u)'
    BY <1>2, <1>8 DEF IInv, OneCopy, OutQues, NumOutQue, settings
  <1>14. \A u \in Outs : PutOK(u)'
    <2> SUFFICES ASSUME NEW u \in Outs PROVE PutOK(u)'
      OBVIOUS
    <2>1. PutOK(u) /\ put[u] \in PutType
      BY <1>3 DEF IInv
    <2>2. CASE u = o
      BY <1>2, <1>3, <1>4, <1>5, <1>6, <2>2 DEF PutOK, OutQues, NumOutQue, settings
    <2>3. CASE u # o
      BY <1>2, <1>5, <1>6, <2>1, <2>3 DEF PutOK, OutQues, NumOutQue, settings
    <2> QED BY <2>2, <2>3
  <1>15. \A g \in Frames : Owed(g)' = Owed(g)
    BY <1>2, <1>7, <1>8, SameOwed
  <1> QED BY <1>9, <1>11, <1>12, <1>13, <1>14, <1>15 DEF IInv

(* An output that gives a frame back is no longer owed it.                   *)
LEMMA CountDownIInv ==
  ASSUME IInv, NEW o \in OutQues, NEW last, CountDown(o, last)
  PROVE  /\ IInv' /\ last \in Away /\ o \in Owed(last)
         /\ \A g \in Away : Owed(g)' = IF g = last THEN Owed(g) \ {o} ELSE Owed(g)
  <1> DEFINE frames == {last}
  <1>1. /\ CountDown(o, last) /\ last \in frames /\ last \in put[o].todo
        /\ frames \subseteq held[o]
    <2>1. o \in Outs /\ put[o].todo \subseteq held[o]
      BY Sizes DEF IInv, Types, PutOK
    <2> QED BY <2>1 DEF CountDown
  <1>2. PICK d : d = delayedOutputQueId
    OBVIOUS
  <1>3. PICK forwards \in BOOLEAN : forwards <=> Forwards(o, last)
    OBVIOUS
  <1>4. PICK q : q = [at |-> IF Forwards(o, last) THEN "forward" ELSE "each",
                      todo |-> put[o].todo \ {last}, frames |-> put[o].frames \cup {last},
                      last |-> IF Forwards(o, last) THEN {last} ELSE {},
                      back |-> put[o].back \cup Freed(last)]
    OBVIOUS
  <1>30. put[o].at = "each" /\ dupCount \in [Frames -> Int] /\ o \in Outs /\ lock = o
    BY <1>1, Sizes DEF CountDown, IInv, Types, PutOK
  <1>5. /\ held' = [held EXCEPT ![o] = @ \ frames]
        /\ dupCount' = [f \in Frames |-> IF f \in frames THEN dupCount[f] - 1 ELSE dupCount[f]]
        /\ put' = [put EXCEPT ![o] = q] /\ (forwards /\ d = NoQue => asserted')
        /\ UNCHANGED <<settings, free, inQue, outId, outList, full, lock, cmds>>
    BY <1>1, <1>2, <1>3, <1>4, <1>30 DEF CountDown, settings, producer, outputs, delay
  <1>6. /\ config \in Configs /\ o \in Outs /\ put \in [Outs -> PutType] /\ OutQues \subseteq Outs
        /\ held \in [Outs -> SUBSET Frames] /\ frames \subseteq Frames /\ last \in Frames
        /\ dupCount \in [Frames -> Int] /\ NumOutQue \in Nat /\ NumOutQue <= NoQue /\ d \in Ids
    BY <1>1, <1>2, <1>30, Sizes DEF IInv, Types, NoQue
  <1>7. /\ q.at \in {"each", "forward"} /\ (q.at = "forward" <=> forwards)
        /\ q.last = (IF forwards THEN {last} ELSE {}) /\ q.back = put[o].back \cup Freed(last)
        /\ q.todo = put[o].todo \ {last} /\ q \in PutType
    BY <1>3, <1>4, <1>6 DEF PutType, Freed
  <1>8. \A u \in Outs : (u = o => put'[u] = q) /\ (u # o => put'[u] = put[u])
    BY <1>5, <1>6
  <1>9. \A u \in Outs : (u # o => put[u].at \in {"none", "containers"}) /\ ~Handing(u)
    <2>1. \A u \in Outs : put[u] \in PutType
      BY <1>6
    <2> QED BY <1>30, <2>1, OneLocked DEF PutType, Handing
  <1>10. \A u \in Outs : Handing(u)' <=> u = o /\ forwards
    BY <1>7, <1>8, <1>9 DEF Handing
  <1>11. \A g \in Frames : ~Due(g) /\ (Due(g)' <=> forwards /\ g = last)
    BY <1>5, <1>6, <1>7, <1>8, <1>9, <1>10 DEF Due, settings, OutQues, NumOutQue
  <1>12. \A u : Pending(u)' = Pending(u)
    BY <1>5, SamePending DEF settings
  <1>13. held'[o] = held[o] \ frames /\ \A u \in Outs : u # o => held'[u] = held[u]
    BY <1>5, <1>6
  <1>14. \A g : Holders(g)' = IF g \in frames THEN Holders(g) \ {o} ELSE Holders(g)
    <2>1. \A g \in frames : g \in held[o] /\ g \notin full[o] /\ g \notin Pending(o)
      BY <1>1 DEF IInv, OneCopy
    <2>2. OutQues' = OutQues /\ full' = full
      BY <1>5 DEF settings, OutQues, NumOutQue
    <2>3. \A g, u : u \in OutQues =>
             (u \in Holders(g)' <=> u \in Holders(g) /\ ~(u = o /\ g \in frames))
      BY <1>6, <1>12, <1>13, <2>1, <2>2 DEF Holders
    <2>4. \A g : Holders(g) \subseteq OutQues /\ Holders(g)' \subseteq OutQues
      BY <2>2 DEF Holders
    <2> QED BY <2>3, <2>4
  <1>15. \A g \in frames : o \in Holders(g) /\ g \in Away
    <2>1. \A g \in frames : o \in Holders(g)
      BY <1>1 DEF Holders
    <2> QED BY <1>6, <2>1 DEF IInv, ReturnedLast, Away
  <1>16. Away' = Away
    BY <1>5 DEF Away
  <1>17. \A g \in Frames : Waiting(g)' => Waiting(g)
    BY <1>5, <1>6, <1>14 DEF Waiting, settings, NoQue
  <1>18. ASSUME forwards, d # NoQue PROVE Waiting(last) /\ ~Waiting(last)' /\ syncDelayedOutputQueId # d
    <2>1. CASE syncDelayedOutputQueId # NoQue
      <3>1. syncDelayedOutputQueId = o
        BY <1>3, <1>18, <2>1 DEF Forwards
      <3>2. Waiting(last) /\ ~Waiting(last)'
        BY <1>5, <1>14, <1>15, <2>1, <3>1 DEF Waiting, settings, NoQue
      <3>3. d \notin Holders(last)
        BY <1>2, <1>15, <1>18, <3>2 DEF IInv, CountOK, Awaited, HasDelay
      <3> QED BY <1>15, <3>1, <3>2, <3>3
    <2>2. CASE syncDelayedOutputQueId = NoQue
      <3>1. dupCount'[last] = 1
        BY <1>3, <1>18, <2>2 DEF Forwards
      <3>2. dupCount[last] = 2
        BY <1>5, <1>6, <3>1
      <3> QED BY <1>5, <1>18, <2>2, <3>1, <3>2 DEF Waiting, settings, NoQue
    <2> QED BY <2>1, <2>2
  <1>19. \A g \in Frames : Awaited(g)' => Awaited(g)
    BY <1>2, <1>5, <1>11, <1>17, <1>18 DEF Awaited, HasDelay, settings, NoQue
  <1>20. \A g \in frames : o \in Owed(g) /\ (Awaited(g) => o # d)
    BY <1>2, <1>6, <1>15 DEF IInv, CountOK, Owed
  <1>21. \A g \in Frames : Owed(g)' = Holders(g)' \cup {u \in OutQues : u = d /\ Awaited(g)'}
    BY <1>2, <1>5 DEF Owed, settings, OutQues, NumOutQue
  <1>22. \A g \in Frames : Owed(g)' \subseteq Owed(g) /\ (g \in frames => o \notin Owed(g)')
    BY <1>2, <1>14, <1>19, <1>20, <1>21 DEF Owed
  <1>23. Types'
    BY <1>5, <1>6, <1>7, Sizes DEF IInv, Types, settings, HasDelay, NoQue, OutQues, NumOutQue, Ids
  <1>24. ReturnedLast'
    <2>1. \A g \in free \cup inQue : g \notin frames
      BY <1>15 DEF Away
    <2>2. \A g \in free \cup inQue : g # last
      BY <1>1, <2>1
    <2> QED BY <1>5, <1>7, <1>8, <1>10, <1>14, <2>1, <2>2 DEF IInv, ReturnedLast, Handing
  <1>25. \A g \in Away' : CountOK(g)'
    <2> SUFFICES ASSUME NEW g \in Away PROVE CountOK(g)'
      BY <1>16
    <2>1. g \in Frames /\ CountOK(g) /\ dupCount[g] \in Int
      BY <1>6 DEF IInv, Away
    <2>2. /\ Cardinality(Owed(g)) \in Nat /\ Cardinality(Owed(g)') \in Nat
          /\ Cardinality(Owed(g)') <= Cardinality(Owed(g))
          /\ g \in frames => Cardinality(Owed(g)') <= Cardinality(Owed(g)) - 1
      BY <1>6, <1>20, <1>22, <2>1, OwedOuts, FewOwed DEF IInv
    <2>3. Cardinality(Owed(g)') <= dupCount'[g]
      BY <1>5, <2>1, <2>2 DEF CountOK
    <2>4. Awaited(g)' => d \notin Holders(g)'
      BY <1>2, <1>14, <1>19, <2>1 DEF CountOK
    <2>5. HasDelay' /\ Due(g)' => ~Waiting(g)'
      BY <1>2, <1>5, <1>11, <1>18, <2>1 DEF HasDelay, settings, NoQue
    <2> QED BY <1>2, <1>5, <2>3, <2>4, <2>5 DEF CountOK, settings
  <1>26. \A u \in OutQues' : OneCopy(u)'
    <2> SUFFICES ASSUME NEW u \in OutQues PROVE OneCopy(u)'
      BY <1>5 DEF settings, OutQues, NumOutQue
    <2>1. OneCopy(u) /\ held'[u] \subseteq held[u]
      BY <1>6, <1>13 DEF IInv
    <2> QED BY <1>5, <1>12, <2>1 DEF OneCopy
  <1>27. \A g \in Freed(last) : g \in Away' /\ Holders(g)' = {} /\ (HasDelay' => ~Due(g)')
    <2> SUFFICES ASSUME NEW g \in frames, dupCount[g] = 1
                 PROVE  g \in Away' /\ Holders(g)' = {} /\ (HasDelay' => ~Due(g)')
      BY DEF Freed
    <2>1. g \in Frames /\ g \in Away /\ CountOK(g) /\ o \in Holders(g) /\ o \in Owed(g)
      BY <1>6, <1>15, <1>20 DEF IInv
    <2>2. \A u, v \in Owed(g) : u = v
      BY <1>6, <2>1, OwedOuts, FewOwed DEF IInv, CountOK
    <2>3. Owed(g) = {o} /\ Holders(g) = {o}
      BY <2>1, <2>2 DEF Owed
    <2>4. ~(HasDelay /\ Waiting(g))
      <3> SUFFICES ASSUME HasDelay, Waiting(g) PROVE FALSE
        OBVIOUS
      <3>1. Awaited(g) /\ d \in OutQues
        BY <1>2 DEF Awaited, IInv, Types
      <3>2. d \in Owed(g) /\ o # d
        BY <1>2, <1>20, <3>1 DEF Owed
      <3> QED BY <2>3, <3>2
    <2>5. HasDelay' => ~Due(g)'
      BY <1>2, <1>5, <1>11, <1>18, <2>1, <2>4 DEF HasDelay, settings, NoQue
    <2> QED BY <1>14, <1>16, <2>1, <2>3, <2>5
  <1>28. \A u \in Outs : PutOK(u)'
    <2> SUFFICES ASSUME NEW u \in Outs PROVE PutOK(u)'
      OBVIOUS
    <2>1. PutOK(u) /\ put[u] \in PutType
      BY <1>6 DEF IInv
    <2>3. CASE u = o
      <3>1. Handing(u)' => asserted' \/ (HasDelay /\ syncDelayedOutputQueId # delayedOutputQueId)'
        BY <1>2, <1>5, <1>10, <1>18 DEF HasDelay, settings, NoQue
      <3>2. \A g \in put[o].back : g \in Away' /\ Holders(g)' = {} /\ (HasDelay' => ~Due(g)')
        <4> SUFFICES ASSUME NEW g \in put[o].back
                     PROVE  g \in Away' /\ Holders(g)' = {} /\ (HasDelay' => ~Due(g)')
          OBVIOUS
        <4>1. g \in Away /\ g \in Frames /\ Holders(g) = {}
          BY <2>1, <2>3 DEF PutOK, PutType
        <4>2. g # last
          BY <1>15, <4>1
        <4> QED BY <1>11, <1>14, <1>16, <4>1, <4>2
      <3>3. put'[o].todo \subseteq held'[o]
        BY <1>6, <1>7, <1>8, <1>13, <2>1, <2>3 DEF PutOK
      <3> QED BY <1>5, <1>6, <1>7, <1>8, <1>27, <1>30, <2>3, <3>1, <3>2, <3>3
              DEF PutOK, OutQues, NumOutQue, settings
    <2>4. CASE u # o
      BY <1>5, <1>8, <1>9, <1>10, <1>13, <1>30, <2>1, <2>4 DEF PutOK, OutQues, NumOutQue, settings
    <2> QED BY <2>3, <2>4
  <1>29. ASSUME NEW g \in Away
         PROVE  Owed(g)' = IF g \in frames THEN Owed(g) \ {o} ELSE Owed(g)
    <2>1. g \in Frames /\ (HasDelay' <=> HasDelay)
      BY <1>5 DEF Away, HasDelay, settings, NoQue
    <2>2. CASE g \notin frames
      <3>1. Holders(g)' = Holders(g) /\ dupCount'[g] = dupCount[g] /\ ~Due(g) /\ ~Due(g)'
        BY <1>1, <1>5, <1>11, <1>14, <2>1, <2>2
      <3>2. Awaited(g)' <=> Awaited(g)
        BY <1>5, <2>1, <3>1 DEF Awaited, Waiting, settings, NoQue
      <3> QED BY <1>2, <1>21, <2>1, <2>2, <3>1, <3>2 DEF Owed
    <2>3. CASE g \in frames /\ ~HasDelay
      BY <1>14, <1>21, <2>1, <2>3 DEF Awaited, Owed
    <2>4. CASE g \in frames /\ HasDelay
      <3>1. g = last /\ d # NoQue
        BY <1>2, <2>4 DEF HasDelay
      <3>2. Waiting(g) => Waiting(g)' \/ forwards
        <4>1. CASE syncDelayedOutputQueId # NoQue
          BY <1>3, <1>5, <1>14, <4>1 DEF Waiting, Forwards, settings, NoQue
        <4>2. CASE syncDelayedOutputQueId = NoQue
          <5>1. Waiting(g) => dupCount'[g] = 1 \/ dupCount'[g] > 1
            BY <1>5, <1>6, <2>1, <2>4, <4>2 DEF Waiting
          <5>2. dupCount'[g] = 1 => forwards
            <6>1. d < NumOutQue
              BY <1>2, <1>6, <3>1 DEF IInv, Types, HasDelay, OutQues
            <6> QED BY <1>2, <1>3, <3>1, <4>2, <6>1 DEF Forwards
          <5> QED BY <1>5, <4>2, <5>1, <5>2 DEF Waiting, settings, NoQue
        <4> QED BY <4>1, <4>2
      <3>3. Awaited(g)' <=> Awaited(g)
        BY <1>11, <1>19, <2>1, <2>4, <3>1, <3>2 DEF Awaited
      <3> QED BY <1>2, <1>14, <1>20, <1>21, <2>1, <2>4, <3>3 DEF Owed
    <2> QED BY <2>2, <2>3, <2>4
  <1> QED BY <1>15, <1>20, <1>23, <1>24, <1>25, <1>26, <1>28, <1>29 DEF IInv

(* A frame is counted for all outputs as it comes in.                        *)
LEMMA ProcessFramesIInv ==
  ASSUME IInv, ~asserted, ProcessFrames
  PROVE  /\ IInv'
         /\ \A g \in Away : g \in Frames /\ g \notin inQue /\ Owed(g)' = Owed(g)
         /\ Away' = Away \cup inQue /\ \A g \in inQue : Holders(g)' = Copied /\ Holders(g) = {}
  <1>1. PICK D : D = inQue
    OBVIOUS
  <1>2. /\ ~InHandler
        /\ UNCHANGED <<settings, free, full, held, put, lock, cmds>>
    BY DEF ProcessFrames, MayRun, settings, delay
  <1>3. /\ config \in Configs /\ OutQues \subseteq Outs /\ NumOutQue \in 1 .. MaxOutQue /\ NumOutQue \in Nat
        /\ D \subseteq Frames /\ free \cap D = {} /\ dupCount \in [Frames -> Int]
    BY <1>1, Sizes DEF IInv, Types
  <1>4. \A o \in OutQues : Pending(o) = {}
    BY <1>2 DEF Pending
  <1>5. \A u \in Outs : (Handing(u)' <=> Handing(u))
    BY <1>2 DEF Handing
  <1>6. \A g \in Frames : Due(g)' <=> Due(g)
    BY <1>2, <1>3, <1>5, SameDue DEF settings
  <1>7. CASE D = {}
    <2>1. UNCHANGED <<inQue, dupCount, outList, outId, asserted>>
      BY <1>1, <1>7 DEF ProcessFrames
    <2>2. /\ \A g : Holders(g)' = Holders(g)
          /\ \A u : Pending(u)' = Pending(u)
      BY <1>2, <2>1, SamePending, SameHolders DEF settings
    <2>3. Types' /\ Away' = Away
      BY <1>2, <2>1 DEF IInv, Types, settings, HasDelay, NoQue, OutQues, NumOutQue, Away
    <2>4. ReturnedLast'
      BY <1>2, <2>1, <2>2 DEF IInv, ReturnedLast
    <2>5. \A g \in Away' : CountOK(g)'
      BY <1>2, <1>6, <2>1, <2>2, <2>3, SameCount DEF IInv, Away
    <2>6. \A u \in OutQues' : OneCopy(u)'
      BY <1>2, <2>2 DEF IInv, OneCopy, OutQues, NumOutQue, settings
    <2>7. \A u \in Outs : PutOK(u)'
      <3> SUFFICES ASSUME NEW u \in Outs PROVE PutOK(u)'
        OBVIOUS
      <3>1. PutOK(u) /\ \A g \in put[u].back : g \in Frames
        BY DEF IInv, Types, PutType
      <3> QED BY <1>2, <1>6, <2>1, <2>2, <2>3, <3>1
              DEF PutOK, Handing, HasDelay, settings, NoQue, OutQues, NumOutQue
    <2>8. \A g \in Frames : Owed(g)' = Owed(g)
      BY <1>2, <1>6, <2>1, <2>2, SameOwed
    <2>9. \A g \in Away : g \in Frames /\ g \notin inQue
      BY DEF Away
    <2> QED BY <1>1, <1>7, <2>3, <2>4, <2>5, <2>6, <2>7, <2>8, <2>9 DEF IInv
  <1>8. CASE D # {}
    <2>1. /\ inQue' = {} /\ outId' = 0
          /\ dupCount' = [f \in Frames |-> IF f \in D THEN NumOutQue ELSE dupCount[f]]
          /\ outList' = [o \in Outs |-> IF o \in Copied THEN D ELSE {}]
      BY <1>1, <1>8 DEF ProcessFrames
    <2>2. PICK C \in SUBSET OutQues : C = Copied
      BY DEF Copied
    <2>3. \A o \in OutQues : o \in C <=> Direct(o)
      BY <2>2 DEF Copied
    <2>4. \A o \in OutQues : Pending(o)' = IF o \in C THEN D ELSE {}
      <3>1. InHandler' /\ \A o \in OutQues : outId' <= o
        BY <1>2, <1>3, <2>1 DEF InHandler, OutQues, settings, NumOutQue
      <3>2. \A o : Direct(o)' <=> Direct(o)
        BY <1>2 DEF Direct, settings, NumOutQue
      <3>3. \A o \in OutQues : outList'[o] = IF o \in C THEN D ELSE {}
        BY <1>3, <2>1, <2>2
      <3> QED BY <2>3, <3>1, <3>2, <3>3 DEF Pending
    <2>5. \A g \in D : Holders(g) = {} /\ ~Due(g)
      BY <1>1, <1>3 DEF IInv, ReturnedLast, Due, Handing
    <2>6. \A g : Holders(g)' = IF g \in D THEN C ELSE Holders(g)
      <3>1. OutQues' = OutQues /\ full' = full /\ held' = held
        BY <1>2 DEF settings, OutQues, NumOutQue
      <3>2. \A g, u : u \in OutQues => (u \in Holders(g)' <=> u \in Holders(g) \/ (g \in D /\ u \in C))
        BY <1>4, <2>4, <3>1 DEF Holders
      <3>3. \A g : Holders(g) \subseteq OutQues /\ Holders(g)' \subseteq OutQues
        BY <3>1 DEF Holders
      <3> QED BY <2>5, <3>2, <3>3
    <2>7. HasDelay => delayedOutputQueId \notin C /\ delayedOutputQueId \in OutQues
      BY <1>3, <2>3 DEF IInv, Types, Direct
    <2>8. Away' = Away \cup D /\ \A g \in Away : g \notin D
      BY <1>1, <1>2, <1>3, <2>1 DEF Away
    <2>9. Types'
      <3>1. dupCount' \in [Frames -> Int]
        BY <1>3, <2>1
      <3>2. outList' \in [Outs -> SUBSET Frames]
        BY <1>3, <2>1
      <3>3. outId' \in 0 .. NumOutQue'
        BY <1>2, <1>3, <2>1 DEF settings, NumOutQue
      <3> QED BY <1>2, <1>3, <2>1, <3>1, <3>2, <3>3
              DEF IInv, Types, settings, HasDelay, NoQue, OutQues, NumOutQue
    <2>10. ReturnedLast'
      BY <1>2, <1>3, <2>1, <2>6 DEF IInv, ReturnedLast
    <2>11. \A g \in Away' : CountOK(g)'
      <3> SUFFICES ASSUME NEW g \in Away \cup D PROVE CountOK(g)'
        BY <2>8
      <3>1. g \in Frames
        BY <1>3 DEF Away
      <3>2. CASE g \in Away
        <4>1. Holders(g)' = Holders(g) /\ dupCount'[g] = dupCount[g] /\ CountOK(g)
          BY <2>1, <2>6, <2>8, <3>1, <3>2 DEF IInv
        <4>2. Awaited(g)' <=> Awaited(g)
          BY <1>2, <1>6, <3>1, <4>1 DEF Awaited, Waiting, HasDelay, settings, NoQue
        <4>3. Owed(g)' = Owed(g)
          BY <1>2, <4>1, <4>2 DEF Owed, settings, OutQues, NumOutQue
        <4> QED BY <1>2, <1>6, <3>1, <4>1, <4>2, <4>3 DEF CountOK, settings, Waiting, HasDelay,
           NoQue
      <3>3. CASE g \in D
        <4>1. Holders(g)' = C /\ dupCount'[g] = NumOutQue /\ ~Due(g)'
          BY <1>6, <2>1, <2>5, <2>6, <3>1, <3>3
        <4>2. Owed(g)' \subseteq OutQues
          BY <1>2, <2>2, <4>1 DEF Owed, settings, OutQues, NumOutQue
        <4>3. Cardinality(Owed(g)') <= NumOutQue
          BY <1>3, <4>2, FewOwed
        <4>4. HasDelay' => delayedOutputQueId' \notin Holders(g)'
          BY <1>2, <2>7, <4>1 DEF HasDelay, settings, NoQue
        <4> QED BY <4>1, <4>3, <4>4 DEF CountOK, Awaited
      <3> QED BY <3>2, <3>3
    <2>12. \A u \in OutQues' : OneCopy(u)'
      <3> SUFFICES ASSUME NEW u \in OutQues PROVE OneCopy(u)'
        BY <1>2 DEF settings, OutQues, NumOutQue
      <3>1. \A g \in D : g \notin full[u] /\ g \notin held[u]
        BY <2>5 DEF Holders
      <3>2. Pending(u)' \subseteq D
        BY <2>4
      <3> QED BY <1>2, <3>1, <3>2 DEF IInv, OneCopy
    <2>13. \A u \in Outs : PutOK(u)'
      <3> SUFFICES ASSUME NEW u \in Outs PROVE PutOK(u)'
        OBVIOUS
      <3>1. PutOK(u) /\ \A g \in put[u].back : g \in Frames
        BY DEF IInv, Types, PutType
      <3>2. \A g \in put[u].back : g \in Away' /\ Holders(g)' = {} /\ (HasDelay => ~Due(g)')
        BY <1>6, <2>6, <2>8, <3>1 DEF PutOK
      <3>3. HasDelay => outList'[delayedOutputQueId] = {}
        BY <1>3, <2>1, <2>2, <2>7
      <3> QED BY <1>2, <1>5, <3>1, <3>2, <3>3
              DEF PutOK, Handing, HasDelay, settings, NoQue, OutQues, NumOutQue
    <2>14. \A g \in Away : g \in Frames /\ Owed(g)' = Owed(g)
      <3> SUFFICES ASSUME NEW g \in Away PROVE g \in Frames /\ Owed(g)' = Owed(g)
        OBVIOUS
      <3>1. g \in Frames
        BY DEF Away
      <3>2. Holders(g)' = Holders(g) /\ dupCount'[g] = dupCount[g]
        BY <2>1, <2>6, <2>8, <3>1
      <3>3. Awaited(g)' <=> Awaited(g)
        BY <1>2, <1>6, <3>1, <3>2 DEF Awaited, Waiting, HasDelay, settings, NoQue
      <3> QED BY <1>2, <3>1, <3>2, <3>3 DEF Owed, settings, OutQues, NumOutQue
    <2>15. \A g \in inQue : Holders(g)' = Copied /\ Holders(g) = {}
      BY <1>1, <2>2, <2>5, <2>6
    <2> QED BY <1>1, <2>8, <2>9, <2>10, <2>11, <2>12, <2>13, <2>14, <2>15 DEF IInv
  <1> QED BY <1>7, <1>8

LEMMA SameIInv ==
  ASSUME IInv, UNCHANGED <<settings, free, inQue, dupCount, outId, outList, full, held, put, lock, asserted>>,
         cmds' \subseteq cmds
  PROVE  IInv' /\ Away' = Away /\ \A g \in Frames : Owed(g)' = Owed(g)
  <1>1. UNCHANGED <<settings, free, inQue, dupCount, outId, outList, full, held, put, lock, asserted>>
        /\ cmds' \subseteq cmds
    OBVIOUS
  <1>2. /\ \A g : Holders(g)' = Holders(g)
        /\ \A u : Pending(u)' = Pending(u)
    BY <1>1, SamePending, SameHolders DEF settings
  <1>3. \A g \in Frames : Due(g)' <=> Due(g)
    BY <1>1, SameDue DEF settings, Handing
  <1>4. Types' /\ Away' = Away
    BY <1>1 DEF IInv, Types, settings, HasDelay, NoQue, OutQues, NumOutQue, Away
  <1>5. ReturnedLast'
    BY <1>1, <1>2 DEF IInv, ReturnedLast
  <1>6. \A g \in Away' : CountOK(g)'
    BY <1>1, <1>2, <1>3, <1>4, SameCount DEF IInv, Away
  <1>7. \A u \in OutQues' : OneCopy(u)'
    BY <1>1, <1>2 DEF IInv, OneCopy, OutQues, NumOutQue, settings
  <1>8. \A u \in Outs : PutOK(u)'
    <2> SUFFICES ASSUME NEW u \in Outs PROVE PutOK(u)'
      OBVIOUS
    <2>1. PutOK(u) /\ \A g \in put[u].back : g \in Frames
      BY DEF IInv, Types, PutType
    <2> QED BY <1>1, <1>2, <1>3, <1>4, <2>1
            DEF PutOK, Handing, HasDelay, settings, NoQue, OutQues, NumOutQue
  <1>9. \A g \in Frames : Owed(g)' = Owed(g)
    BY <1>1, <1>2, <1>3, SameOwed
  <1> QED BY <1>4, <1>5, <1>6, <1>7, <1>8, <1>9 DEF IInv

(* Before the first frame, all frames are with the producer and nothing is   *)
(* counted.                                                                  *)
Fresh == received \/ Away = {}

LEMMA SetDelayIInv == ASSUME Fresh, IInv, NEW c \in cmds, SetDelayOutQue(c), ValidDelay(c) PROVE IInv'
  <1>1. /\ ~InHandler /\ lock = NoQue /\ cmds' = cmds \ {c} /\ Away = {}
        /\ delayedOutputQueId' = c.out /\ syncDelayedOutputQueId' = c.sync
        /\ UNCHANGED <<config, free, inQue, dupCount, outId, outList, full, held, put, lock, asserted>>
    BY DEF SetDelayOutQue, producer, outputs, Fresh, ValidDelay
  <1>2. /\ config \in Configs /\ OutQues \subseteq Outs /\ NumOutQue \in 1 .. MaxOutQue /\ MaxOutQue \in Nat
        /\ c.out \in Ids /\ c.sync \in Ids
    <2>1. config \in ConfigType /\ config \in Configs /\ c \in config.delayCmds
      BY DupAssumption DEF IInv, Types
    <2>2. c \in [out : Ids, sync : Ids]
      BY <2>1 DEF ConfigType
    <2> QED BY <2>1, <2>2, Sizes
  <1>3. \A u \in Outs : put[u].at \in {"none", "containers"} /\ ~Handing(u) /\ ~Handing(u)'
    <2>1. \A u \in Outs : u # NoQue /\ PutOK(u) /\ put[u] \in PutType
      BY <1>2, Sizes DEF IInv, Types
    <2> QED BY <1>1, <2>1 DEF PutOK, PutType, Handing
  <1>4. \A u : Pending(u)' = Pending(u)
    BY <1>1 DEF Pending, InHandler, NumOutQue
  <1>5. \A g : Holders(g)' = Holders(g)
    BY <1>1, <1>4, SameHolders
  <1>6. Types'
    <2>1. HasDelay' => delayedOutputQueId' \in OutQues /\ NumOutQue > 1
      BY <1>1, <1>2 DEF HasDelay, NoQue, ValidDelay, IInv, Types, OutQues, Ids
    <2>2. delayedOutputQueId' \in Ids
      BY <1>1, <1>2 DEF IInv, Types
    <2>3. NumOutQue' = NumOutQue /\ OutQues' = OutQues
      BY <1>1 DEF OutQues, NumOutQue
    <2> QED BY <1>1, <1>2, <2>1, <2>2, <2>3 DEF IInv, Types
  <1>7. ReturnedLast'
    BY <1>1, <1>5 DEF IInv, ReturnedLast
  <1>8. Away' = {}
    BY <1>1 DEF Away
  <1>9. \A u \in OutQues' : OneCopy(u)'
    BY <1>1, <1>4 DEF IInv, OneCopy, OutQues, NumOutQue
  <1>10. \A u \in Outs : PutOK(u)'
    <2> SUFFICES ASSUME NEW u \in Outs PROVE PutOK(u)'
      OBVIOUS
    <2>1. PutOK(u)
      BY DEF IInv
    <2> QED BY <1>1, <1>3, <2>1 DEF PutOK, OutQues, NumOutQue
  <1> QED BY <1>6, <1>7, <1>8, <1>9, <1>10 DEF IInv

LEMMA NextIInv == ASSUME Fresh, IInv, Next PROVE IInv'
  <1>1. ~asserted
    BY DEF Next
  <1>2. ASSUME NEW f \in Frames, Produce(f) PROVE IInv'
    BY <1>2, ProduceIInv
  <1>3. CASE ProcessFrames
    BY <1>1, <1>3, ProcessFramesIInv
  <1>4. CASE PutOut
    BY <1>4, PutOutIInv
  <1>5. ASSUME NEW d \in cmds, SetDelayOutQue(d) PROVE IInv'
    <2>1. CASE ValidDelay(d)
      BY <1>5, <2>1, SetDelayIInv
    <2>2. CASE ~ValidDelay(d)
      BY <1>5, <2>2, SameIInv DEF SetDelayOutQue, settings, producer, outputs
    <2> QED BY <2>1, <2>2
  <1>6. ASSUME NEW o \in OutQues, Consumer(o) PROVE IInv'
    <2>1. CASE GetFull(o)
      BY <2>1, GetFullIInv
    <2>2. CASE PutEmptyFrames(o)
      <3>1. PICK frames \in SUBSET held[o] : PutEmpty(o, frames)
        BY <2>2 DEF PutEmptyFrames
      <3> QED BY <3>1, PutEmptyIInv
    <2>7. ASSUME NEW f \in put[o].todo, CountDown(o, f) PROVE IInv'
      BY <2>7, CountDownIInv
    <2>3. CASE Forward(o)
      BY <1>1, <2>3, ForwardIInv
    <2>4. CASE PutDelayed(o)
      BY <1>1, <2>4, PutDelayedIInv
    <2>5. CASE PutBack(o)
      BY <2>5, PutBackIInv
    <2>6. CASE PutContainers(o)
      BY <2>6, PutContainersIInv
    <2> QED BY <1>6, <2>1, <2>2, <2>3, <2>4, <2>5, <2>6, <2>7 DEF Consumer, InPut
  <1> QED BY <1>2, <1>3, <1>4, <1>5, <1>6 DEF Next, Link

LEMMA StutterIInv == ASSUME IInv, UNCHANGED vars PROVE IInv' /\ Away' = Away
  BY SameIInv DEF vars, settings, producer, outputs, delay

LEMMA NextFresh == ASSUME Fresh, Next PROVE Fresh'
  <1>1. ASSUME NEW f \in Frames, Produce(f) PROVE Fresh'
    BY <1>1 DEF Produce, Fresh, Away
  <1>2. CASE ProcessFrames
    BY <1>2 DEF ProcessFrames, Fresh, Away
  <1>3. CASE PutOut
    BY <1>3 DEF PutOut, Fresh, Away, producer
  <1>4. ASSUME NEW d \in cmds, SetDelayOutQue(d) PROVE Fresh'
    BY <1>4 DEF SetDelayOutQue, Fresh, Away, producer
  <1>5. ASSUME NEW o \in OutQues, Consumer(o) PROVE Fresh'
    <2>1. received' = received /\ inQue' = inQue /\ free \subseteq free'
      BY <1>5 DEF Consumer, InPut, GetFull, PutEmptyFrames, PutEmpty, CountDown, Forward, PutDelayed,
                  PutBack, PutContainers, producer
    <2> QED BY <2>1 DEF Fresh, Away
  <1> QED BY <1>1, <1>2, <1>3, <1>4, <1>5 DEF Next, Link

(* The inductive invariant holds.                                            *)
THEOREM Invariant == Spec => [](Fresh /\ IInv)
  <1>1. Init => Fresh /\ IInv
    BY InitIInv DEF Init, Fresh, Away
  <1>2. Fresh /\ IInv /\ [Next]_vars => Fresh' /\ IInv'
    <2>1. ASSUME Fresh, IInv, UNCHANGED vars PROVE Fresh' /\ IInv'
      BY <2>1, StutterIInv DEF Fresh, vars
    <2> QED BY <2>1, NextIInv, NextFresh
  <1> QED BY <1>1, <1>2, PTL DEF Spec

(* A frame that is back with its producer is with no output, and nobody is   *)
(* about to hand it on: it went back after its last consumer, however the    *)
(* calls of the consumers interleave, with a delayed output or without.      *)
THEOREM ReturnedLastAlways == Spec => []ReturnedLast
  <1>1. IInv => ReturnedLast
    BY DEF IInv
  <1> QED BY <1>1, Invariant, PTL

(* A frame that the delayed output has is no longer with the output it waits *)
(* for, or with no other output.                                             *)
THEOREM DelayedWaitsAlways == Spec => []DelayedWaits
  <1>1. IInv => DelayedWaits
    <2> SUFFICES ASSUME IInv, HasDelay,
                        NEW f \in full[delayedOutputQueId] \cup held[delayedOutputQueId]
                 PROVE  IF syncDelayedOutputQueId # NoQue
                        THEN syncDelayedOutputQueId \notin Holders(f)
                        ELSE Holders(f) = {delayedOutputQueId}
      BY DEF DelayedWaits, HasDelay
    <2>1. PICK d \in OutQues : d = delayedOutputQueId
      BY DEF IInv, Types
    <2>2. d \in Holders(f)
      BY <2>1 DEF Holders
    <2>3. f \in Frames
      BY <2>1, Sizes DEF IInv, Types
    <2>4. f \in Away /\ CountOK(f)
      BY <2>2, <2>3 DEF IInv, ReturnedLast, Away
    <2>5. ~Waiting(f)
      BY <2>1, <2>2, <2>4 DEF CountOK, Awaited
    <2>6. CASE syncDelayedOutputQueId # NoQue
      BY <2>5, <2>6 DEF Waiting
    <2>7. CASE syncDelayedOutputQueId = NoQue
      <3>1. dupCount[f] <= 1
        BY <2>3, <2>5, <2>7 DEF Waiting, IInv, Types
      <3>2. Holders(f) \subseteq Owed(f) /\ Owed(f) \subseteq OutQues
        BY <2>3, OwedOuts DEF IInv
      <3>3. Cardinality(Owed(f)) <= 1
        <4>1. Cardinality(Owed(f)) \in Nat /\ dupCount[f] \in Int
          BY <2>3, <3>2, FewOwed DEF IInv, Types
        <4> QED BY <2>4, <3>1, <4>1 DEF CountOK
      <3>4. \A u, v \in Owed(f) : u = v
        BY <3>2, <3>3, FewOwed DEF IInv, Types
      <3> QED BY <2>1, <2>2, <2>7, <3>2, <3>4
    <2> QED BY <2>6, <2>7
  <1> QED BY <1>1, Invariant, PTL

(***************************************************************************)
(* Nothing is lost and no assertion fails, with configurations that make     *)
(* sense: a delay command that names an output to wait for names one there   *)
(* is, not the delayed one itself; with such commands the link's task does   *)
(* not preempt a consumer; and there are containers for all frames and for   *)
(* those of one call.                                                        *)
(***************************************************************************)
Proper == \A c \in Configs :
    /\ Cardinality(Frames) + c.maxReturn <= Containers
    /\ c.delayCmds # {} => ~c.preempts
    /\ \A e \in c.delayCmds : e.sync # e.out /\ (e.sync = NoQue \/ e.sync < c.numOutQue)

DelayOK ==
    IF HasDelay
    THEN \E e \in config.delayCmds : delayedOutputQueId = e.out /\ syncDelayedOutputQueId = e.sync
    ELSE syncDelayedOutputQueId = NoQue

(* An output's list is empty unless the link's task, or the call that hands  *)
(* a frame on, is about to put it in its queue.                              *)
ListsOK ==
    /\ \A o \in OutQues : o # delayedOutputQueId /\ o < outId => outList[o] = {}
    /\ \A o \in Outs \ OutQues : outList[o] = {} /\ full[o] = {} /\ held[o] = {}
    /\ HasDelay /\ (\A o \in Outs : put[o].at # "putFull") => outList[delayedOutputQueId] = {}

(* dupCount is the number of outputs that are owed the frame.                *)
Exact(f) ==
    /\ Cardinality(Owed(f)) >= dupCount[f]
    /\ dupCount[f] = 0 => \E o \in Outs : f \in put[o].back

CallOK(o) ==
    /\ Cardinality(put[o].frames \cup put[o].todo) <= config.maxReturn
    /\ put[o].frames \cap put[o].todo = {}
    /\ Handing(o) => \E f \in Frames : put[o].last = {f}
    /\ put[o].at = "putFull" => outList[delayedOutputQueId] = put[o].last

Counted(o) ==
    empty[o] + Cardinality(full[o]) + Cardinality(held[o]) + Cardinality(put[o].frames)
    + Cardinality(outList[o]) = Containers

Flags ==
    /\ newData \in Notice /\ notified \in [Outs -> Notice]
    /\ received \in BOOLEAN /\ asserted \in BOOLEAN
    /\ dupCount \in [Frames -> 0 .. NumOutQue] /\ empty \in [Outs -> Int]

KeptInv ==
    /\ IInv /\ Flags /\ ~asserted /\ DelayOK /\ ListsOK
    /\ \A f \in Away : Exact(f)
    /\ \A o \in Outs : CallOK(o) /\ Counted(o)

LEMMA FrameSets ==
  /\ Cardinality(Frames) \in Nat /\ Cardinality({}) = 0 /\ \A x : Cardinality({x}) = 1
  /\ \A S \in SUBSET Frames : /\ IsFiniteSet(S) /\ Cardinality(S) \in Nat
                              /\ Cardinality(S) <= Cardinality(Frames)
                              /\ \A T \in SUBSET S : Cardinality(S \ T) = Cardinality(S) - Cardinality(T)
                              /\ \A f \in S : Cardinality(S) >= 1
  /\ \A S, T \in SUBSET Frames :
        S \cap T = {} => Cardinality(S \cup T) = Cardinality(S) + Cardinality(T)
  <1>1. IsFiniteSet(Frames)
    BY DupAssumption
  <1>2. Cardinality(Frames) \in Nat /\ Cardinality({}) = 0 /\ \A x : Cardinality({x}) = 1
    BY <1>1, FS_CardinalityType, FS_EmptySet, FS_Singleton
  <1>3. \A S \in SUBSET Frames : IsFiniteSet(S) /\ Cardinality(S) <= Cardinality(Frames)
    BY <1>1, FS_Subset
  <1>4. \A S \in SUBSET Frames : Cardinality(S) \in Nat
    BY <1>3, FS_CardinalityType
  <1>5. ASSUME NEW S \in SUBSET Frames, NEW T \in SUBSET S
        PROVE  Cardinality(S \ T) = Cardinality(S) - Cardinality(T)
    <2>1. Cardinality(S \ T) = Cardinality(S) - Cardinality(S \cap T)
      BY <1>3, FS_Difference
    <2>2. S \cap T = T
      OBVIOUS
    <2> QED BY <2>1, <2>2
  <1>6. ASSUME NEW S \in SUBSET Frames, NEW f \in S PROVE Cardinality(S) >= 1
    <2>1. Cardinality(S) # 0
      BY <1>3, FS_EmptySet
    <2> QED BY <1>4, <2>1
  <1>7. ASSUME NEW S \in SUBSET Frames, NEW T \in SUBSET Frames, S \cap T = {}
        PROVE  Cardinality(S \cup T) = Cardinality(S) + Cardinality(T)
    <2>1. Cardinality(S \cup T) = Cardinality(S) + Cardinality(T) - Cardinality(S \cap T)
      BY <1>3, FS_Union
    <2> QED BY <1>2, <1>4, <1>7, <2>1
  <1> QED BY <1>2, <1>3, <1>4, <1>5, <1>6, <1>7

LEMMA KeptFacts ==
  ASSUME Proper, KeptInv
  PROVE  /\ config \in Configs /\ OutQues \subseteq Outs
         /\ NumOutQue \in 1 .. MaxOutQue /\ MaxOutQue \in Nat /\ NumOutQue \in Nat
         /\ config.maxReturn \in Nat /\ config.maxReturn >= 1 /\ Containers \in Nat
         /\ Cardinality(Frames) + config.maxReturn <= Containers
         /\ full \in [Outs -> SUBSET Frames] /\ held \in [Outs -> SUBSET Frames]
         /\ outList \in [Outs -> SUBSET Frames] /\ put \in [Outs -> PutType]
         /\ empty \in [Outs -> Int] /\ dupCount \in [Frames -> 0 .. NumOutQue]
         /\ HasDelay => /\ delayedOutputQueId \in OutQues /\ delayedOutputQueId \in Outs
                        /\ NumOutQue > 1 /\ ~Direct(delayedOutputQueId)
                        /\ ~config.preempts
                        /\ syncDelayedOutputQueId # delayedOutputQueId
                        /\ syncDelayedOutputQueId = NoQue \/ syncDelayedOutputQueId \in OutQues
  <1>1. config \in Configs /\ config \in ConfigType /\ Containers \in Nat
    BY DupAssumption DEF KeptInv, IInv, Types
  <1>2. config.maxReturn \in Nat /\ config.maxReturn >= 1 /\ config.delayCmds \subseteq [out : Ids, sync : Ids]
    BY <1>1 DEF ConfigType
  <1>3. Cardinality(Frames) + config.maxReturn <= Containers
    BY <1>1 DEF Proper
  <1>4. /\ OutQues \subseteq Outs /\ NumOutQue \in 1 .. MaxOutQue /\ MaxOutQue \in Nat /\ NumOutQue \in Nat
    BY <1>1, Sizes
  <1>5. ASSUME HasDelay
        PROVE  /\ delayedOutputQueId \in OutQues /\ NumOutQue > 1 /\ ~Direct(delayedOutputQueId)
               /\ ~config.preempts
               /\ syncDelayedOutputQueId # delayedOutputQueId
               /\ syncDelayedOutputQueId = NoQue \/ syncDelayedOutputQueId \in OutQues
    <2>1. PICK e \in config.delayCmds : delayedOutputQueId = e.out /\ syncDelayedOutputQueId = e.sync
      BY <1>5 DEF KeptInv, DelayOK
    <2>2. /\ config.delayCmds # {} /\ e.out \in Ids /\ e.sync \in Ids
      BY <1>2, <2>1
    <2>3. /\ ~config.preempts /\ e.sync # e.out /\ (e.sync = NoQue \/ e.sync < config.numOutQue)
      BY <1>1, <2>1, <2>2 DEF Proper
    <2>4. delayedOutputQueId \in OutQues /\ NumOutQue > 1
      BY <1>5 DEF KeptInv, IInv, Types
    <2> QED BY <1>4, <2>1, <2>2, <2>3, <2>4 DEF OutQues, NumOutQue, Ids, Direct
  <1> QED BY <1>1, <1>2, <1>3, <1>4, <1>5 DEF KeptInv, IInv, Types, Flags

LEMMA InitKept == ASSUME Proper, Init PROVE KeptInv
  <1>1. /\ IInv /\ config \in Configs /\ config \in ConfigType /\ Containers \in Nat
    BY InitIInv, DupAssumption DEF IInv, Types
  <1>2. Flags
    <2>1. NumOutQue \in Nat /\ Containers \in Int
      BY <1>1, Sizes
    <2>2. 0 \in 0 .. NumOutQue
      BY <2>1
    <2> QED BY <2>1, <2>2 DEF Init, Flags, Notice
  <1>3. DelayOK /\ ListsOK /\ Away = {}
    BY <1>1, Sizes DEF Init, DelayOK, HasDelay, ListsOK, Away
  <1>4. \A o \in Outs : CallOK(o) /\ Counted(o)
    <2> SUFFICES ASSUME NEW o \in Outs PROVE CallOK(o) /\ Counted(o)
      OBVIOUS
    <2>1. put[o] = NoPut /\ empty[o] = Containers /\ full[o] = {} /\ held[o] = {} /\ outList[o] = {}
      BY DEF Init
    <2>2. put[o].at = "none" /\ put[o].frames = {} /\ put[o].todo = {} /\ put[o].frames \cup put[o].todo = {}
      BY <2>1 DEF NoPut
    <2>3. config.maxReturn \in Nat
      BY <1>1 DEF ConfigType
    <2> QED BY <1>1, <2>1, <2>2, <2>3, FrameSets DEF CallOK, Counted, Handing
  <1> QED BY <1>1, <1>2, <1>3, <1>4 DEF KeptInv, Init

LEMMA SameDelay == UNCHANGED settings => (DelayOK' <=> DelayOK)
  BY DEF DelayOK, HasDelay, settings, NoQue

LEMMA SameCall ==
  ASSUME UNCHANGED settings, NEW o \in Outs, put'[o] = put[o],
         put[o].at = "putFull" => outList'[delayedOutputQueId] = outList[delayedOutputQueId]
  PROVE  CallOK(o) => CallOK(o)'
  BY DEF CallOK, settings, Handing

LEMMA SameExact ==
  ASSUME UNCHANGED dupCount, NEW f, Owed(f)' = Owed(f),
         \A o \in Outs : f \in put[o].back => f \in put'[o].back
  PROVE  Exact(f) => Exact(f)'
  BY DEF Exact

LEMMA ProduceKept == ASSUME Proper, KeptInv, NEW f \in Frames, Produce(f) PROVE KeptInv'
  <1>1. /\ f \in free /\ free' = free \ {f} /\ inQue' = inQue \cup {f} /\ newData' \in Notice
        /\ UNCHANGED <<settings, dupCount, outId, outList, empty, full, notified, held, put, received, asserted>>
    BY DEF Produce, settings, outputs, delay, Sent, Notice
  <1>2. IInv' /\ \A g \in Frames : Owed(g)' = Owed(g)
    BY ProduceIInv DEF KeptInv
  <1>3. Away' = Away
    BY <1>1 DEF Away
  <1>4. Flags' /\ ListsOK'
    BY <1>1 DEF KeptInv, Flags, ListsOK, settings, HasDelay, OutQues, NumOutQue, NoQue
  <1>5. \A g \in Away' : Exact(g)'
    BY <1>1, <1>2, <1>3, SameExact DEF KeptInv, Away
  <1>6. \A o \in Outs : CallOK(o)' /\ Counted(o)'
    BY <1>1, SameCall DEF KeptInv, Counted, settings
  <1> QED BY <1>1, <1>2, <1>4, <1>5, <1>6, SameDelay DEF KeptInv

LEMMA GetFullKept == ASSUME Proper, KeptInv, NEW o \in OutQues, GetFull(o) PROVE KeptInv'
  <1>1. /\ held' = [held EXCEPT ![o] = @ \cup full[o]] /\ full' = [full EXCEPT ![o] = {}]
        /\ notified' = [notified EXCEPT ![o] = "no"]
        /\ UNCHANGED <<settings, newData, free, inQue, dupCount, outId, outList, empty, put, received, asserted>>
    BY DEF GetFull, settings, producer, delay
  <1>2. IInv' /\ \A g \in Frames : Owed(g)' = Owed(g)
    BY GetFullIInv DEF KeptInv
  <1>3. Away' = Away
    BY <1>1 DEF Away
  <1>4. /\ OutQues \subseteq Outs /\ full \in [Outs -> SUBSET Frames] /\ held \in [Outs -> SUBSET Frames]
        /\ empty \in [Outs -> Int] /\ o \in Outs /\ put \in [Outs -> PutType]
        /\ outList \in [Outs -> SUBSET Frames]
    BY KeptFacts
  <1>5. \A u \in Outs : u # o => held'[u] = held[u] /\ full'[u] = full[u]
    BY <1>1, <1>4
  <1>6. held'[o] = held[o] \cup full[o] /\ full'[o] = {}
    BY <1>1, <1>4
  <1>7. Flags'
    BY <1>1, <1>4 DEF KeptInv, Flags, settings, NumOutQue, Notice
  <1>8. ListsOK'
    BY <1>1, <1>5 DEF KeptInv, ListsOK, settings, HasDelay, OutQues, NumOutQue, NoQue
  <1>9. \A g \in Away' : Exact(g)'
    BY <1>1, <1>2, <1>3, SameExact DEF KeptInv, Away
  <1>10. Counted(o)'
    <2>1. full[o] \in SUBSET Frames /\ held[o] \in SUBSET Frames /\ full[o] \cap held[o] = {}
      BY <1>4 DEF KeptInv, IInv, OneCopy
    <2>2. Cardinality(held[o] \cup full[o]) = Cardinality(held[o]) + Cardinality(full[o])
      BY <2>1, FrameSets
    <2>3. /\ Cardinality(full[o]) \in Nat /\ Cardinality(held[o]) \in Nat /\ Cardinality({}) = 0
          /\ Cardinality(put[o].frames) \in Nat /\ Cardinality(outList[o]) \in Nat /\ empty[o] \in Int
      BY <1>4, <2>1, FrameSets DEF PutType
    <2>4. Counted(o)
      BY <1>4 DEF KeptInv
    <2>5. empty'[o] = empty[o] /\ put'[o] = put[o] /\ outList'[o] = outList[o]
      BY <1>1
    <2>6. empty[o] + 0 + (Cardinality(held[o]) + Cardinality(full[o])) + Cardinality(put[o].frames)
          + Cardinality(outList[o]) = Containers
      BY <2>3, <2>4 DEF Counted
    <2> QED BY <1>6, <2>2, <2>3, <2>5, <2>6 DEF Counted
  <1>11. \A u \in Outs : CallOK(u)' /\ Counted(u)'
    BY <1>1, <1>5, <1>10, SameCall DEF KeptInv, Counted, settings
  <1> QED BY <1>1, <1>2, <1>7, <1>8, <1>9, <1>11, SameDelay DEF KeptInv

LEMMA OneHands ==
  KeptInv => \A o \in Outs : Handing(o) => HasDelay /\ o \in OutQues /\ \A u \in Outs : Handing(u) => u = o
  BY OneLocked DEF KeptInv, IInv, PutOK, Handing

LEMMA PutOutKept == ASSUME Proper, KeptInv, PutOut PROVE KeptInv'
  <1>1. /\ InHandler /\ outId' = outId + 1
        /\ UNCHANGED <<settings, free, inQue, newData, dupCount, empty, held, put, received, asserted>>
    BY DEF PutOut, settings, producer, delay
  <1>2. IInv' /\ \A g \in Frames : Owed(g)' = Owed(g)
    BY PutOutIInv DEF KeptInv
  <1>3. Away' = Away
    BY <1>1 DEF Away
  <1>4. /\ OutQues \subseteq Outs /\ full \in [Outs -> SUBSET Frames] /\ held \in [Outs -> SUBSET Frames]
        /\ empty \in [Outs -> Int] /\ put \in [Outs -> PutType] /\ outList \in [Outs -> SUBSET Frames]
    BY KeptFacts
  <1>5. PICK a \in OutQues : a = outId
    BY <1>1, KeptFacts DEF KeptInv, IInv, Types, InHandler, OutQues
  <1>6. \A g \in Away' : Exact(g)'
    BY <1>1, <1>2, <1>3, SameExact DEF KeptInv, Away
  <1>7. CASE ~Direct(a)
    <2>1. UNCHANGED <<full, notified, outList>> /\ a = delayedOutputQueId
      BY <1>5, <1>7 DEF PutOut, Direct
    <2>2. Flags'
      BY <1>1, <2>1 DEF KeptInv, Flags, settings, NumOutQue
    <2>3. ListsOK'
      <3>1. \A o \in OutQues : o # a /\ o < outId + 1 => o < outId
        BY <1>5, KeptFacts DEF OutQues
      <3> QED BY <1>1, <2>1, <3>1 DEF KeptInv, ListsOK, settings, HasDelay, OutQues, NumOutQue,
         NoQue
    <2>4. \A o \in Outs : CallOK(o)' /\ Counted(o)'
      BY <1>1, <2>1, SameCall DEF KeptInv, Counted, settings
    <2> QED BY <1>1, <1>2, <1>6, <2>2, <2>3, <2>4, SameDelay DEF KeptInv
  <1>8. CASE Direct(a)
    <2>1. /\ full' = [full EXCEPT ![a] = @ \cup outList[a]]
          /\ \E notice \in Notice : notified' = [notified EXCEPT ![a] = notice]
          /\ outList' = [outList EXCEPT ![a] = {}]
      BY <1>5, <1>8 DEF PutOut, PutFull, Sent, Notice
    <2>2. HasDelay => delayedOutputQueId # a
      BY <1>8, KeptFacts
    <2>3. a \in Outs /\ full'[a] = full[a] \cup outList[a] /\ outList'[a] = {}
      BY <1>4, <2>1
    <2>4. \A o \in Outs : o # a => full'[o] = full[o] /\ outList'[o] = outList[o]
      BY <1>4, <2>1
    <2>5. Flags'
      BY <1>1, <1>4, <2>1 DEF KeptInv, Flags, settings, NumOutQue
    <2>6. HasDelay => outList'[delayedOutputQueId] = outList[delayedOutputQueId]
      BY <2>2, <2>4, KeptFacts
    <2>7. ListsOK'
      <3>1. \A o \in OutQues : o # a /\ o < outId + 1 => o < outId
        BY <1>5, KeptFacts DEF OutQues
      <3>2. \A o \in OutQues : o # delayedOutputQueId /\ o < outId + 1 => outList'[o] = {}
        BY <1>4, <2>3, <2>4, <3>1 DEF KeptInv, ListsOK
      <3>3. \A o \in Outs \ OutQues : outList'[o] = {} /\ full'[o] = {} /\ held[o] = {}
        BY <2>4 DEF KeptInv, ListsOK
      <3> QED BY <1>1, <2>6, <3>2, <3>3 DEF KeptInv, ListsOK, settings, HasDelay, OutQues,
         NumOutQue, NoQue
    <2>8. Counted(a)'
      <3>1. full[a] \in SUBSET Frames /\ outList[a] \in SUBSET Frames /\ full[a] \cap outList[a] = {}
        <4>1. Pending(a) = outList[a]
          BY <1>1, <1>5, <1>8, KeptFacts DEF Pending, OutQues
        <4> QED BY <1>4, <2>3, <4>1 DEF KeptInv, IInv, OneCopy
      <3>2. Cardinality(full'[a]) = Cardinality(full[a]) + Cardinality(outList[a])
        BY <2>3, <3>1, FrameSets
      <3>3. /\ Cardinality(full[a]) \in Nat /\ Cardinality(held[a]) \in Nat /\ Cardinality(outList'[a]) = 0
            /\ Cardinality(put[a].frames) \in Nat /\ Cardinality(outList[a]) \in Nat /\ empty[a] \in Int
        BY <1>4, <2>3, <3>1, FrameSets DEF PutType
      <3>4. empty[a] + (Cardinality(full[a]) + Cardinality(outList[a])) + Cardinality(held[a])
            + Cardinality(put[a].frames) + 0 = Containers
        BY <2>3, <3>3 DEF KeptInv, Counted
      <3>5. empty'[a] = empty[a] /\ put'[a] = put[a] /\ held'[a] = held[a]
        BY <1>1
      <3> QED BY <3>2, <3>3, <3>4, <3>5 DEF Counted
    <2>9. \A o \in Outs : CallOK(o)'
      BY <1>1, <2>6, SameCall, OneHands DEF KeptInv, Handing
    <2>10. \A o \in Outs : Counted(o)'
      BY <1>1, <2>4, <2>8 DEF KeptInv, Counted, settings
    <2> QED BY <1>1, <1>2, <1>6, <2>5, <2>7, <2>9, <2>10, SameDelay DEF KeptInv
  <1> QED BY <1>7, <1>8

LEMMA PutContainersKept == ASSUME Proper, KeptInv, NEW o \in OutQues, PutContainers(o) PROVE KeptInv'
  <1>1. /\ put' = [put EXCEPT ![o] = NoPut] /\ put[o].at = "containers"
        /\ empty' = [empty EXCEPT ![o] = @ + Cardinality(put[o].frames)]
        /\ UNCHANGED <<settings, free, inQue, newData, dupCount, outId, outList, full, notified, held,
                       received, asserted>>
    BY DEF PutContainers, settings, producer, delay
  <1>2. IInv' /\ \A g \in Frames : Owed(g)' = Owed(g)
    BY PutContainersIInv DEF KeptInv
  <1>3. Away' = Away
    BY <1>1 DEF Away
  <1>4. /\ OutQues \subseteq Outs /\ full \in [Outs -> SUBSET Frames] /\ held \in [Outs -> SUBSET Frames]
        /\ empty \in [Outs -> Int] /\ put \in [Outs -> PutType] /\ outList \in [Outs -> SUBSET Frames]
        /\ o \in Outs /\ config.maxReturn \in Nat
    BY KeptFacts
  <1>5. put'[o] = NoPut /\ \A u \in Outs : u # o => put'[u] = put[u] /\ empty'[u] = empty[u]
    BY <1>1, <1>4
  <1>6. /\ empty'[o] = empty[o] + Cardinality(put[o].frames) /\ Cardinality(put[o].frames) \in Nat
        /\ put[o].frames \in SUBSET Frames
    BY <1>1, <1>4, FrameSets DEF PutType
  <1>7. Flags'
    <2>1. empty' \in [Outs -> Int]
      BY <1>1, <1>4, <1>6
    <2> QED BY <1>1, <2>1 DEF KeptInv, Flags, settings, NumOutQue
  <1>8. ListsOK'
    <2>1. \A u \in Outs : put'[u].at # "putFull" => put[u].at # "putFull"
      BY <1>1, <1>5
    <2> QED BY <1>1, <2>1 DEF KeptInv, ListsOK, settings, HasDelay, OutQues, NumOutQue, NoQue
  <1>9. \A g \in Away' : Exact(g)'
    <2>1. put[o].back = {}
      BY <1>1, <1>4 DEF KeptInv, IInv, PutOK
    <2>2. \A g, u : u \in Outs /\ g \in put[u].back => g \in put'[u].back
      BY <1>5, <2>1
    <2> QED BY <1>1, <1>2, <1>3, <2>2, SameExact DEF KeptInv, Away
  <1>10. CallOK(o)' /\ Counted(o)'
    <2>1. /\ put'[o].frames = {} /\ put'[o].todo = {} /\ put'[o].at = "none"
          /\ put'[o].frames \cup put'[o].todo = {}
      BY <1>5 DEF NoPut
    <2>2. CallOK(o)'
      BY <1>1, <1>4, <2>1, FrameSets DEF CallOK, Handing, settings
    <2>3. /\ Cardinality(full[o]) \in Nat /\ Cardinality(held[o]) \in Nat /\ Cardinality({}) = 0
          /\ Cardinality(outList[o]) \in Nat /\ empty[o] \in Int
      BY <1>4, FrameSets
    <2>4. (empty[o] + Cardinality(put[o].frames)) + Cardinality(full[o]) + Cardinality(held[o]) + 0
          + Cardinality(outList[o]) = Containers
      BY <1>4, <1>6, <2>3 DEF KeptInv, Counted
    <2> QED BY <1>1, <1>6, <2>1, <2>2, <2>3, <2>4 DEF Counted
  <1>11. \A u \in Outs : CallOK(u)' /\ Counted(u)'
    BY <1>1, <1>5, <1>10, SameCall DEF KeptInv, Counted, settings
  <1> QED BY <1>1, <1>2, <1>7, <1>8, <1>9, <1>11, SameDelay DEF KeptInv

LEMMA PutBackKept == ASSUME Proper, KeptInv, NEW o \in OutQues, PutBack(o) PROVE KeptInv'
  <1>1. /\ put[o].at = "each" /\ put[o].todo = {} /\ free' = free \cup put[o].back
        /\ put' = [put EXCEPT ![o] = [NoPut EXCEPT !.at = "containers", !.frames = @ \cup put[o].frames]]
        /\ UNCHANGED <<settings, inQue, newData, dupCount, outId, outList, empty, full, notified, held,
                       received, asserted>>
    BY DEF PutBack, settings, outputs, delay
  <1>2. IInv' /\ \A g \in Frames : Owed(g)' = Owed(g)
    BY PutBackIInv DEF KeptInv
  <1>3. OutQues \subseteq Outs /\ put \in [Outs -> PutType] /\ o \in Outs
    BY KeptFacts
  <1>4. PICK p : p = [NoPut EXCEPT !.at = "containers"]
    OBVIOUS
  <1>5. PICK q : q = [p EXCEPT !.frames = @ \cup put[o].frames]
    OBVIOUS
  <1>6. q.at = "containers" /\ q.frames = put[o].frames /\ q.todo = {} /\ put' = [put EXCEPT ![o] = q]
    <2>1. p \in PutType /\ p.at = "containers" /\ p.frames = {} /\ p.todo = {}
      BY <1>4 DEF NoPut, PutType
    <2>2. q.at = "containers" /\ q.frames = put[o].frames /\ q.todo = {}
      BY <1>5, <2>1 DEF PutType
    <2> QED BY <1>1, <1>4, <1>5, <2>2
  <1>7. put'[o] = q /\ \A u \in Outs : u # o => put'[u] = put[u]
    BY <1>3, <1>6
  <1>8. Flags'
    BY <1>1 DEF KeptInv, Flags, settings, NumOutQue
  <1>9. ListsOK'
    <2>1. \A u \in Outs : put'[u].at # "putFull" => put[u].at # "putFull"
      BY <1>1, <1>7
    <2> QED BY <1>1, <2>1 DEF KeptInv, ListsOK, settings, HasDelay, OutQues, NumOutQue, NoQue
  <1>10. \A g \in Away' : Exact(g)'
    <2> SUFFICES ASSUME NEW g \in Away' PROVE Exact(g)'
      OBVIOUS
    <2>1. g \in Frames /\ g \in Away /\ g \notin put[o].back
      BY <1>1 DEF Away
    <2>2. \A u \in Outs : g \in put[u].back => g \in put'[u].back
      BY <1>7, <2>1
    <2> QED BY <1>1, <1>2, <2>1, <2>2, SameExact DEF KeptInv
  <1>11. \A u \in Outs : CallOK(u)' /\ Counted(u)'
    <2> SUFFICES ASSUME NEW u \in Outs PROVE CallOK(u)' /\ Counted(u)'
      OBVIOUS
    <2>1. put'[u].frames = put[u].frames
      BY <1>6, <1>7
    <2>2. CASE u = o
      BY <1>1, <1>6, <1>7, <2>1, <2>2 DEF KeptInv, CallOK, Counted, Handing, settings
    <2>3. CASE u # o
      BY <1>1, <1>7, <2>3, SameCall DEF KeptInv, Counted, settings
    <2> QED BY <2>2, <2>3
  <1> QED BY <1>1, <1>2, <1>8, <1>9, <1>10, <1>11, SameDelay DEF KeptInv

(* A frame that is handed on was the delayed output's to wait for, and there *)
(* is a container for it.                                                    *)
LEMMA HandedOn ==
  ASSUME Proper, KeptInv, NEW o \in OutQues, Handing(o)
  PROVE  \E f \in Frames :
            /\ put[o].last = {f} /\ delayedOutputQueId \notin Holders(f) /\ f \in Away
            /\ syncDelayedOutputQueId = NoQue => dupCount[f] = 1
  <1>1. o \in Outs /\ HasDelay /\ config \in Configs /\ delayedOutputQueId \in OutQues
    BY KeptFacts, OneHands
  <1>2. PICK f \in Frames : put[o].last = {f}
    BY <1>1 DEF KeptInv, CallOK
  <1>3. Due(f) /\ f \in Away
    BY <1>1, <1>2 DEF Due, KeptInv, IInv, ReturnedLast, Away, Handing
  <1>4. Awaited(f) /\ CountOK(f)
    BY <1>1, <1>3 DEF Awaited, KeptInv, IInv
  <1>5. delayedOutputQueId \notin Holders(f) /\ ~Waiting(f) /\ delayedOutputQueId \in Owed(f)
    BY <1>1, <1>3, <1>4 DEF CountOK, Owed
  <1>6. Cardinality(Owed(f)) \in Nat /\ Cardinality(Owed(f)) # 0
    <2>1. Owed(f) \subseteq OutQues
      BY OwedOuts DEF KeptInv, IInv
    <2> QED BY <1>1, <1>5, <2>1, FewOwed
  <1>7. dupCount[f] \in Nat
    BY KeptFacts
  <1>8. syncDelayedOutputQueId = NoQue => dupCount[f] = 1
    BY <1>4, <1>5, <1>6, <1>7 DEF CountOK, Waiting
  <1> QED BY <1>2, <1>3, <1>5, <1>8

LEMMA RoomForCopies ==
  ASSUME Proper, KeptInv, NEW o \in OutQues, NEW S \in SUBSET Frames,
         \A f \in S : o \notin Holders(f), outList[o] = {}
  PROVE  empty[o] >= Cardinality(S)
  <1>1. /\ o \in Outs /\ full[o] \in SUBSET Frames /\ held[o] \in SUBSET Frames
        /\ put[o].frames \in SUBSET Frames /\ empty[o] \in Int
        /\ config.maxReturn \in Nat /\ Containers \in Nat
        /\ Cardinality(Frames) + config.maxReturn <= Containers
    BY KeptFacts DEF PutType
  <1>2. full[o] \cap held[o] = {} /\ \A f \in S : f \notin full[o] /\ f \notin held[o]
    BY DEF KeptInv, IInv, OneCopy, Holders
  <1>3. PICK T \in SUBSET Frames : T = full[o] \cup held[o] /\ T \cap S = {}
    BY <1>1, <1>2
  <1>4. Cardinality(T) = Cardinality(full[o]) + Cardinality(held[o])
    BY <1>1, <1>2, <1>3, FrameSets
  <1>5. Cardinality(T) + Cardinality(S) <= Cardinality(Frames)
    <2>1. Cardinality(T \cup S) = Cardinality(T) + Cardinality(S) /\ T \cup S \in SUBSET Frames
      BY <1>3, FrameSets
    <2> QED BY <2>1, FrameSets
  <1>6. /\ Cardinality(full[o]) \in Nat /\ Cardinality(held[o]) \in Nat /\ Cardinality(Frames) \in Nat
        /\ Cardinality(put[o].frames) \in Nat /\ Cardinality({}) = 0 /\ Cardinality(S) \in Nat
    BY <1>1, FrameSets
  <1>7. empty[o] + Cardinality(full[o]) + Cardinality(held[o]) + Cardinality(put[o].frames) = Containers
    <2>1. Counted(o) /\ Cardinality(outList[o]) = 0
      BY <1>1, <1>6 DEF KeptInv
    <2> QED BY <1>1, <1>6, <2>1 DEF Counted
  <1>8. Cardinality(put[o].frames) <= config.maxReturn
    <2>1. PICK U : U = put[o].frames \cup put[o].todo
      OBVIOUS
    <2>2. U \in SUBSET Frames /\ put[o].frames \in SUBSET U
      BY <1>1, <2>1, KeptFacts DEF PutType
    <2>3. Cardinality(U) <= config.maxReturn /\ Cardinality(U) \in Nat
      BY <1>1, <2>1, <2>2, FrameSets DEF KeptInv, CallOK
    <2>4. Cardinality(U \ put[o].frames) = Cardinality(U) - Cardinality(put[o].frames)
          /\ Cardinality(U \ put[o].frames) \in Nat
      BY <2>2, FrameSets
    <2> QED BY <1>1, <1>6, <2>3, <2>4
  <1> QED BY <1>1, <1>4, <1>5, <1>6, <1>7, <1>8

LEMMA ForwardKept == ASSUME Proper, KeptInv, NEW o \in OutQues, Forward(o) PROVE KeptInv'
  <1>1. PICK d : d = delayedOutputQueId
    OBVIOUS
  <1>2. /\ put[o].at = "forward" /\ put' = [put EXCEPT ![o].at = "putFull"]
        /\ outList' = [outList EXCEPT ![d] = put[o].last] /\ empty' = [empty EXCEPT ![d] = @ - 1]
        /\ asserted' = \/ empty[d] = 0
                       \/ syncDelayedOutputQueId = NoQue /\ \E f \in put[o].last : dupCount[f] # 1
        /\ UNCHANGED <<settings, free, inQue, newData, dupCount, outId, full, notified, held, received>>
    BY <1>1 DEF Forward, settings, producer, delay
  <1>3. IInv' /\ \A g \in Frames : Owed(g)' = Owed(g)
    BY <1>2, ForwardIInv DEF KeptInv
  <1>4. Away' = Away
    BY <1>2 DEF Away
  <1>5. /\ OutQues \subseteq Outs /\ full \in [Outs -> SUBSET Frames] /\ held \in [Outs -> SUBSET Frames]
        /\ empty \in [Outs -> Int] /\ put \in [Outs -> PutType] /\ outList \in [Outs -> SUBSET Frames]
        /\ o \in Outs
    BY KeptFacts
  <1>6. Handing(o) /\ HasDelay /\ d \in OutQues /\ d \in Outs /\ \A u \in Outs : Handing(u) => u = o
    BY <1>1, <1>2, <1>5, KeptFacts, OneHands DEF Handing
  <1>7. PICK f \in Frames : /\ put[o].last = {f} /\ d \notin Holders(f)
                            /\ syncDelayedOutputQueId = NoQue => dupCount[f] = 1
    BY <1>1, <1>6, HandedOn
  <1>8. outList[d] = {}
    BY <1>1, <1>2, <1>6 DEF KeptInv, ListsOK, Handing
  <1>9. empty[d] >= 1
    <2>1. {f} \in SUBSET Frames /\ Cardinality({f}) = 1 /\ \A g \in {f} : d \notin Holders(g)
      BY <1>7, FrameSets
    <2>2. empty[d] >= Cardinality({f})
      BY <1>6, <1>8, <2>1, RoomForCopies
    <2> QED BY <2>1, <2>2
  <1>10. ~asserted'
    BY <1>2, <1>5, <1>6, <1>7, <1>9
  <1>11. PICK q : q = [put[o] EXCEPT !.at = "putFull"]
    OBVIOUS
  <1>12. /\ q.at = "putFull" /\ q.last = put[o].last /\ q.back = put[o].back /\ q.frames = put[o].frames
         /\ q.todo = put[o].todo /\ put' = [put EXCEPT ![o] = q]
    BY <1>2, <1>5, <1>11 DEF PutType
  <1>13. put'[o] = q /\ \A u \in Outs : u # o => put'[u] = put[u]
    BY <1>5, <1>12
  <1>14. /\ outList'[d] = {f} /\ empty'[d] = empty[d] - 1
         /\ \A u \in Outs : u # d => outList'[u] = outList[u] /\ empty'[u] = empty[u]
    BY <1>2, <1>5, <1>6, <1>7
  <1>15. Flags'
    <2>1. empty' \in [Outs -> Int]
      BY <1>2, <1>5, <1>6
    <2> QED BY <1>2, <2>1 DEF KeptInv, Flags, settings, NumOutQue
  <1>16. ListsOK'
    <2>1. \A u \in OutQues : u # d /\ u < outId => outList'[u] = {}
      BY <1>1, <1>5, <1>14 DEF KeptInv, ListsOK
    <2>2. \A u \in Outs \ OutQues : outList'[u] = {} /\ full[u] = {} /\ held[u] = {}
      BY <1>6, <1>14 DEF KeptInv, ListsOK
    <2> QED BY <1>1, <1>2, <1>5, <1>12, <1>13, <2>1, <2>2
            DEF ListsOK, settings, HasDelay, OutQues, NumOutQue, NoQue
  <1>17. \A g \in Away' : Exact(g)'
    <2>1. \A g, u : u \in Outs /\ g \in put[u].back => g \in put'[u].back
      BY <1>12, <1>13
    <2> QED BY <1>2, <1>3, <1>4, <2>1, SameExact DEF KeptInv, Away
  <1>18. \A u \in Outs : CallOK(u)'
    <2> SUFFICES ASSUME NEW u \in Outs PROVE CallOK(u)'
      OBVIOUS
    <2>1. CallOK(u)
      BY DEF KeptInv
    <2>2. CASE u = o
      BY <1>1, <1>2, <1>7, <1>12, <1>13, <1>14, <2>1, <2>2 DEF CallOK, settings
    <2>3. CASE u # o
      BY <1>2, <1>6, <1>13, <2>1, <2>3, SameCall DEF Handing
    <2> QED BY <2>2, <2>3
  <1>19. \A u \in Outs : Counted(u)'
    <2> SUFFICES ASSUME NEW u \in Outs PROVE Counted(u)'
      OBVIOUS
    <2>1. Counted(u) /\ put'[u].frames = put[u].frames
      BY <1>12, <1>13 DEF KeptInv
    <2>2. CASE u = d
      <3>1. /\ Cardinality(full[d]) \in Nat /\ Cardinality(held[d]) \in Nat
            /\ Cardinality(put[d].frames) \in Nat /\ empty[d] \in Int
            /\ Cardinality(outList[d]) = 0 /\ Cardinality(outList'[d]) = 1
        BY <1>5, <1>6, <1>8, <1>14, FrameSets DEF PutType
      <3>2. (empty[d] - 1) + Cardinality(full[d]) + Cardinality(held[d]) + Cardinality(put[d].frames) + 1
            = Containers
        BY <2>1, <2>2, <3>1 DEF Counted
      <3>3. full'[d] = full[d] /\ held'[d] = held[d]
        BY <1>2
      <3> QED BY <1>14, <2>1, <2>2, <3>1, <3>2, <3>3 DEF Counted
    <2>3. CASE u # d
      BY <1>2, <1>14, <2>1, <2>3 DEF Counted
    <2> QED BY <2>2, <2>3
  <1> QED BY <1>2, <1>3, <1>10, <1>15, <1>16, <1>17, <1>18, <1>19, SameDelay DEF KeptInv

LEMMA PutDelayedKept == ASSUME Proper, KeptInv, NEW o \in OutQues, PutDelayed(o) PROVE KeptInv'
  <1>1. PICK d : d = delayedOutputQueId
    OBVIOUS
  <1>2. /\ put[o].at = "putFull" /\ put' = [put EXCEPT ![o].at = "each", ![o].last = {}]
        /\ full' = [full EXCEPT ![d] = @ \cup outList[d]]
        /\ \E notice \in Notice : notified' = [notified EXCEPT ![d] = notice]
        /\ outList' = [outList EXCEPT ![d] = {}]
        /\ UNCHANGED <<settings, free, inQue, newData, dupCount, outId, empty, held, received, asserted>>
    BY <1>1 DEF PutDelayed, PutFull, settings, producer, delay, Sent, Notice
  <1>3. /\ OutQues \subseteq Outs /\ full \in [Outs -> SUBSET Frames] /\ held \in [Outs -> SUBSET Frames]
        /\ empty \in [Outs -> Int] /\ put \in [Outs -> PutType] /\ outList \in [Outs -> SUBSET Frames]
        /\ o \in Outs
    BY KeptFacts
  <1>4. Handing(o) /\ HasDelay /\ d \in OutQues /\ d \in Outs /\ \A u \in Outs : Handing(u) => u = o
    BY <1>1, <1>2, <1>3, KeptFacts, OneHands DEF Handing
  <1>5. outList[d] = put[o].last
    BY <1>1, <1>2, <1>3 DEF KeptInv, CallOK
  <1>6. IInv' /\ \A g \in Away : Owed(g)' = Owed(g)
    BY <1>1, <1>5, PutDelayedIInv DEF KeptInv
  <1>7. PICK f \in Frames : put[o].last = {f} /\ d \notin Holders(f)
    BY <1>1, <1>4, HandedOn
  <1>8. Away' = Away
    BY <1>2 DEF Away
  <1>9. PICK a : a = [put EXCEPT ![o].at = "each"]
    OBVIOUS
  <1>10. PICK q : q = [a[o] EXCEPT !.last = {}]
    OBVIOUS
  <1>11. /\ q.at = "each" /\ q.back = put[o].back /\ q.frames = put[o].frames /\ q.todo = put[o].todo
         /\ put'[o] = q /\ \A u \in Outs : u # o => put'[u] = put[u]
    <2>1. PICK r : r = [put[o] EXCEPT !.at = "each"]
      OBVIOUS
    <2>2. r \in PutType /\ r.at = "each" /\ r.back = put[o].back /\ r.frames = put[o].frames
          /\ r.todo = put[o].todo
      BY <1>3, <2>1 DEF PutType
    <2>3. a = [put EXCEPT ![o] = r] /\ a[o] = r /\ a \in [Outs -> PutType]
      BY <1>3, <1>9, <2>1, <2>2
    <2>4. q.at = "each" /\ q.back = put[o].back /\ q.frames = put[o].frames /\ q.todo = put[o].todo
      BY <1>10, <2>2, <2>3 DEF PutType
    <2>5. put' = [a EXCEPT ![o] = q]
      BY <1>2, <1>3, <1>9, <1>10
    <2> QED BY <1>3, <2>3, <2>4, <2>5
  <1>12. /\ full'[d] = full[d] \cup {f} /\ outList'[d] = {}
         /\ \A u \in Outs : u # d => outList'[u] = outList[u] /\ full'[u] = full[u]
    BY <1>2, <1>3, <1>4, <1>5, <1>7
  <1>13. Flags'
    BY <1>2, <1>3 DEF KeptInv, Flags, settings, NumOutQue
  <1>14. ListsOK'
    <2>1. \A u \in OutQues : u # d /\ u < outId => outList'[u] = {}
      BY <1>1, <1>3, <1>12 DEF KeptInv, ListsOK
    <2>2. \A u \in Outs \ OutQues : outList'[u] = {} /\ full'[u] = {} /\ held[u] = {}
      BY <1>4, <1>12 DEF KeptInv, ListsOK
    <2> QED BY <1>1, <1>2, <1>12, <2>1, <2>2 DEF ListsOK, settings, HasDelay, OutQues, NumOutQue,
       NoQue
  <1>15. \A g \in Away' : Exact(g)'
    <2>1. \A g, u : u \in Outs /\ g \in put[u].back => g \in put'[u].back
      BY <1>11
    <2> QED BY <1>2, <1>6, <1>8, <2>1, SameExact DEF KeptInv
  <1>16. \A u \in Outs : CallOK(u)'
    <2> SUFFICES ASSUME NEW u \in Outs PROVE CallOK(u)'
      OBVIOUS
    <2>1. CallOK(u)
      BY DEF KeptInv
    <2>2. CASE u = o
      BY <1>2, <1>11, <2>1, <2>2 DEF CallOK, settings, Handing
    <2>3. CASE u # o
      BY <1>2, <1>4, <1>11, <2>1, <2>3, SameCall DEF Handing
    <2> QED BY <2>2, <2>3
  <1>17. \A u \in Outs : Counted(u)'
    <2> SUFFICES ASSUME NEW u \in Outs PROVE Counted(u)'
      OBVIOUS
    <2>1. Counted(u) /\ put'[u].frames = put[u].frames
      BY <1>11 DEF KeptInv
    <2>2. CASE u = d
      <3>1. full[d] \in SUBSET Frames /\ {f} \in SUBSET Frames /\ full[d] \cap {f} = {}
        BY <1>3, <1>4, <1>7 DEF Holders
      <3>2. Cardinality(full'[d]) = Cardinality(full[d]) + 1
        <4>1. Cardinality(full[d] \cup {f}) = Cardinality(full[d]) + Cardinality({f})
          BY <3>1, FrameSets
        <4>2. Cardinality({f}) = 1
          BY FrameSets
        <4> QED BY <1>12, <4>1, <4>2
      <3>3. /\ Cardinality(full[d]) \in Nat /\ Cardinality(held[d]) \in Nat
            /\ Cardinality(put[d].frames) \in Nat /\ empty[d] \in Int
            /\ Cardinality(outList[d]) = 1 /\ Cardinality(outList'[d]) = 0
        <4>1. /\ full[d] \in SUBSET Frames /\ held[d] \in SUBSET Frames /\ empty[d] \in Int
              /\ put[d].frames \in SUBSET Frames
          BY <1>3, <1>4 DEF PutType
        <4>2. outList[d] = {f} /\ outList'[d] = {}
          BY <1>5, <1>7, <1>12
        <4> QED BY <4>1, <4>2, FrameSets
      <3>4. empty[d] + (Cardinality(full[d]) + 1) + Cardinality(held[d]) + Cardinality(put[d].frames) + 0
            = Containers
        BY <2>1, <2>2, <3>3 DEF Counted
      <3>5. empty'[d] = empty[d] /\ held'[d] = held[d]
        BY <1>2
      <3> QED BY <2>1, <2>2, <3>2, <3>3, <3>4, <3>5 DEF Counted
    <2>3. CASE u # d
      BY <1>2, <1>12, <2>1, <2>3 DEF Counted
    <2> QED BY <2>2, <2>3
  <1> QED BY <1>2, <1>6, <1>13, <1>14, <1>15, <1>16, <1>17, SameDelay DEF KeptInv

LEMMA PutEmptyKept ==
  ASSUME Proper, KeptInv, NEW o \in OutQues, NEW frames \in SUBSET held[o],
         Cardinality(frames) <= config.maxReturn, PutEmpty(o, frames)
  PROVE  KeptInv'
  <1>1. PICK q : q = [NoPut EXCEPT !.at = "each", !.todo = frames]
    OBVIOUS
  <1>2. /\ put[o] = NoPut /\ put' = [put EXCEPT ![o] = q]
        /\ UNCHANGED <<settings, free, inQue, newData, dupCount, outId, outList, empty, full, notified, held,
                       received, asserted>>
    BY <1>1 DEF PutEmpty, settings, producer, outputs, delay
  <1>3. IInv' /\ \A g \in Frames : Owed(g)' = Owed(g)
    BY PutEmptyIInv DEF KeptInv
  <1>4. OutQues \subseteq Outs /\ put \in [Outs -> PutType] /\ o \in Outs
    BY KeptFacts
  <1>5. /\ q.at = "each" /\ q.frames = {} /\ q.back = {} /\ q.todo = frames
        /\ put'[o] = q /\ \A u \in Outs : u # o => put'[u] = put[u]
    BY <1>1, <1>2, <1>4 DEF NoPut
  <1>6. Away' = Away
    BY <1>2 DEF Away
  <1>7. Flags'
    BY <1>2 DEF KeptInv, Flags, settings, NumOutQue
  <1>8. ListsOK'
    <2>1. \A u \in Outs : put'[u].at # "putFull" => put[u].at # "putFull"
      BY <1>2, <1>5 DEF NoPut
    <2> QED BY <1>2, <2>1 DEF KeptInv, ListsOK, settings, HasDelay, OutQues, NumOutQue, NoQue
  <1>9. \A g \in Away' : Exact(g)'
    <2>1. \A g, u : u \in Outs /\ g \in put[u].back => g \in put'[u].back
      BY <1>2, <1>5 DEF NoPut
    <2> QED BY <1>2, <1>3, <1>6, <2>1, SameExact DEF KeptInv, Away
  <1>10. CallOK(o)' /\ Counted(o)'
    <2>1. put'[o].frames = {} /\ put'[o].frames \cup put'[o].todo = frames /\ put'[o].at = "each"
      BY <1>5
    <2>2. put[o].frames = {}
      BY <1>2 DEF NoPut
    <2>3. CallOK(o)'
      BY <1>2, <2>1 DEF CallOK, Handing, settings
    <2>4. Counted(o)'
      BY <1>2, <1>4, <2>1, <2>2 DEF KeptInv, Counted
    <2> QED BY <2>3, <2>4
  <1>11. \A u \in Outs : CallOK(u)' /\ Counted(u)'
    BY <1>2, <1>5, <1>10, SameCall DEF KeptInv, Counted, settings
  <1> QED BY <1>2, <1>3, <1>7, <1>8, <1>9, <1>11, SameDelay DEF KeptInv

LEMMA CountDownKept ==
  ASSUME Proper, KeptInv, NEW o \in OutQues, NEW last, CountDown(o, last)
  PROVE  KeptInv'
  <1> DEFINE frames == {last}
  <1>1. PICK forwards \in BOOLEAN : forwards <=> Forwards(o, last)
    OBVIOUS
  <1>2. PICK q : q = [at |-> IF Forwards(o, last) THEN "forward" ELSE "each",
                      todo |-> put[o].todo \ {last}, frames |-> put[o].frames \cup {last},
                      last |-> IF Forwards(o, last) THEN {last} ELSE {},
                      back |-> put[o].back \cup Freed(last)]
    OBVIOUS
  <1>5. o \in Outs /\ last \in put[o].todo /\ put[o].todo \subseteq held[o] /\ dupCount \in [Frames -> Int]
    BY KeptFacts DEF CountDown, KeptInv, IInv, Types, PutOK
  <1>3. /\ put[o].at = "each"
        /\ held' = [held EXCEPT ![o] = @ \ frames]
        /\ dupCount' = [f \in Frames |-> IF f \in frames THEN dupCount[f] - 1 ELSE dupCount[f]]
        /\ put' = [put EXCEPT ![o] = q] /\ asserted' = (forwards /\ ~HasDelay)
        /\ UNCHANGED <<settings, free, inQue, newData, outId, outList, empty, full, notified, received>>
    BY <1>1, <1>2, <1>5 DEF CountDown, settings, producer, outputs, delay, HasDelay
  <1>4. /\ OutQues \subseteq Outs /\ full \in [Outs -> SUBSET Frames] /\ held \in [Outs -> SUBSET Frames]
        /\ empty \in [Outs -> Int] /\ put \in [Outs -> PutType] /\ outList \in [Outs -> SUBSET Frames]
        /\ o \in Outs /\ frames \in SUBSET held[o] /\ frames \in SUBSET Frames /\ last \in Frames
        /\ config \in Configs
        /\ dupCount \in [Frames -> 0 .. NumOutQue] /\ NumOutQue \in Nat
        /\ NumOutQue \in 1 .. MaxOutQue /\ MaxOutQue \in Nat
    BY <1>5, KeptFacts
  <1>6. /\ IInv'
        /\ \A g \in Away : Owed(g)' = IF g \in frames THEN Owed(g) \ {o} ELSE Owed(g)
        /\ \A g \in frames : g \in Away /\ o \in Owed(g)
    BY CountDownIInv DEF KeptInv
  <1>7. Away' = Away
    BY <1>3 DEF Away
  <1>8. /\ q.at \in {"each", "forward"} /\ (q.at = "forward" => q.last = {last})
        /\ q.frames = put[o].frames \cup {last} /\ q.todo = put[o].todo \ {last}
        /\ q.back = put[o].back \cup Freed(last) /\ put'[o] = q /\ \A u \in Outs : u # o => put'[u] = put[u]
    BY <1>2, <1>3, <1>4
  <1>9. held'[o] = held[o] \ frames /\ \A u \in Outs : u # o => held'[u] = held[u]
    BY <1>3, <1>4
  <1>10. ~asserted'
    <2>1. ~HasDelay => ~Forwards(o, last)
      <3>1. ~HasDelay => syncDelayedOutputQueId = NoQue /\ delayedOutputQueId = NoQue
        BY DEF KeptInv, DelayOK, HasDelay
      <3>2. ~(NoQue < NumOutQue)
        BY <1>4 DEF NoQue
      <3> QED BY <3>1, <3>2 DEF Forwards
    <2> QED BY <1>1, <1>3, <2>1
  <1>11. \A g \in frames : /\ g \in Away /\ g \in Frames /\ dupCount[g] \in 1 .. NumOutQue
                           /\ Cardinality(Owed(g)') = Cardinality(Owed(g)) - 1
                           /\ Cardinality(Owed(g)) \in Nat
    <2> SUFFICES ASSUME NEW g \in frames
                 PROVE  /\ g \in Away /\ g \in Frames /\ dupCount[g] \in 1 .. NumOutQue
                        /\ Cardinality(Owed(g)') = Cardinality(Owed(g)) - 1
                        /\ Cardinality(Owed(g)) \in Nat
      OBVIOUS
    <2>1. g \in Away /\ g \in Frames /\ o \in Owed(g) /\ Owed(g)' = Owed(g) \ {o} /\ CountOK(g)
      BY <1>4, <1>6 DEF KeptInv, IInv
    <2>2. Owed(g) \subseteq OutQues
      BY <2>1, OwedOuts DEF KeptInv, IInv
    <2>3. IsFiniteSet(Owed(g)) /\ Cardinality(Owed(g)) \in Nat /\ Cardinality(Owed(g)) # 0
      BY <1>4, <2>1, <2>2, FewOwed
    <2>4. Cardinality(Owed(g)') = Cardinality(Owed(g)) - 1
      BY <2>1, <2>3, FS_RemoveElement
    <2>5. dupCount[g] \in 0 .. NumOutQue /\ Cardinality(Owed(g)) <= dupCount[g]
      BY <1>4, <2>1 DEF CountOK
    <2>6. dupCount[g] \in 1 .. NumOutQue
      BY <1>4, <2>3, <2>5
    <2> QED BY <2>1, <2>3, <2>4, <2>6
  <1>12. Flags'
    <2>1. \A g \in frames : dupCount[g] - 1 \in 0 .. NumOutQue
      BY <1>4, <1>11
    <2>2. dupCount' \in [Frames -> 0 .. NumOutQue]
      BY <1>3, <1>4, <2>1
    <2> QED BY <1>3, <2>2 DEF KeptInv, Flags, settings, NumOutQue
  <1>13. ListsOK'
    <2>1. \A u \in Outs : put'[u].at # "putFull" => put[u].at # "putFull"
      BY <1>3, <1>8 DEF NoPut
    <2>2. \A u \in Outs \ OutQues : held'[u] = {}
      BY <1>9 DEF KeptInv, ListsOK
    <2> QED BY <1>3, <2>1, <2>2 DEF KeptInv, ListsOK, settings, HasDelay, OutQues, NumOutQue, NoQue
  <1>14. \A g \in Away' : Exact(g)'
    <2> SUFFICES ASSUME NEW g \in Away PROVE Exact(g)'
      BY <1>7
    <2>1. g \in Frames /\ Exact(g)
      BY DEF Away, KeptInv
    <2>2. CASE g \in frames
      <3>1. dupCount'[g] = dupCount[g] - 1 /\ dupCount[g] \in Int
        BY <1>3, <1>4, <2>1, <2>2
      <3>2. Cardinality(Owed(g)') >= dupCount'[g]
        BY <1>11, <2>1, <2>2, <3>1 DEF Exact
      <3>3. dupCount'[g] = 0 => g \in put'[o].back
        BY <1>8, <2>2, <3>1 DEF Freed
      <3> QED BY <1>4, <3>2, <3>3 DEF Exact
    <2>3. CASE g \notin frames
      <3>1. dupCount'[g] = dupCount[g] /\ Owed(g)' = Owed(g)
        BY <1>3, <1>6, <2>1, <2>3
      <3>2. \A u \in Outs : g \in put[u].back => g \in put'[u].back
        BY <1>3, <1>8 DEF NoPut
      <3> QED BY <2>1, <3>1, <3>2 DEF Exact
    <2> QED BY <2>2, <2>3
  <1>15. \A u \in Outs : CallOK(u)'
    <2> SUFFICES ASSUME NEW u \in Outs PROVE CallOK(u)'
      OBVIOUS
    <2>1. CASE u = o
      <3>1. /\ put'[o].frames \cup put'[o].todo = put[o].frames \cup put[o].todo
            /\ put'[o].frames \cap put'[o].todo = {} /\ put'[o].at # "putFull"
            /\ put'[o].at = "forward" => put'[o].last = {last}
        BY <1>5, <1>8 DEF KeptInv, CallOK
      <3>2. config' = config
        BY <1>3 DEF settings
      <3> QED BY <1>4, <2>1, <3>1, <3>2 DEF KeptInv, CallOK, Handing
    <2>2. CASE u # o
      <3>1. put[u].at = "putFull" => outList'[delayedOutputQueId] = outList[delayedOutputQueId]
        BY <1>3
      <3> QED BY <1>3, <1>8, <2>2, <3>1, SameCall DEF KeptInv
    <2> QED BY <2>1, <2>2
  <1>16. Counted(o)'
    <2>1. /\ put[o].frames \in SUBSET Frames /\ last \notin put[o].frames
          /\ full[o] \in SUBSET Frames /\ held[o] \in SUBSET Frames /\ outList[o] \in SUBSET Frames
      BY <1>4, <1>5 DEF PutType, KeptInv, CallOK
    <2>2. /\ Cardinality(held'[o]) = Cardinality(held[o]) - 1
          /\ Cardinality(full[o]) \in Nat /\ Cardinality(held[o]) \in Nat
          /\ Cardinality(outList[o]) \in Nat /\ empty[o] \in Int /\ Cardinality(put[o].frames) \in Nat
      <3>1. Cardinality(held[o] \ frames) = Cardinality(held[o]) - Cardinality(frames) /\ Cardinality(frames) = 1
        BY <1>4, <2>1, FrameSets
      <3> QED BY <1>4, <1>9, <2>1, <3>1, FrameSets
    <2>3. Cardinality(put'[o].frames) = Cardinality(put[o].frames) + 1
      <3>1. Cardinality(put[o].frames \cup {last}) = Cardinality(put[o].frames) + Cardinality({last})
        <4>1. put[o].frames \cap {last} = {} /\ {last} \in SUBSET Frames
          BY <1>4, <2>1
        <4> QED BY <2>1, <4>1, FrameSets
      <3> QED BY <1>8, <3>1, FrameSets
    <2>4. empty[o] + Cardinality(full[o]) + (Cardinality(held[o]) - 1)
          + (Cardinality(put[o].frames) + 1) + Cardinality(outList[o]) = Containers
      BY <1>4, <2>2 DEF KeptInv, Counted
    <2>5. empty'[o] = empty[o] /\ full'[o] = full[o] /\ outList'[o] = outList[o]
      BY <1>3
    <2> QED BY <2>2, <2>3, <2>4, <2>5 DEF Counted
  <1>17. \A u \in Outs : Counted(u)'
    BY <1>3, <1>8, <1>9, <1>16 DEF KeptInv, Counted
  <1> QED BY <1>3, <1>6, <1>10, <1>12, <1>13, <1>14, <1>15, <1>17, SameDelay DEF KeptInv

LEMMA ProcessFramesKept == ASSUME Proper, KeptInv, ProcessFrames PROVE KeptInv'
  <1>1. PICK D : D = inQue
    OBVIOUS
  <1>2. PICK C : C = Copied
    OBVIOUS
  <1>3. /\ ~InHandler /\ newData' = "no"
        /\ config.preempts \/ \A o \in Outs : put[o].at \notin {"forward", "putFull"}
        /\ UNCHANGED <<settings, free, full, notified, held, put>>
    BY DEF ProcessFrames, MayRun, settings, delay
  <1>4. /\ OutQues \subseteq Outs /\ full \in [Outs -> SUBSET Frames] /\ held \in [Outs -> SUBSET Frames]
        /\ empty \in [Outs -> Int] /\ put \in [Outs -> PutType] /\ outList \in [Outs -> SUBSET Frames]
        /\ D \subseteq Frames /\ NumOutQue \in Nat /\ NumOutQue >= 1 /\ config \in Configs
        /\ dupCount \in [Frames -> 0 .. NumOutQue]
    BY <1>1, KeptFacts DEF KeptInv, IInv, Types
  <1>5. \A o \in Outs : put[o].at # "putFull"
    BY <1>3, KeptFacts, OneHands DEF Handing
  <1>6. /\ IInv'
        /\ \A g \in Away : g \in Frames /\ g \notin D /\ Owed(g)' = Owed(g)
        /\ Away' = Away \cup D /\ \A g \in D : Holders(g)' = C /\ Holders(g) = {}
    BY <1>1, <1>2, ProcessFramesIInv DEF KeptInv
  <1>7. CASE D = {}
    <2>1. UNCHANGED <<inQue, received, dupCount, outList, empty, outId, asserted>>
      BY <1>1, <1>7 DEF ProcessFrames
    <2>2. Flags' /\ ListsOK'
      BY <1>3, <2>1 DEF KeptInv, Flags, Notice, ListsOK, settings, HasDelay, OutQues, NumOutQue, NoQue
    <2>3. \A g \in Away' : Exact(g)'
      BY <1>3, <1>6, <1>7, <2>1, SameExact DEF KeptInv
    <2>4. \A o \in Outs : CallOK(o)' /\ Counted(o)'
      BY <1>3, <2>1, SameCall DEF KeptInv, Counted, settings
    <2> QED BY <1>3, <1>6, <2>1, <2>2, <2>3, <2>4, SameDelay DEF KeptInv
  <1>8. CASE D # {}
    <2>1. /\ received' = TRUE /\ outId' = 0
          /\ dupCount' = [f \in Frames |-> IF f \in D THEN NumOutQue ELSE dupCount[f]]
          /\ outList' = [o \in Outs |-> IF o \in C THEN D ELSE {}]
          /\ asserted' = \E o \in C : empty[o] < Cardinality(D)
          /\ empty' = [o \in Outs |-> IF o \in C THEN empty[o] - Cardinality(D) ELSE empty[o]]
      BY <1>1, <1>2, <1>8 DEF ProcessFrames
    <2>2. /\ C \subseteq OutQues /\ \A o \in OutQues : o \in C <=> o # delayedOutputQueId
          /\ HasDelay => delayedOutputQueId \in OutQues
      <3>1. \A o \in OutQues : Direct(o) <=> o # delayedOutputQueId
        BY <1>4, KeptFacts, Sizes DEF Direct, HasDelay
      <3> QED BY <1>2, <3>1, KeptFacts DEF Copied
    <2>3. \A o \in Outs : outList[o] = {}
      <3>1. \A o \in OutQues : o < outId
        BY <1>3, <1>4 DEF InHandler, OutQues
      <3>2. HasDelay => outList[delayedOutputQueId] = {}
        BY <1>5 DEF KeptInv, ListsOK
      <3>3. \A o \in OutQues : o = delayedOutputQueId => HasDelay
        BY <1>4, Sizes DEF HasDelay
      <3> QED BY <3>1, <3>2, <3>3 DEF KeptInv, ListsOK
    <2>4. \A o \in C : empty[o] >= Cardinality(D)
      BY <1>4, <1>6, <2>2, <2>3, RoomForCopies
    <2>5. ~asserted' /\ Cardinality(D) \in Nat
      <3>1. Cardinality(D) \in Nat
        BY <1>4, FrameSets
      <3>2. \A o \in C : empty[o] \in Int
        BY <1>4, <2>2
      <3>3. \A o \in C : ~(empty[o] < Cardinality(D))
        BY <2>4, <3>1, <3>2
      <3> QED BY <2>1, <3>1, <3>3
    <2>6. Flags'
      <3>1. empty' \in [Outs -> Int]
        BY <1>4, <2>1, <2>5
      <3>2. dupCount' \in [Frames -> 0 .. NumOutQue]
        <4>1. NumOutQue \in 0 .. NumOutQue
          BY <1>4
        <4> QED BY <1>4, <2>1, <4>1
      <3> QED BY <1>3, <2>1, <3>1, <3>2 DEF KeptInv, Flags, Notice, settings, NumOutQue
    <2>7. ListsOK'
      <3>1. \A o \in OutQues : ~(o < 0)
        BY <1>4 DEF OutQues
      <3>2. \A o \in Outs \ OutQues : outList'[o] = {} /\ full[o] = {} /\ held[o] = {}
        BY <2>1, <2>2 DEF KeptInv, ListsOK
      <3>3. HasDelay => outList'[delayedOutputQueId] = {}
        BY <1>4, <2>1, <2>2
      <3> QED BY <1>3, <2>1, <3>1, <3>2, <3>3 DEF ListsOK, settings, HasDelay, OutQues, NumOutQue,
         NoQue
    <2>8. \A g \in Away' : Exact(g)'
      <3> SUFFICES ASSUME NEW g \in Away \cup D PROVE Exact(g)'
        BY <1>6
      <3>1. CASE g \in Away
        <4>1. dupCount'[g] = dupCount[g] /\ Owed(g)' = Owed(g) /\ Exact(g)
          BY <1>6, <2>1, <3>1 DEF KeptInv
        <4> QED BY <1>3, <4>1 DEF Exact
      <3>2. CASE g \in D
        <4>1. Holders(g)' = C /\ dupCount'[g] = NumOutQue /\ g \in Frames
          BY <1>4, <1>6, <2>1, <3>2
        <4>2. HasDelay => Awaited(g)'
          <5> SUFFICES ASSUME HasDelay PROVE Awaited(g)'
            OBVIOUS
          <5>1. /\ NumOutQue > 1 /\ syncDelayedOutputQueId # delayedOutputQueId
                /\ syncDelayedOutputQueId = NoQue \/ syncDelayedOutputQueId \in OutQues
            BY KeptFacts
          <5>2. Waiting(g)'
            BY <1>3, <2>2, <4>1, <5>1 DEF Waiting, settings, NoQue
          <5> QED BY <1>3, <5>2 DEF Awaited, HasDelay, settings, NoQue
        <4>3. Owed(g)' = OutQues
          <5>1. Owed(g)' = C \cup {o \in OutQues : o = delayedOutputQueId /\ Awaited(g)'}
            BY <1>3, <4>1 DEF Owed, settings, OutQues, NumOutQue
          <5>2. \A o \in OutQues : o = delayedOutputQueId => HasDelay
            BY <1>4, Sizes DEF HasDelay
          <5> QED BY <2>2, <4>2, <5>1, <5>2
        <4>4. Cardinality(Owed(g)') = NumOutQue
          BY <1>4, <4>3, Sizes
        <4> QED BY <1>4, <4>1, <4>4 DEF Exact
      <3> QED BY <3>1, <3>2
    <2>9. \A o \in Outs : CallOK(o)'
      BY <1>3, <1>5, SameCall DEF KeptInv
    <2>10. ASSUME NEW o \in Outs PROVE Counted(o)'
      <3>1. Counted(o) /\ Cardinality(outList[o]) = 0
        BY <2>3, FrameSets DEF KeptInv
      <3>2. /\ Cardinality(full[o]) \in Nat /\ Cardinality(held[o]) \in Nat
            /\ Cardinality(put[o].frames) \in Nat /\ empty[o] \in Int
        BY <1>4, FrameSets DEF PutType
      <3>3. full'[o] = full[o] /\ held'[o] = held[o] /\ put'[o] = put[o]
        BY <1>3
      <3>4. empty[o] + Cardinality(full[o]) + Cardinality(held[o]) + Cardinality(put[o].frames) = Containers
        BY <3>1, <3>2 DEF Counted
      <3>5. CASE o \in C
        <4>1. empty'[o] = empty[o] - Cardinality(D) /\ outList'[o] = D
          BY <2>1, <3>5
        <4>2. (empty[o] - Cardinality(D)) + Cardinality(full[o]) + Cardinality(held[o])
              + Cardinality(put[o].frames) + Cardinality(D) = Containers
          BY <2>5, <3>2, <3>4
        <4> QED BY <3>3, <4>1, <4>2 DEF Counted
      <3>6. CASE o \notin C
        <4>1. empty'[o] = empty[o] /\ outList'[o] = {}
          BY <2>1, <3>6
        <4> QED BY <2>3, <3>1, <3>3, <4>1 DEF Counted
      <3> QED BY <3>5, <3>6
    <2> QED BY <1>6, <1>3, <2>5, <2>6, <2>7, <2>8, <2>9, <2>10, SameDelay DEF KeptInv
  <1> QED BY <1>7, <1>8

LEMMA SetDelayKept ==
  ASSUME Fresh, Proper, KeptInv, NEW c \in cmds, SetDelayOutQue(c), ValidDelay(c) PROVE KeptInv'
  <1>1. /\ ~InHandler /\ lock = NoQue /\ Away = {} /\ cmds' = cmds \ {c}
        /\ delayedOutputQueId' = c.out /\ syncDelayedOutputQueId' = c.sync
        /\ c.out < NumOutQue
        /\ UNCHANGED <<config, free, inQue, newData, dupCount, outId, outList, empty, full, notified, held,
                       put, received, asserted>>
    BY DEF SetDelayOutQue, producer, outputs, Fresh, ValidDelay
  <1>2. IInv'
    BY SetDelayIInv DEF KeptInv
  <1>3. /\ OutQues \subseteq Outs /\ NumOutQue \in 1 .. MaxOutQue /\ MaxOutQue \in Nat /\ NumOutQue \in Nat
        /\ c \in config.delayCmds /\ config \in Configs
    BY KeptFacts DEF KeptInv, IInv, Types
  <1>4. c.out \in Ids
    <2>1. config.delayCmds \subseteq [out : Ids, sync : Ids]
      BY <1>3, DupAssumption DEF ConfigType
    <2> QED BY <1>3, <2>1
  <1>6. HasDelay' /\ OutQues' = OutQues /\ delayedOutputQueId' \in OutQues
    <2>1. c.out \in OutQues /\ c.out # NoQue
      BY <1>1, <1>3, <1>4 DEF OutQues, NoQue, Ids
    <2> QED BY <1>1, <2>1, KeptFacts DEF HasDelay, NoQue, OutQues, NumOutQue
  <1>7. DelayOK'
    BY <1>1, <1>3, <1>6 DEF DelayOK
  <1>8. \A u \in Outs : ~Handing(u) /\ put[u].at # "putFull"
    <2>1. \A u \in Outs : u # NoQue /\ PutOK(u)
      BY <1>3, Sizes DEF KeptInv, IInv
    <2> QED BY <1>1, <2>1 DEF PutOK, Handing
  <1>9. \A o \in OutQues : outList[o] = {}
    <2>1. \A o \in OutQues : o < outId
      BY <1>1, <1>3 DEF InHandler, OutQues
    <2>2. \A o \in OutQues : o # delayedOutputQueId => outList[o] = {}
      BY <2>1 DEF KeptInv, ListsOK
    <2>3. HasDelay => outList[delayedOutputQueId] = {}
      BY <1>8 DEF KeptInv, ListsOK
    <2>4. \A o \in OutQues : o = delayedOutputQueId => HasDelay
      BY <1>3, Sizes DEF HasDelay
    <2> QED BY <2>2, <2>3, <2>4
  <1>10. ListsOK'
    BY <1>1, <1>6, <1>9 DEF KeptInv, ListsOK
  <1>11. Flags'
    BY <1>1 DEF KeptInv, Flags, NumOutQue
  <1>12. Away' = {}
    BY <1>1 DEF Away
  <1>13. \A o \in Outs : CallOK(o)' /\ Counted(o)'
    BY <1>1, <1>8 DEF KeptInv, CallOK, Counted, Handing
  <1> QED BY <1>1, <1>2, <1>7, <1>10, <1>11, <1>12, <1>13 DEF KeptInv

LEMMA SameKept ==
  ASSUME KeptInv, cmds' \subseteq cmds,
         UNCHANGED <<settings, free, inQue, newData, dupCount, outId, outList, empty, full, notified, held,
                     put, lock, received, asserted>>
  PROVE  KeptInv'
  <1>1. UNCHANGED <<settings, free, inQue, newData, dupCount, outId, outList, empty, full, notified, held,
                    put, received, asserted>>
    OBVIOUS
  <1>2. IInv' /\ Away' = Away
    BY SameIInv DEF KeptInv
  <1>3. \A g : Owed(g)' = Owed(g)
    BY <1>1, SameHolders, SamePending, SameDue, SameOwed DEF settings, Handing
  <1>4. Flags' /\ ListsOK'
    BY <1>1 DEF KeptInv, Flags, ListsOK, settings, HasDelay, OutQues, NumOutQue, NoQue
  <1>5. \A g \in Away' : Exact(g)'
    BY <1>1, <1>2, <1>3, SameExact DEF KeptInv
  <1>6. \A o \in Outs : CallOK(o)' /\ Counted(o)'
    BY <1>1, SameCall DEF KeptInv, Counted, settings
  <1> QED BY <1>1, <1>2, <1>4, <1>5, <1>6, SameDelay DEF KeptInv

LEMMA NextKept == ASSUME Fresh, Proper, KeptInv, Next PROVE KeptInv'
  <1>1. ASSUME NEW f \in Frames, Produce(f) PROVE KeptInv'
    BY <1>1, ProduceKept
  <1>2. CASE ProcessFrames
    BY <1>2, ProcessFramesKept
  <1>3. CASE PutOut
    BY <1>3, PutOutKept
  <1>4. ASSUME NEW c \in cmds, SetDelayOutQue(c) PROVE KeptInv'
    <2>1. CASE ValidDelay(c)
      BY <1>4, <2>1, SetDelayKept
    <2>2. CASE ~ValidDelay(c)
      BY <1>4, <2>2, SameKept DEF SetDelayOutQue, settings, producer, outputs
    <2> QED BY <2>1, <2>2
  <1>5. ASSUME NEW o \in OutQues, Consumer(o) PROVE KeptInv'
    <2>1. CASE GetFull(o)
      BY <2>1, GetFullKept
    <2>2. CASE PutEmptyFrames(o)
      <3>1. PICK frames \in SUBSET held[o] : Cardinality(frames) <= config.maxReturn /\ PutEmpty(o, frames)
        BY <2>2 DEF PutEmptyFrames
      <3> QED BY <3>1, PutEmptyKept
    <2>7. ASSUME NEW f \in put[o].todo, CountDown(o, f) PROVE KeptInv'
      BY <2>7, CountDownKept
    <2>3. CASE Forward(o)
      BY <2>3, ForwardKept
    <2>4. CASE PutDelayed(o)
      BY <2>4, PutDelayedKept
    <2>5. CASE PutBack(o)
      BY <2>5, PutBackKept
    <2>6. CASE PutContainers(o)
      BY <2>6, PutContainersKept
    <2> QED BY <1>5, <2>1, <2>2, <2>3, <2>4, <2>5, <2>6, <2>7 DEF Consumer, InPut
  <1> QED BY <1>1, <1>2, <1>3, <1>4, <1>5 DEF Next, Link

LEMMA KeptInvariant == ASSUME Proper PROVE Spec => []KeptInv
  <1>1. Init => Fresh /\ KeptInv
    BY InitKept DEF Init, Fresh, Away
  <1>2. Fresh /\ KeptInv /\ [Next]_vars => Fresh' /\ KeptInv'
    <2>1. ASSUME Fresh, KeptInv, UNCHANGED vars PROVE Fresh' /\ KeptInv'
      <3>1. UNCHANGED <<settings, free, inQue, newData, dupCount, outId, outList, empty, full, notified, held,
                        put, lock, cmds, received, asserted>>
        BY <2>1 DEF vars, settings, producer, outputs, delay
      <3> QED BY <2>1, <3>1, SameKept DEF Fresh, Away
    <2> QED BY <2>1, NextKept, NextFresh
  <1> QED BY <1>1, <1>2, PTL DEF Spec

(* A frame that is not with its producer has an owner: while outputs are     *)
(* owed it, one of them has it or a call is handing it on; then the call     *)
(* that counted it down to 0 has it.                                         *)
THEOREM FrameKeptAlways == ASSUME Proper PROVE Spec => []FrameKept
  <1>1. KeptInv => FrameKept
    <2> SUFFICES ASSUME KeptInv, NEW f \in Away
                 PROVE  Holders(f) # {} \/ \E o \in Outs : f \in put[o].back \cup put[o].last
      BY DEF FrameKept, Away
    <2>1. /\ f \in Frames /\ Exact(f) /\ CountOK(f) /\ dupCount[f] \in Nat
          /\ OutQues \subseteq Outs /\ config \in Configs
      BY KeptFacts DEF KeptInv, IInv, Away
    <2>2. CASE dupCount[f] = 0
      BY <2>1, <2>2 DEF Exact
    <2>3. CASE dupCount[f] # 0
      <3>1. Owed(f) \subseteq OutQues
        BY <2>1, OwedOuts DEF KeptInv, IInv
      <3>2. IsFiniteSet(Owed(f)) /\ Cardinality(Owed(f)) \in Nat
        BY <2>1, <3>1, FewOwed, FS_Subset, Sizes
      <3>3. Cardinality(Owed(f)) >= dupCount[f]
        BY <2>1 DEF Exact
      <3> SUFFICES ASSUME Holders(f) = {} PROVE \E o \in Outs : f \in put[o].last
        OBVIOUS
      <3>4. Owed(f) \subseteq {delayedOutputQueId}
        BY DEF Owed
      <3>5. Cardinality(Owed(f)) <= 1
        <4>1. IsFiniteSet({delayedOutputQueId}) /\ Cardinality({delayedOutputQueId}) = 1
          BY FS_Singleton
        <4> QED BY <3>4, <4>1, FS_Subset
      <3>6. Owed(f) # {}
        BY <2>1, <2>3, <3>2, <3>3, FS_EmptySet
      <3>7. Awaited(f) /\ ~Waiting(f)
        BY <2>1, <3>2, <3>3, <3>5, <3>6 DEF Owed, Waiting
      <3> QED BY <2>1, <3>7 DEF Awaited, Due
    <2> QED BY <2>2, <2>3
  <1> QED BY <1>1, KeptInvariant, PTL

(* No container is lost or used twice, and no assertion of the link fails:   *)
(* there are containers for the copies of all frames, and the delayed        *)
(* output, if there is none, gets none.                                      *)
THEOREM ContainersKeptAlways == ASSUME Proper PROVE Spec => []ContainersKept
  <1>1. KeptInv => ContainersKept
    <2> SUFFICES ASSUME KeptInv PROVE ContainersKept
      OBVIOUS
    <2>1. TypeOK /\ ~asserted
      <3>1. outId \in Ids
        BY KeptFacts DEF KeptInv, IInv, Types, Ids
      <3> QED BY <3>1 DEF KeptInv, IInv, Types, Flags, TypeOK, PutType
    <2>2. ASSUME NEW o \in Outs
          PROVE  (IF o = delayedOutputQueId THEN outList[o] ELSE Pending(o)) = outList[o]
      <3>1. o = delayedOutputQueId \/ Direct(o)
        BY DEF Direct
      <3>2. /\ NumOutQue \in Nat /\ outId \in 0 .. NumOutQue /\ MaxOutQue \in Nat
        BY KeptFacts DEF KeptInv, IInv, Types
      <3>3. CASE o \in OutQues
        <4>1. o < outId => o = delayedOutputQueId \/ outList[o] = {}
          BY <3>3 DEF KeptInv, ListsOK
        <4>2. ~InHandler => o < outId
          BY <3>2, <3>3 DEF InHandler, OutQues
        <4>3. o < outId \/ outId <= o
          BY <3>2, <3>3 DEF OutQues
        <4> QED BY <3>1, <4>1, <4>2, <4>3 DEF Pending
      <3>4. CASE o \notin OutQues
        BY <3>4 DEF KeptInv, ListsOK, Pending
      <3> QED BY <3>3, <3>4
    <2> QED BY <2>1, <2>2 DEF ContainersKept, KeptInv, Counted
  <1> QED BY <1>1, KeptInvariant, PTL
=============================================================================
