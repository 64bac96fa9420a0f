------------------------- MODULE AdaptiveStoreProofs -------------------------
(***************************************************************************)
(* Theorems about AdaptiveStore, for any number of fingers, any size of a  *)
(* view, any cap and any scores: what is written, on whose authority, what *)
(* is removed, and what the reader makes of a file that crashes cut short. *)
(***************************************************************************)
EXTENDS AdaptiveStore, SequenceTheorems, FiniteSetTheorems, TLAPS

\* The arithmetic of complete views: there is room for one more in a file that
\* has not the cells of MaxViews of them.
LEMMA RoomForOne ==
    ASSUME NEW c \in Nat, NEW m \in Nat, NEW k \in Nat, NEW l \in Nat,
           c * k <= l, l < m * k
    PROVE  c < m
<1> SUFFICES ASSUME c >= m PROVE FALSE
    OBVIOUS
<1>1. PICK d \in Nat : c = m + d
    <2> c - m \in Nat /\ c = m + (c - m)
        OBVIOUS
    <2> QED
        OBVIOUS
<1>2. c * k = m * k + d * k
    BY <1>1
<1>3. d * k \in Nat /\ m * k \in Nat
    BY <1>1
<1> QED
    BY <1>2, <1>3

LEMMA OneMore ==
    ASSUME NEW c \in Nat, NEW k \in Nat
    PROVE  (c + 1) * k = c * k + k
OBVIOUS

LEMMA NoViewNoCell ==
    ASSUME NEW k \in Nat
    PROVE  0 * k = 0
OBVIOUS

USE CellAssumption, ScoreAssumption, MarginAssumption, BoundAssumption, FingersAssumption

\* The block of a view is made of cells of that view.
LEMMA BlockType ==
    ASSUME NEW v \in View
    PROVE  /\ Block(v) \in Seq(Cell) /\ Len(Block(v)) = 1 + BodyCells
           /\ \A i \in 1 .. Len(Block(v)) : Block(v)[i].view = v
<1> DEFINE body == [i \in 1 .. BodyCells |-> Body(v, i)]
<1>1. Header(v) \in Cell /\ Header(v).view = v
    BY DEF Header, Cell
<1>2. \A i \in 1 .. BodyCells : Body(v, i) \in Cell /\ Body(v, i).view = v
    BY DEF Body, Cell
<1>3. body \in Seq(Cell) /\ Len(body) = BodyCells
    BY <1>2
<1>4. <<Header(v)>> \in Seq(Cell) /\ Len(<<Header(v)>>) = 1 /\ <<Header(v)>>[1] = Header(v)
    BY <1>1
<1>5. Block(v) = <<Header(v)>> \o body
    BY DEF Block
<1>6. Block(v) \in Seq(Cell) /\ Len(Block(v)) = 1 + BodyCells
    BY <1>3, <1>4, <1>5
<1>7. ASSUME NEW i \in 1 .. Len(Block(v)) PROVE Block(v)[i].view = v
    <2>1. CASE i = 1
        <3>1. Block(v)[1] = Header(v)
            BY <1>3, <1>4, <1>5
        <3> QED
            BY <1>1, <2>1, <3>1
    <2>2. CASE i > 1
        <3>1. Block(v)[i] = body[i - 1] /\ i - 1 \in 1 .. BodyCells
            BY <1>3, <1>4, <1>5, <1>6, <2>2
        <3> QED
            BY <1>2, <3>1
    <2> QED
        BY <1>6, <2>1, <2>2
<1> QED
    BY <1>6, <1>7

\* A part of a header is a cell of its view.
LEMMA PartType ==
    ASSUME NEW v \in View
    PROVE  Part(v) \in Cell /\ Part(v).view = v
BY DEF Part, Cell

\* What a removal of the stores S may leave.
LEMMA RemovedEffect ==
    ASSUME TypeOK, CellsOK, NEW S \in SUBSET Fingers, Removed(S)
    PROVE  /\ file' \in [Fingers -> Seq(Cell)]
           /\ complete' \in [Fingers -> 0 .. MaxViews]
           /\ torn' \in [Fingers -> {"no", "last", "inside"}]
           /\ \A f \in Fingers : \/ file'[f] = file[f] /\ complete'[f] = complete[f]
                                 \/ file'[f] = <<>> /\ complete'[f] = 0
           /\ ~UnlinkMayFail => \A f \in S : file'[f] = <<>>
           /\ \A f \in Fingers : \A i \in 1 .. Len(file'[f]) : file'[f][i].view \in View
           /\ \A f \in Fingers : complete'[f] * (1 + BodyCells) <= Len(file'[f])
<1>1. PICK R \in SUBSET S :
        /\ ~UnlinkMayFail => R = S
        /\ file' = [f \in Fingers |-> IF f \in R THEN <<>> ELSE file[f]]
        /\ complete' = [f \in Fingers |-> IF f \in R THEN 0 ELSE complete[f]]
        /\ torn' = [f \in Fingers |-> IF f \in R THEN "no" ELSE torn[f]]
    BY UnlinkAssumption DEF Removed
<1>2. <<>> \in Seq(Cell)
    OBVIOUS
<1>3. file' \in [Fingers -> Seq(Cell)]
    BY <1>1, <1>2 DEF CellsOK
<1>4. complete' \in [Fingers -> 0 .. MaxViews]
    BY <1>1 DEF TypeOK
<1>5. torn' \in [Fingers -> {"no", "last", "inside"}]
    BY <1>1 DEF TypeOK
<1>6. \A f \in Fingers : \/ file'[f] = file[f] /\ complete'[f] = complete[f]
                         \/ file'[f] = <<>> /\ complete'[f] = 0
    BY <1>1
<1>7. ASSUME NEW f \in Fingers
      PROVE  /\ \A i \in 1 .. Len(file'[f]) : file'[f][i].view \in View
             /\ complete'[f] * (1 + BodyCells) <= Len(file'[f])
    <2>1. CASE file'[f] = file[f] /\ complete'[f] = complete[f]
        BY <2>1 DEF TypeOK
    <2>2. CASE file'[f] = <<>> /\ complete'[f] = 0
        <3>1. Len(file'[f]) = 0 /\ complete'[f] * (1 + BodyCells) = 0
            BY <2>2, NoViewNoCell
        <3> QED
            BY <3>1
    <2> QED
        BY <1>6, <2>1, <2>2
<1> QED
    BY <1>1, <1>3, <1>4, <1>5, <1>6, <1>7

\* The first cell to write, and what is left after it.
LEMMA CellToWrite ==
    ASSUME CellsOK, writing # <<>>
    PROVE  /\ Head(writing) \in Cell /\ Head(writing) = writing[1]
           /\ Tail(writing) \in Seq(Cell) /\ Len(Tail(writing)) = Len(writing) - 1
           /\ Len(writing) > 0
           /\ \A i \in 1 .. Len(Tail(writing)) : Tail(writing)[i] = writing[i + 1]
           /\ Len(writing) = 1 <=> Tail(writing) = <<>>
<1>1. writing \in Seq(Cell)
    BY DEF CellsOK
<1>2. /\ Head(writing) \in Cell
      /\ Tail(writing) \in Seq(Cell) /\ Len(Tail(writing)) = Len(writing) - 1
      /\ \A i \in 1 .. Len(Tail(writing)) : Tail(writing)[i] = writing[i + 1]
    BY <1>1, HeadTailProperties
<1>3. Head(writing) = writing[1] /\ Len(writing) \in Nat
    BY <1>1
<1>4. Len(writing) > 0
    BY <1>1, <1>3, EmptySeq
<1>5. /\ Tail(writing) = <<>> => Len(Tail(writing)) = 0
      /\ Tail(writing) # <<>> => Len(Tail(writing)) # 0
    BY <1>2, EmptySeq
<1>6. Len(writing) = 1 <=> Tail(writing) = <<>>
    BY <1>2, <1>3, <1>5
<1> QED
    BY <1>2, <1>3, <1>4, <1>6

LEMMA InitStoreInv == Init => StoreInv
<1> SUFFICES ASSUME Init PROVE StoreInv
    OBVIOUS
<1>1. CellsOK
    BY DEF Init, CellsOK
<1>2. TypeOK
    <2>1. \A f \in Fingers : Len(file[f]) = 0 /\ complete[f] * (1 + BodyCells) = 0
        BY NoViewNoCell DEF Init
    <2>2. \A f \in Fingers : \A i \in 1 .. Len(file[f]) : file[f][i].view \in View
        BY <2>1
    <2>3. gen \in 0 .. MaxGen /\ template \in [Fingers -> 0 .. MaxGen]
        BY DEF Init
    <2>4. complete \in [Fingers -> 0 .. MaxViews]
        BY DEF Init
    <2>5. torn \in [Fingers -> {"no", "last", "inside"}] /\ gone \in [Fingers -> BOOLEAN]
        BY DEF Init
    <2>6. \A f \in Fingers : complete[f] * (1 + BodyCells) <= Len(file[f])
        BY <2>1
    <2> QED
        BY <2>2, <2>3, <2>4, <2>5, <2>6 DEF Init, TypeOK
<1>3. Counts
    BY DEF Init, Counts
<1>4. Phases
    BY DEF Init, Phases
<1>5. Authority
    BY DEF Init, Authority, StoreAuthorised
<1> QED
    BY <1>1, <1>2, <1>3, <1>4, <1>5 DEF StoreInv

\* No append is under way unless a verification is.
LEMMA NotWriting == StoreInv /\ verifying = None => writing = <<>>
BY DEF StoreInv, TypeOK

LEMMA OpenStoreInv == StoreInv /\ Open => StoreInv'
<1> SUFFICES ASSUME StoreInv, Open PROVE StoreInv'
    OBVIOUS
<1>1. TypeOK /\ CellsOK /\ Counts /\ Phases /\ Authority
    BY DEF StoreInv
<1>2. saving = None /\ verifying = None /\ writing = <<>>
    BY <1>1, NotWriting DEF Open, Phases
<1>3. /\ UNCHANGED <<template, gen, saving, writing, verifying, best>> /\ opened' = TRUE
      /\ gone' = [f \in Fingers |-> template[f] = 0]
      /\ Removed(Orphans)
    BY DEF Open
<1>4. Orphans \in SUBSET Fingers
    BY DEF Orphans
<1>5. /\ file' \in [Fingers -> Seq(Cell)]
      /\ complete' \in [Fingers -> 0 .. MaxViews]
      /\ torn' \in [Fingers -> {"no", "last", "inside"}]
      /\ \A f \in Fingers : file'[f] = file[f] \/ file'[f] = <<>>
      /\ ~UnlinkMayFail => \A f \in Orphans : file'[f] = <<>>
      /\ \A f \in Fingers : \A i \in 1 .. Len(file'[f]) : file'[f][i].view \in View
      /\ \A f \in Fingers : complete'[f] * (1 + BodyCells) <= Len(file'[f])
    BY <1>1, <1>3, <1>4, RemovedEffect
<1>6. TypeOK'
    <2>1. gone' \in [Fingers -> BOOLEAN]
        BY <1>3
    <2> QED
        BY <1>1, <1>2, <1>3, <1>5, <2>1 DEF TypeOK
<1>7. CellsOK'
    BY <1>1, <1>3, <1>5 DEF CellsOK
<1>8. Counts'
    BY <1>2, <1>3 DEF Counts
<1>9. Phases'
    BY <1>1, <1>2, <1>3 DEF Phases
<1>10. Authority'
    <2> SUFFICES ASSUME ~UnlinkMayFail
                 PROVE  /\ StoreAuthorised'
                        /\ \A f \in Fingers : gone'[f] =>
                               file'[f] = <<>> /\ template'[f] = 0 /\ verifying' # f
        BY <1>2, <1>3 DEF Authority
    <2>1. StoreAuthorised'
        BY <1>1, <1>3, <1>5 DEF StoreAuthorised, Authority
    <2>2. ASSUME NEW f \in Fingers, gone'[f]
          PROVE  file'[f] = <<>> /\ template'[f] = 0 /\ verifying' # f
        BY <1>2, <1>3, <1>5, <2>2 DEF Orphans
    <2> QED
        BY <2>1, <2>2
<1> QED
    BY <1>6, <1>7, <1>8, <1>9, <1>10 DEF StoreInv

LEMMA EnrollDoneStoreInv ==
    ASSUME StoreInv, NEW f \in Fingers, EnrollDone(f)
    PROVE  StoreInv'
<1>1. TypeOK /\ CellsOK /\ Counts /\ Phases /\ Authority
    BY DEF StoreInv
<1>2. /\ opened /\ saving = None /\ verifying = None /\ gen < MaxGen /\ saving' = f
      /\ UNCHANGED <<opened, template, gen, writing, verifying, best, gone>>
      /\ Removed({f})
    BY DEF EnrollDone, Idle
<1>3. writing = <<>>
    BY <1>2, NotWriting
<1>4. {f} \in SUBSET Fingers
    OBVIOUS
<1>5. /\ file' \in [Fingers -> Seq(Cell)]
      /\ complete' \in [Fingers -> 0 .. MaxViews]
      /\ torn' \in [Fingers -> {"no", "last", "inside"}]
      /\ \A g \in Fingers : file'[g] = file[g] \/ file'[g] = <<>>
      /\ ~UnlinkMayFail => file'[f] = <<>>
      /\ \A g \in Fingers : \A i \in 1 .. Len(file'[g]) : file'[g][i].view \in View
      /\ \A g \in Fingers : complete'[g] * (1 + BodyCells) <= Len(file'[g])
    BY <1>1, <1>2, <1>4, RemovedEffect
<1>6. TypeOK'
    BY <1>1, <1>2, <1>3, <1>5 DEF TypeOK
<1>7. CellsOK'
    BY <1>1, <1>2, <1>5 DEF CellsOK
<1>8. Counts'
    BY <1>2, <1>3 DEF Counts
<1>9. Phases'
    BY <1>1, <1>2, <1>3 DEF Phases
<1>10. Authority'
    <2> SUFFICES ASSUME ~UnlinkMayFail
                 PROVE  /\ StoreAuthorised'
                        /\ file'[f] = <<>>
                        /\ \A g \in Fingers : gone'[g] =>
                               file'[g] = <<>> /\ template'[g] = 0 /\ verifying' # g
        BY <1>2, <1>3 DEF Authority
    <2>1. template' = template /\ gone' = gone /\ verifying' = verifying
        BY <1>2
    <2>2. StoreAuthorised /\ \A g \in Fingers : gone[g] =>
                                file[g] = <<>> /\ template[g] = 0 /\ verifying # g
        BY <1>1 DEF Authority
    <2>3. \A g \in Fingers : file'[g] = file[g] \/ file'[g] = <<>>
        BY <1>5
    <2>4. StoreAuthorised'
        BY <2>1, <2>2, <2>3 DEF StoreAuthorised
    <2>5. file'[f] = <<>>
        BY <1>5
    <2> QED
        BY <2>1, <2>2, <2>3, <2>4, <2>5
<1> QED
    BY <1>6, <1>7, <1>8, <1>9, <1>10 DEF StoreInv

LEMMA FprintdSavesStoreInv == StoreInv /\ FprintdSaves => StoreInv'
<1> SUFFICES ASSUME StoreInv, FprintdSaves PROVE StoreInv'
    OBVIOUS
<1>1. TypeOK /\ CellsOK /\ Counts /\ Phases /\ Authority
    BY DEF StoreInv
<1>2. /\ saving \in Fingers /\ saving' = None /\ gen < MaxGen /\ verifying = None
      /\ UNCHANGED <<opened, file, writing, verifying, best, complete, torn>>
    BY <1>1 DEF FprintdSaves, storeVars, TypeOK, Phases
<1>3. writing = <<>>
    BY <1>2, NotWriting
<1>4. CASE UNCHANGED <<gen, template, gone>>
    BY <1>1, <1>2, <1>3, <1>4
       DEF StoreInv, TypeOK, CellsOK, Counts, Phases, Authority, StoreAuthorised
<1>5. CASE /\ gen' = gen + 1 /\ template' = [template EXCEPT ![saving] = gen']
           /\ gone' = [gone EXCEPT ![saving] = FALSE]
    <2>1. gen' \in 0 .. MaxGen /\ template' \in [Fingers -> 0 .. MaxGen]
        BY <1>1, <1>2, <1>5 DEF TypeOK
    <2>2. gone' \in [Fingers -> BOOLEAN]
        BY <1>1, <1>5 DEF TypeOK
    <2>3. TypeOK'
        BY <1>1, <1>2, <1>3, <2>1, <2>2 DEF TypeOK
    <2>4. CellsOK' /\ Counts'
        BY <1>1, <1>2, <1>3 DEF CellsOK, Counts
    <2>5. \A f \in Fingers : template'[f] <= gen'
        BY <1>1, <1>5 DEF TypeOK, Phases
    <2>6. Phases'
        BY <1>1, <1>2, <1>3, <2>5 DEF Phases
    <2>7. Authority'
        <3> SUFFICES ASSUME ~UnlinkMayFail
                     PROVE  /\ StoreAuthorised'
                            /\ \A f \in Fingers : gone'[f] =>
                                   file'[f] = <<>> /\ template'[f] = 0 /\ verifying' # f
            BY <1>2, <1>3 DEF Authority
        <3>1. file[saving] = <<>> /\ StoreAuthorised
            BY <1>1, <1>2, NotWriting DEF Authority
        <3>2. \A f \in Fingers : f # saving => template'[f] = template[f] /\ gone'[f] = gone[f]
            BY <1>1, <1>5 DEF TypeOK
        <3>3. StoreAuthorised'
            BY <1>2, <3>1, <3>2 DEF StoreAuthorised
        <3>4. ~gone'[saving]
            BY <1>1, <1>2, <1>5 DEF TypeOK
        <3> QED
            BY <1>1, <1>2, <3>2, <3>3, <3>4 DEF Authority
    <2> QED
        BY <2>3, <2>4, <2>6, <2>7 DEF StoreInv
<1> QED
    BY <1>4, <1>5 DEF FprintdSaves

LEMMA CloseStoreInv == StoreInv /\ Close => StoreInv'
<1> SUFFICES ASSUME StoreInv, Close PROVE StoreInv'
    OBVIOUS
<1>1. TypeOK /\ CellsOK /\ Counts /\ Phases /\ Authority
    BY DEF StoreInv
<1>2. /\ saving = None /\ verifying = None /\ writing = <<>> /\ opened' = FALSE
      /\ UNCHANGED <<template, gen, saving, storeVars, verifying, best, histVars>>
    BY NotWriting DEF Close, Idle
<1>3. TypeOK'
    BY <1>1, <1>2 DEF TypeOK, storeVars, histVars
<1>4. CellsOK' /\ Counts'
    BY <1>1, <1>2 DEF CellsOK, Counts, Written, storeVars, histVars
<1>5. Phases'
    BY <1>1, <1>2 DEF Phases, storeVars, histVars
<1>6. Authority'
    BY <1>1, <1>2 DEF Authority, StoreAuthorised, storeVars, histVars
<1> QED
    BY <1>1, <1>3, <1>4, <1>5, <1>6 DEF StoreInv

LEMMA FprintdDeletesStoreInv ==
    ASSUME StoreInv, NEW f \in Fingers, FprintdDeletes(f)
    PROVE  StoreInv'
<1>1. TypeOK /\ CellsOK /\ Counts /\ Phases /\ Authority
    BY DEF StoreInv
<1>2. /\ template' = [template EXCEPT ![f] = 0]
      /\ UNCHANGED <<opened, gen, saving, storeVars, verifying, best, histVars>>
    BY DEF FprintdDeletes
<1>3. template' \in [Fingers -> 0 .. MaxGen]
    BY <1>1, <1>2 DEF TypeOK
<1>4. \A g \in Fingers : template'[g] = template[g] \/ template'[g] = 0
    BY <1>1, <1>2 DEF TypeOK
<1>5. TypeOK'
    BY <1>1, <1>2, <1>3 DEF TypeOK, storeVars, histVars
<1>6. CellsOK' /\ Counts'
    BY <1>1, <1>2 DEF CellsOK, Counts, Written, storeVars, histVars
<1>7. Phases'
    <2>1. gen \in Nat
        BY <1>1 DEF TypeOK
    <2>2. \A g \in Fingers : template[g] <= gen
        BY <1>1 DEF Phases
    <2>3. 0 <= gen
        BY <2>1
    <2>4. \A g \in Fingers : template'[g] <= gen
        BY <1>4, <2>2, <2>3
    <2> QED
        BY <1>1, <1>2, <2>4 DEF Phases, storeVars, histVars
<1>8. Authority'
    <2>1. UNCHANGED <<file, writing, verifying, saving, gone>>
        BY <1>2 DEF storeVars, histVars
    <2>2. CASE UnlinkMayFail
        BY <2>2 DEF Authority
    <2>3. CASE ~UnlinkMayFail
        <3>1. StoreAuthorised'
            BY <1>1, <1>4, <2>1, <2>3 DEF Authority, StoreAuthorised
        <3>2. verifying' # None => verifying' \in Fingers
            BY <1>1, <2>1 DEF TypeOK
        <3>3. writing' # <<>> /\ template'[verifying'] # 0 =>
                 \A i \in 1 .. Len(writing') : writing'[i].view.gen = template'[verifying']
            BY <1>1, <1>4, <2>1, <2>3, <3>2 DEF Authority, TypeOK
        <3> QED
            BY <1>1, <1>4, <2>1, <2>3, <3>1, <3>3 DEF Authority
    <2> QED
        BY <2>2, <2>3
<1> QED
    BY <1>5, <1>6, <1>7, <1>8 DEF StoreInv

LEMMA VerifyStoreInv ==
    ASSUME StoreInv, NEW f \in Fingers, Verify(f)
    PROVE  StoreInv'
<1>1. TypeOK /\ CellsOK /\ Counts /\ Phases /\ Authority
    BY DEF StoreInv
<1>2. /\ opened /\ saving = None /\ writing = <<>> /\ template[f] # 0
      /\ verifying' = f /\ best' \in Scores
      /\ UNCHANGED <<opened, template, gen, saving, storeVars, histVars>>
    BY NotWriting DEF Verify, Idle
<1>3. TypeOK'
    BY <1>1, <1>2 DEF TypeOK, storeVars, histVars
<1>4. CellsOK' /\ Counts'
    BY <1>1, <1>2 DEF CellsOK, Counts, Written, storeVars, histVars
<1>5. Phases'
    <2>1. gen > 0
        BY <1>1, <1>2 DEF TypeOK, Phases
    <2> QED
        BY <1>1, <1>2, <2>1 DEF Phases, storeVars, histVars
<1>6. Authority'
    BY <1>1, <1>2 DEF Authority, StoreAuthorised, storeVars, histVars
<1> QED
    BY <1>3, <1>4, <1>5, <1>6 DEF StoreInv

LEMMA VerifyDoneStoreInv == StoreInv /\ VerifyDone => StoreInv'
<1> SUFFICES ASSUME StoreInv, VerifyDone PROVE StoreInv'
    OBVIOUS
<1>1. TypeOK /\ CellsOK /\ Counts /\ Phases /\ Authority
    BY DEF StoreInv
<1>2. /\ writing = <<>> /\ verifying' = None /\ best' = 0
      /\ UNCHANGED <<opened, template, gen, saving, storeVars, histVars>>
    BY DEF VerifyDone
<1>3. TypeOK'
    BY <1>1, <1>2 DEF TypeOK, storeVars, histVars
<1>4. CellsOK' /\ Counts'
    BY <1>1, <1>2 DEF CellsOK, Counts, Written, storeVars, histVars
<1>5. Phases'
    BY <1>1, <1>2 DEF Phases, TypeOK, storeVars, histVars
<1>6. Authority'
    BY <1>1, <1>2 DEF Authority, StoreAuthorised, storeVars, histVars
<1> QED
    BY <1>3, <1>4, <1>5, <1>6 DEF StoreInv

\* What is about to be appended is a view, of the template if there is one.
LEMMA ViewToAppend ==
    ASSUME StoreInv, StartAppend
    PROVE  /\ verifying \in Fingers /\ complete[verifying] < MaxViews
           /\ NextView(verifying) \in View
           /\ template[verifying] # 0 => NextView(verifying).gen = template[verifying]
<1>1. TypeOK /\ CellsOK /\ Counts /\ Phases /\ Authority
    BY DEF StoreInv
<1> DEFINE f == verifying
           v == NextView(f)
<1>2. f \in Fingers /\ best >= AdaptMin /\ ~Full(f)
    BY <1>1 DEF StartAppend, Acquires, TypeOK
<1>3. complete[f] < MaxViews
    <2>1. complete[f] \in Nat /\ complete[f] * (1 + BodyCells) <= Len(file[f])
        BY <1>1, <1>2 DEF TypeOK
    <2>2. Len(file[f]) \in Nat /\ Len(file[f]) < MaxViews * (1 + BodyCells)
        <3>1. file[f] \in Seq(Cell)
            BY <1>1, <1>2 DEF CellsOK
        <3>2. Len(file[f]) \in Nat /\ MaxViews * (1 + BodyCells) \in Nat
            BY <3>1
        <3> QED
            BY <1>2, <3>2 DEF Full
    <2>3. 1 + BodyCells \in Nat
        OBVIOUS
    <2> QED
        BY <2>1, <2>2, <2>3, RoomForOne
<1>4. v \in View /\ (template[f] # 0 => v.gen = template[f])
    <2>1. complete[f] + 1 \in 1 .. MaxViews
        BY <1>1, <1>2, <1>3 DEF TypeOK
    <2>2. gen \in 1 .. MaxGen /\ template[f] \in 0 .. MaxGen
        BY <1>1, <1>2 DEF TypeOK, Phases
    <2> QED
        BY <2>1, <2>2 DEF NextView, View
<1> QED
    BY <1>2, <1>3, <1>4

LEMMA StartAppendStoreInv == StoreInv /\ StartAppend => StoreInv'
<1> SUFFICES ASSUME StoreInv, StartAppend PROVE StoreInv'
    OBVIOUS
<1>1. TypeOK /\ CellsOK /\ Counts /\ Phases /\ Authority
    BY DEF StoreInv
<1> DEFINE f == verifying
           v == NextView(f)
<1>2. /\ f \in Fingers /\ writing = <<>> /\ best >= AdaptMin /\ ~Full(f)
      /\ writing' = Block(v)
      /\ torn' = [torn EXCEPT ![f] = IF @ = "no" THEN "no" ELSE "inside"]
      /\ UNCHANGED <<opened, template, gen, saving, file, verifying, best, complete, gone>>
    BY <1>1 DEF StartAppend, Acquires, TypeOK
<1>3. complete[f] < MaxViews
    BY ViewToAppend
<1>4. v \in View /\ (template[f] # 0 => v.gen = template[f])
    BY ViewToAppend
<1>5. /\ writing' \in Seq(Cell) /\ Len(writing') = 1 + BodyCells
      /\ \A i \in 1 .. Len(writing') : writing'[i].view = v
    BY <1>2, <1>4, BlockType
<1>6. torn' \in [Fingers -> {"no", "last", "inside"}]
    BY <1>1, <1>2 DEF TypeOK
<1>7. TypeOK'
    BY <1>1, <1>2, <1>6 DEF TypeOK, Phases
<1>8. CellsOK'
    BY <1>1, <1>2, <1>5 DEF CellsOK
<1>9. Counts'
    <2>1. Written' = 0
        BY <1>5 DEF Written
    <2>2. complete[f] * (1 + BodyCells) <= Len(file[f]) /\ complete[f] * (1 + BodyCells) \in Int
        BY <1>1, <1>2 DEF TypeOK
    <2>3. complete'[verifying'] * (1 + BodyCells) + Written' <= Len(file'[verifying'])
        BY <1>2, <2>1, <2>2
    <2> QED
        BY <1>2, <1>3, <1>5, <2>3 DEF Counts
<1>10. Phases'
    BY <1>1, <1>2 DEF Phases
<1>11. Authority'
    BY <1>1, <1>2, <1>4, <1>5 DEF Authority, StoreAuthorised
<1> QED
    BY <1>7, <1>8, <1>9, <1>10, <1>11 DEF StoreInv

\* Appending one cell to one file.
LEMMA OneFileGrows ==
    ASSUME TypeOK, CellsOK, NEW f \in Fingers, NEW c \in Cell, c.view \in View,
           file' = [file EXCEPT ![f] = Append(@, c)]
    PROVE  /\ file' \in [Fingers -> Seq(Cell)]
           /\ Len(file'[f]) = Len(file[f]) + 1
           /\ file'[f][Len(file[f]) + 1] = c
           /\ \A i \in 1 .. Len(file[f]) : file'[f][i] = file[f][i]
           /\ \A g \in Fingers : g # f => file'[g] = file[g]
           /\ \A g \in Fingers : Len(file[g]) <= Len(file'[g])
           /\ \A g \in Fingers : \A i \in 1 .. Len(file'[g]) : file'[g][i].view \in View
<1>1. /\ file \in [Fingers -> Seq(Cell)]
      /\ \A g \in Fingers : \A i \in 1 .. Len(file[g]) : file[g][i].view \in View
    BY DEF TypeOK, CellsOK
<1>2. file[f] \in Seq(Cell) /\ Len(file[f]) \in Nat
    BY <1>1
<1>3. file'[f] = Append(file[f], c) /\ \A g \in Fingers : g # f => file'[g] = file[g]
    BY <1>1
<1>4. /\ Append(file[f], c) \in Seq(Cell)
      /\ Len(Append(file[f], c)) = Len(file[f]) + 1
      /\ Append(file[f], c)[Len(file[f]) + 1] = c
      /\ \A i \in 1 .. Len(file[f]) : Append(file[f], c)[i] = file[f][i]
    BY <1>2, AppendProperties
<1>5. file' \in [Fingers -> Seq(Cell)]
    BY <1>1, <1>4
<1>6. ASSUME NEW g \in Fingers PROVE Len(file[g]) <= Len(file'[g])
    <2>1. Len(file[g]) \in Nat
        BY <1>1
    <2> QED
        BY <1>3, <1>4, <2>1
<1>7. ASSUME NEW g \in Fingers, NEW i \in 1 .. Len(file'[g])
      PROVE  file'[g][i].view \in View
    <2>1. CASE g # f
        BY <1>1, <1>3, <2>1
    <2>2. CASE g = f /\ i = Len(file[f]) + 1
        BY <1>3, <1>4, <2>2
    <2>3. CASE g = f /\ i \in 1 .. Len(file[f])
        BY <1>1, <1>3, <1>4, <2>3
    <2> QED
        BY <1>2, <1>3, <1>4, <2>1, <2>2, <2>3
<1> QED
    BY <1>3, <1>4, <1>5, <1>6, <1>7

\* What is left to write bears the view of what is written.
LEMMA AppendCellStoreInv == StoreInv /\ AppendCell => StoreInv'
<1> SUFFICES ASSUME StoreInv, AppendCell PROVE StoreInv'
    OBVIOUS
<1>1. TypeOK /\ CellsOK /\ Counts /\ Phases /\ Authority
    BY DEF StoreInv
<1> DEFINE f == verifying
           c == Head(writing)
<1>2. /\ writing # <<>> /\ f \in Fingers /\ f # None
      /\ file' = [file EXCEPT ![f] = Append(@, c)] /\ writing' = Tail(writing)
      /\ UNCHANGED <<opened, template, gen, saving, torn, gone>>
    BY <1>1 DEF AppendCell, WriteCell, Extend, TypeOK
<1>3. \/ /\ Len(writing) = 1 /\ verifying' = None /\ best' = 0
         /\ complete' = [complete EXCEPT ![f] = IF torn[f] = "no" THEN @ + 1 ELSE @]
      \/ Len(writing) # 1 /\ UNCHANGED <<verifying, best, complete>>
    BY DEF AppendCell
<1>4. /\ c \in Cell /\ c = writing[1]
      /\ Tail(writing) \in Seq(Cell) /\ Len(Tail(writing)) = Len(writing) - 1
      /\ Len(writing) > 0
      /\ \A i \in 1 .. Len(Tail(writing)) : Tail(writing)[i] = writing[i + 1]
      /\ Len(writing) = 1 <=> Tail(writing) = <<>>
    BY <1>1, <1>2, CellToWrite
<1>5. c.view \in View
    BY <1>4 DEF Cell
<1>6. /\ file' \in [Fingers -> Seq(Cell)]
      /\ Len(file'[f]) = Len(file[f]) + 1
      /\ file'[f][Len(file[f]) + 1] = c
      /\ \A i \in 1 .. Len(file[f]) : file'[f][i] = file[f][i]
      /\ \A g \in Fingers : g # f => file'[g] = file[g]
      /\ \A g \in Fingers : Len(file[g]) <= Len(file'[g])
      /\ \A g \in Fingers : \A i \in 1 .. Len(file'[g]) : file'[g][i].view \in View
    BY <1>1, <1>2, <1>4, <1>5, OneFileGrows
<1>7. /\ complete[f] \in Nat /\ complete[f] < MaxViews
      /\ \A g \in Fingers : Len(file[g]) \in Nat
      /\ Len(writing) \in Nat
      /\ Len(writing) <= 1 + BodyCells
    <2>1. complete[f] < MaxViews /\ Len(writing) <= 1 + BodyCells
        BY <1>1, <1>2 DEF Counts
    <2>2. complete[f] \in Nat
        BY <1>1, <1>2 DEF TypeOK
    <2>3. \A g \in Fingers : file[g] \in Seq(Cell)
        BY <1>1 DEF CellsOK
    <2>4. writing \in Seq(Cell)
        BY <1>1 DEF CellsOK
    <2> QED
        BY <2>1, <2>2, <2>3, <2>4
<1>8. torn[f] = "no" =>
         complete[f] * (1 + BodyCells) + 1 + BodyCells - Len(writing) <= Len(file[f])
    <2>1. torn[f] = "no" => complete[f] * (1 + BodyCells) + Written <= Len(file[f])
        BY <1>1, <1>2 DEF Counts
    <2>2. complete[f] * (1 + BodyCells) \in Int
        BY <1>7
    <2> QED
        BY <1>7, <2>1, <2>2 DEF Written
<1>9. complete' \in [Fingers -> 0 .. MaxViews]
    <2>1. complete \in [Fingers -> 0 .. MaxViews]
        BY <1>1 DEF TypeOK
    <2>2. complete[f] + 1 \in 0 .. MaxViews
        BY <1>7
    <2> QED
        BY <1>2, <1>3, <2>1, <2>2
<1>10. ASSUME NEW g \in Fingers
       PROVE  complete'[g] * (1 + BodyCells) <= Len(file'[g])
    <2>1. complete[g] * (1 + BodyCells) <= Len(file[g]) /\ complete \in [Fingers -> 0 .. MaxViews]
        BY <1>1 DEF TypeOK
    <2>2. complete[g] * (1 + BodyCells) \in Int
        BY <2>1
    <2>3. CASE complete'[g] = complete[g]
        <3>1. Len(file[g]) <= Len(file'[g]) /\ Len(file[g]) \in Nat /\ Len(file'[g]) \in Nat
            BY <1>6, <1>7
        <3> QED
            BY <2>1, <2>2, <2>3, <3>1
    <2>4. CASE complete'[g] # complete[g]
        <3>1. g = f /\ torn[f] = "no" /\ Len(writing) = 1 /\ complete'[g] = complete[f] + 1
            BY <1>3, <2>1, <2>4
        <3>2. (complete[f] + 1) * (1 + BodyCells) = complete[f] * (1 + BodyCells) + (1 + BodyCells)
            BY <1>7, OneMore
        <3>3. complete[f] * (1 + BodyCells) + 1 + BodyCells - 1 <= Len(file[f])
            BY <1>8, <3>1
        <3>4. complete[f] * (1 + BodyCells) \in Int /\ Len(file'[f]) = Len(file[f]) + 1
            BY <1>6, <2>2, <3>1
        <3> QED
            BY <1>7, <3>1, <3>2, <3>3, <3>4
    <2> QED
        BY <2>3, <2>4
<1>11. verifying' \in Fingers \cup {None} /\ best' \in Scores \cup {0}
    BY <1>1, <1>3 DEF TypeOK
<1>12. writing' # <<>> => opened' /\ verifying' = f /\ best' = best /\ complete' = complete
    <2>1. opened
        BY <1>1, <1>2 DEF TypeOK
    <2> QED
        BY <1>2, <1>3, <1>4, <2>1
<1>13. TypeOK'
    BY <1>1, <1>2, <1>6, <1>9, <1>10, <1>11, <1>12 DEF TypeOK
<1>14. CellsOK'
    BY <1>2, <1>4, <1>6 DEF CellsOK
<1>15. Counts'
    <2>1. Len(writing') <= 1 + BodyCells
        BY <1>2, <1>4, <1>7
    <2>2. ASSUME writing' # <<>>
          PROVE  /\ complete'[verifying'] < MaxViews
                 /\ torn'[verifying'] = "no" =>
                       complete'[verifying'] * (1 + BodyCells) + Written'
                           <= Len(file'[verifying'])
        <3>1. verifying' = f /\ complete' = complete /\ torn' = torn
            BY <1>2, <1>12, <2>2
        <3>2. Written' = 1 + BodyCells - (Len(writing) - 1)
            BY <1>2, <1>4 DEF Written
        <3>3. complete[f] * (1 + BodyCells) \in Int
            BY <1>7
        <3> QED
            BY <1>6, <1>7, <1>8, <3>1, <3>2, <3>3
    <2> QED
        BY <2>1, <2>2 DEF Counts
<1>16. Phases'
    <2>1. writing' # <<>> => best' >= AdaptMin
        BY <1>1, <1>2, <1>12 DEF Phases
    <2>2. verifying' # None => verifying' = verifying
        BY <1>3
    <2> QED
        BY <1>1, <1>2, <2>1, <2>2 DEF Phases
<1>17. Authority'
    <2>1. CASE UnlinkMayFail
        BY <1>2, <2>1 DEF Authority
    <2>2. CASE ~UnlinkMayFail
        <3>1. /\ StoreAuthorised /\ saving = None
              /\ template[f] # 0 =>
                    \A i \in 1 .. Len(writing) : writing[i].view.gen = template[f]
              /\ \A g \in Fingers : gone[g] => file[g] = <<>> /\ template[g] = 0 /\ f # g
            BY <1>1, <1>2, <2>2 DEF Authority, Phases
        <3>2. template[f] # 0 => c.view.gen = template[f]
            BY <1>4, <1>7, <3>1
        <3>3. ASSUME NEW g \in Fingers, template[g] # 0, NEW i \in 1 .. Len(file'[g])
              PROVE  file'[g][i].view.gen = template[g]
            <4>1. CASE g # f
                <5>1. file'[g] = file[g]
                    BY <1>6, <4>1
                <5> QED
                    BY <3>1, <3>3, <5>1 DEF StoreAuthorised
            <4>2. CASE g = f /\ i \in 1 .. Len(file[f])
                <5>1. file'[g][i] = file[g][i]
                    BY <1>6, <4>2
                <5>2. template[g] # 0 => file[g][i].view.gen = template[g]
                    BY <3>1, <4>2 DEF StoreAuthorised
                <5> QED
                    BY <3>3, <5>1, <5>2
            <4>3. CASE g = f /\ i = Len(file[f]) + 1
                BY <1>6, <3>2, <3>3, <4>3
            <4> QED
                BY <1>6, <1>7, <4>1, <4>2, <4>3
        <3>4. StoreAuthorised'
            BY <1>2, <3>3 DEF StoreAuthorised
        <3>5. writing' # <<>> /\ template'[verifying'] # 0 =>
                 \A i \in 1 .. Len(writing') : writing'[i].view.gen = template'[verifying']
            <4> SUFFICES ASSUME writing' # <<>>, template'[verifying'] # 0,
                                NEW i \in 1 .. Len(writing')
                         PROVE  writing'[i].view.gen = template'[verifying']
                OBVIOUS
            <4>1. verifying' = f /\ template' = template
                BY <1>2, <1>12
            <4>2. writing'[i] = writing[i + 1] /\ i + 1 \in 1 .. Len(writing)
                BY <1>2, <1>4, <1>7
            <4> QED
                BY <3>1, <4>1, <4>2
        <3>6. ASSUME NEW g \in Fingers, gone'[g]
              PROVE  file'[g] = <<>> /\ template'[g] = 0 /\ verifying' # g
            <4>1. gone[g] /\ g # f
                BY <1>2, <3>1, <3>6
            <4>2. file'[g] = file[g]
                BY <1>6, <4>1
            <4>3. verifying' # g
                BY <1>3, <3>1, <4>1
            <4> QED
                BY <1>2, <3>1, <4>1, <4>2, <4>3
        <3> QED
            BY <1>2, <3>1, <3>4, <3>5, <3>6 DEF Authority
    <2> QED
        BY <2>1, <2>2
<1> QED
    BY <1>13, <1>14, <1>15, <1>16, <1>17 DEF StoreInv

\* What a write cut short leaves: the type of the files, and their authority.
LEMMA CutShortEffect ==
    ASSUME StoreInv, CutShort
    PROVE  /\ file' \in [Fingers -> Seq(Cell)]
           /\ torn' \in [Fingers -> {"no", "last", "inside"}]
           /\ \A g \in Fingers : Len(file[g]) <= Len(file'[g])
           /\ \A g \in Fingers : \A i \in 1 .. Len(file'[g]) : file'[g][i].view \in View
           /\ verifying = None => file' = file
           /\ \A g \in Fingers : g # verifying => file'[g] = file[g]
           /\ ~UnlinkMayFail =>
                \A g \in Fingers : template[g] # 0 =>
                    \A i \in 1 .. Len(file'[g]) : file'[g][i].view.gen = template[g]
<1>1. TypeOK /\ CellsOK /\ Counts /\ Phases /\ Authority
    BY DEF StoreInv
<1>2. /\ file \in [Fingers -> Seq(Cell)] /\ torn \in [Fingers -> {"no", "last", "inside"}]
      /\ \A g \in Fingers : \A i \in 1 .. Len(file[g]) : file[g][i].view \in View
      /\ ~UnlinkMayFail =>
            \A g \in Fingers : template[g] # 0 =>
                \A i \in 1 .. Len(file[g]) : file[g][i].view.gen = template[g]
    BY <1>1 DEF TypeOK, CellsOK, Authority, StoreAuthorised
<1>3. \A g \in Fingers : Len(file[g]) \in Nat
    BY <1>2
<1>4. torn' \in [Fingers -> {"no", "last", "inside"}]
    BY <1>2 DEF CutShort
<1>5. CASE file' = file
    BY <1>2, <1>3, <1>4, <1>5
<1>6. CASE /\ writing # <<>>
           /\ file' = [file EXCEPT ![verifying] = Append(@, Part(Head(writing).view))]
    <2> DEFINE f == verifying
               c == Part(Head(writing).view)
    <2>1. f \in Fingers /\ f # None
        BY <1>1, <1>6 DEF TypeOK
    <2>2. Head(writing) \in Cell /\ Head(writing) = writing[1] /\ Len(writing) > 0
        BY <1>1, <1>6, CellToWrite
    <2>3. Head(writing).view \in View
        BY <2>2 DEF Cell
    <2>4. c \in Cell /\ c.view = Head(writing).view
        BY <2>3, PartType
    <2>5. /\ file' \in [Fingers -> Seq(Cell)]
          /\ Len(file'[f]) = Len(file[f]) + 1
          /\ file'[f][Len(file[f]) + 1] = c
          /\ \A i \in 1 .. Len(file[f]) : file'[f][i] = file[f][i]
          /\ \A g \in Fingers : g # f => file'[g] = file[g]
          /\ \A g \in Fingers : Len(file[g]) <= Len(file'[g])
          /\ \A g \in Fingers : \A i \in 1 .. Len(file'[g]) : file'[g][i].view \in View
        BY <1>1, <1>6, <2>1, <2>3, <2>4, OneFileGrows
    <2>6. ASSUME ~UnlinkMayFail, NEW g \in Fingers, template[g] # 0,
                 NEW i \in 1 .. Len(file'[g])
          PROVE  file'[g][i].view.gen = template[g]
        <3>1. CASE g # f
            BY <1>2, <2>5, <2>6, <3>1
        <3>2. CASE g = f /\ i \in 1 .. Len(file[f])
            BY <1>2, <2>5, <2>6, <3>2
        <3>3. CASE g = f /\ i = Len(file[f]) + 1
            <4>1. \A j \in 1 .. Len(writing) : writing[j].view.gen = template[f]
                BY <1>1, <1>6, <2>6, <3>3 DEF Authority
            <4>2. 1 \in 1 .. Len(writing)
                <5>1. Len(writing) \in Nat
                    BY <1>1 DEF CellsOK
                <5> QED
                    BY <2>2, <5>1
            <4>3. c.view.gen = template[f]
                BY <2>2, <2>4, <4>1, <4>2
            <4> QED
                BY <2>5, <3>3, <4>3
        <3> QED
            BY <1>3, <2>1, <2>5, <3>1, <3>2, <3>3
    <2> QED
        BY <1>4, <2>1, <2>5, <2>6
<1> QED
    BY <1>5, <1>6 DEF CutShort, Extend

\* A write cut short, and the end of the verification it belongs to.
LEMMA EndOfAppend ==
    ASSUME StoreInv, CutShort, writing' = <<>>, verifying' = None, best' = 0,
           opened' \in BOOLEAN, saving' = None \/ saving' = saving,
           saving' # None => opened' /\ verifying = None,
           UNCHANGED <<template, gen, complete, gone>>
    PROVE  StoreInv'
<1>1. TypeOK /\ CellsOK /\ Counts /\ Phases /\ Authority
    BY DEF StoreInv
<1>2. /\ file' \in [Fingers -> Seq(Cell)]
      /\ torn' \in [Fingers -> {"no", "last", "inside"}]
      /\ \A g \in Fingers : Len(file[g]) <= Len(file'[g])
      /\ \A g \in Fingers : \A i \in 1 .. Len(file'[g]) : file'[g][i].view \in View
      /\ verifying = None => file' = file
      /\ \A g \in Fingers : g # verifying => file'[g] = file[g]
      /\ ~UnlinkMayFail =>
            \A g \in Fingers : template[g] # 0 =>
                \A i \in 1 .. Len(file'[g]) : file'[g][i].view.gen = template[g]
    BY CutShortEffect
<1>3. ASSUME NEW g \in Fingers PROVE complete'[g] * (1 + BodyCells) <= Len(file'[g])
    <2>1. complete[g] * (1 + BodyCells) <= Len(file[g]) /\ complete[g] \in Int
        BY <1>1 DEF TypeOK
    <2>2. Len(file[g]) \in Nat /\ Len(file'[g]) \in Nat
        BY <1>1, <1>2 DEF CellsOK
    <2>3. complete[g] * (1 + BodyCells) \in Int
        BY <2>1
    <2> QED
        BY <1>2, <2>1, <2>2, <2>3
<1>4. TypeOK'
    BY <1>1, <1>2, <1>3 DEF TypeOK
<1>5. CellsOK'
    BY <1>2 DEF CellsOK
<1>6. Counts'
    BY DEF Counts
<1>7. Phases'
    BY <1>1 DEF Phases
<1>8. Authority'
    <2>1. CASE UnlinkMayFail
        BY <2>1 DEF Authority
    <2>2. CASE ~UnlinkMayFail
        <3>1. StoreAuthorised'
            BY <1>2, <2>2 DEF StoreAuthorised
        <3>2. saving' # None => file'[saving'] = <<>>
            BY <1>1, <1>2, <2>2 DEF Authority
        <3>3. \A g \in Fingers : gone'[g] =>
                  file'[g] = <<>> /\ template'[g] = 0 /\ verifying' # g
            BY <1>1, <1>2, <2>2, FingersAssumption DEF Authority
        <3> QED
            BY <3>1, <3>2, <3>3 DEF Authority
    <2> QED
        BY <2>1, <2>2
<1> QED
    BY <1>4, <1>5, <1>6, <1>7, <1>8 DEF StoreInv

LEMMA ShortWriteStoreInv == StoreInv /\ ShortWrite => StoreInv'
<1> SUFFICES ASSUME StoreInv, ShortWrite PROVE StoreInv'
    OBVIOUS
<1>1. TypeOK /\ Phases
    BY DEF StoreInv
<1>2. /\ writing # <<>> /\ CutShort /\ writing' = <<>> /\ verifying' = None /\ best' = 0
      /\ UNCHANGED <<opened, template, gen, saving, complete, gone>>
    BY DEF ShortWrite
<1>3. opened' \in BOOLEAN /\ saving = None
    BY <1>1, <1>2 DEF TypeOK, Phases
<1> QED
    BY <1>2, <1>3, EndOfAppend

LEMMA CrashStoreInv == StoreInv /\ Crash => StoreInv'
<1> SUFFICES ASSUME StoreInv, Crash PROVE StoreInv'
    OBVIOUS
<1>1. /\ CutShort /\ opened' = FALSE /\ saving' = None
      /\ writing' = <<>> /\ verifying' = None /\ best' = 0
      /\ UNCHANGED <<template, gen, complete, gone>>
    BY DEF Crash
<1> QED
    BY <1>1, EndOfAppend

LEMMA StutterStoreInv == StoreInv /\ UNCHANGED vars => StoreInv'
<1> SUFFICES ASSUME StoreInv, UNCHANGED vars PROVE StoreInv'
    OBVIOUS
<1>1. TypeOK' /\ CellsOK'
    BY DEF StoreInv, TypeOK, CellsOK, vars, storeVars, histVars
<1>2. Counts' /\ Phases'
    BY DEF StoreInv, Counts, Written, Phases, vars, storeVars, histVars
<1>3. Authority'
    BY DEF StoreInv, Authority, StoreAuthorised, vars, storeVars, histVars
<1> QED
    BY <1>1, <1>2, <1>3 DEF StoreInv

LEMMA NextStoreInv == StoreInv /\ [Next]_vars => StoreInv'
<1> SUFFICES ASSUME StoreInv, [Next]_vars PROVE StoreInv'
    OBVIOUS
<1>1. CASE \E f \in Fingers : EnrollDone(f) \/ FprintdDeletes(f) \/ Verify(f)
    BY <1>1, EnrollDoneStoreInv, FprintdDeletesStoreInv, VerifyStoreInv
<1>2. CASE Open \/ Close \/ FprintdSaves \/ StartAppend
    BY <1>2, OpenStoreInv, CloseStoreInv, FprintdSavesStoreInv, StartAppendStoreInv
<1>3. CASE AppendCell \/ VerifyDone \/ ShortWrite \/ Crash
    BY <1>3, AppendCellStoreInv, VerifyDoneStoreInv, ShortWriteStoreInv, CrashStoreInv
<1>4. CASE UNCHANGED vars
    BY <1>4, StutterStoreInv
<1> QED
    BY <1>1, <1>2, <1>3, <1>4 DEF Next

-----------------------------------------------------------------------------
(* What the reader makes of a file. *)

\* Multiples: of two numbers in order, and of two that both lie within one step.
LEMMA Multiples ==
    ASSUME NEW a \in Nat, NEW b \in Nat, NEW k \in Nat
    PROVE  /\ a * k \in Nat /\ b * k \in Nat /\ (a + 1) * k \in Nat
           /\ (a + 1) * k = a * k + k
           /\ a <= b => a * k <= b * k
           /\ a < b => a * k + k <= b * k
<1>1. a * k \in Nat /\ b * k \in Nat /\ (a + 1) * k \in Nat /\ (a + 1) * k = a * k + k
    OBVIOUS
<1>2. ASSUME a <= b PROVE a * k <= b * k
    <2>1. PICK d \in Nat : b = a + d
        <3> b - a \in Nat /\ b = a + (b - a)
            BY <1>2
        <3> QED
            OBVIOUS
    <2>2. b * k = a * k + d * k /\ d * k \in Nat
        BY <2>1
    <2> QED
        BY <1>1, <2>2
<1>3. ASSUME a < b PROVE a * k + k <= b * k
    <2>1. PICK d \in Nat : b = (a + 1) + d
        <3> b - (a + 1) \in Nat /\ b = (a + 1) + (b - (a + 1))
            BY <1>3
        <3> QED
            OBVIOUS
    <2>2. b * k = (a + 1) * k + d * k /\ d * k \in Nat
        BY <2>1
    <2> QED
        BY <1>1, <2>2
<1> QED
    BY <1>1, <1>2, <1>3

LEMMA BlockCellsNat == BlockCells \in Nat /\ BlockCells = 1 + BodyCells /\ BlockCells >= 3
BY DEF BlockCells

\* A block further on is a block's length further on.
LEMMA BlockMultiples ==
    \A n, c \in Nat : /\ n * BlockCells \in Nat /\ (c + 1) * BlockCells \in Nat
                      /\ c + 1 <= n => (c + 1) * BlockCells <= n * BlockCells
<1> SUFFICES ASSUME NEW n \in Nat, NEW c \in Nat
             PROVE  /\ n * BlockCells \in Nat /\ (c + 1) * BlockCells \in Nat
                    /\ c + 1 <= n => (c + 1) * BlockCells <= n * BlockCells
    OBVIOUS
<1>1. c + 1 \in Nat /\ BlockCells \in Nat
    BY BlockCellsNat
<1> QED
    BY <1>1, Multiples

\* Where the blocks up to the n-th are, in a file that holds that one.
LEMMA Places ==
    ASSUME NEW l \in Nat, NEW n \in Nat, (n + 1) * BlockCells <= l, NEW m \in 0 .. n
    PROVE  /\ m * BlockCells \in Nat
           /\ (m + 1) * BlockCells = m * BlockCells + BlockCells
           /\ m * BlockCells + BlockCells <= l
           /\ n * BlockCells \in Nat /\ n * BlockCells + BlockCells <= l
<1>1. /\ m \in Nat /\ m * BlockCells \in Nat /\ n * BlockCells \in Nat
      /\ (m + 1) * BlockCells = m * BlockCells + BlockCells
      /\ m * BlockCells <= n * BlockCells
    BY BlockCellsNat, Multiples
<1>2. (n + 1) * BlockCells = n * BlockCells + BlockCells
    BY BlockCellsNat, Multiples
<1> QED
    BY <1>1, <1>2, BlockCellsNat

\* The cells of a blob.
LEMMA BlobCells ==
    ASSUME NEW cells \in Seq(Cell), NEW n \in Nat, (n + 1) * BlockCells <= Len(cells)
    PROVE  \A i \in 1 .. BodyCells : /\ Blob(cells, n)[i] = cells[n * BlockCells + 1 + i]
                                     /\ n * BlockCells + 1 + i \in 1 .. Len(cells)
<1> DEFINE p == n * BlockCells + 2
           q == (n + 1) * BlockCells
<1>1. /\ n * BlockCells \in Nat /\ q = n * BlockCells + BlockCells /\ Len(cells) \in Nat
      /\ n * BlockCells + BlockCells <= Len(cells)
    BY Places
<1>2. p \in Int /\ q \in Int /\ q - p + 1 = BodyCells /\ q <= Len(cells) /\ p >= 1
    BY <1>1, BlockCellsNat
<1>3. Blob(cells, n) = SubSeq(cells, p, q)
    BY DEF Blob
<1> HIDE DEF p, q
<1>4. \A i \in p .. q : cells[i] \in Cell
    BY <1>1, <1>2
<1>5. \A i \in 1 .. q - p + 1 : SubSeq(cells, p, q)[i] = cells[p + i - 1]
    BY <1>2, <1>4, SubSeqProperties
<1>6. \A i \in 1 .. BodyCells : Blob(cells, n)[i] = cells[p + i - 1]
    BY <1>2, <1>3, <1>5
<1>7. \A i \in 1 .. BodyCells : p + i - 1 = n * BlockCells + 1 + i
    BY <1>1 DEF p
<1>8. \A i \in 1 .. BodyCells : n * BlockCells + 1 + i \in 1 .. Len(cells)
    BY <1>1, BlockCellsNat
<1> QED
    BY <1>6, <1>7, <1>8

\* What it takes to be kept, and to be whole, in terms of the cells.
LEMMA LoadMember ==
    ASSUME NEW cells \in Seq(Cell), NEW n
    PROVE  /\ n \in LoadFrom(cells) <=>
                /\ n \in Nat /\ Follows(cells, n)
                /\ cells[n * BlockCells + 2].kind = "body" /\ cells[n * BlockCells + 2].i = 1
           /\ n \in LoadFrom(cells) => n \in Nat /\ (n + 1) * BlockCells <= Len(cells)
<1>1. Len(cells) \in Nat
    OBVIOUS
<1>2. ASSUME n \in Nat, Follows(cells, n)
      PROVE  /\ (n + 1) * BlockCells <= Len(cells) /\ n \in 0 .. Len(cells)
             /\ Blob(cells, n)[1] = cells[n * BlockCells + 2]
    <2>1. (n + 1) * BlockCells <= Len(cells)
        <3>1. n \in 0 .. n
            BY <1>2
        <3> QED
            BY <1>2, <3>1 DEF Follows
    <2>2. n <= (n + 1) * BlockCells
        <3>1. n * 1 <= n * BlockCells
            <4>1. n * BlockCells = n + n * BodyCells /\ n * BodyCells \in Nat
                BY <1>2 DEF BlockCells
            <4> QED
                BY <1>2, <4>1
        <3>2. (n + 1) * BlockCells = n * BlockCells + BlockCells /\ n * BlockCells \in Nat
            BY <1>2, BlockCellsNat, Multiples
        <3> QED
            BY <1>2, <3>1, <3>2, BlockCellsNat
    <2>3. Blob(cells, n)[1] = cells[n * BlockCells + 1 + 1]
        BY <1>2, <2>1, BlobCells
    <2>4. n * BlockCells + 1 + 1 = n * BlockCells + 2
        BY <1>2, BlockCellsNat
    <2>5. (n + 1) * BlockCells \in Nat
        BY <1>2, BlockCellsNat, Multiples
    <2> QED
        BY <1>1, <1>2, <2>1, <2>2, <2>3, <2>4, <2>5
<1> QED
    BY <1>1, <1>2 DEF LoadFrom, Deserializes

LEMMA WholeCells ==
    ASSUME NEW cells \in Seq(Cell), NEW n \in Nat, (n + 1) * BlockCells <= Len(cells)
    PROVE  Whole(cells, n) <=>
             /\ cells[n * BlockCells + 1].kind = "header"
             /\ \A i \in 1 .. BodyCells :
                   cells[n * BlockCells + 1 + i] = Body(cells[n * BlockCells + 2].view, i)
<1>1. \A i \in 1 .. BodyCells : Blob(cells, n)[i] = cells[n * BlockCells + 1 + i]
    BY BlobCells
<1>2. 1 \in 1 .. BodyCells /\ n * BlockCells + 1 + 1 = n * BlockCells + 2
    BY BlockCellsNat
<1>3. Blob(cells, n)[1] = cells[n * BlockCells + 2]
    BY <1>1, <1>2
<1> QED
    BY <1>1, <1>3 DEF Whole, IsIntact

\* Appending to a file changes nothing of the blocks that it held in full.
LEMMA Extends ==
    ASSUME NEW cells \in Seq(Cell), NEW more \in Seq(Cell), Len(cells) <= Len(more),
           \A i \in 1 .. Len(cells) : more[i] = cells[i],
           NEW n \in Nat, (n + 1) * BlockCells <= Len(cells)
    PROVE  Whole(more, n) <=> Whole(cells, n)
<1>1. Len(cells) \in Nat /\ Len(more) \in Nat
    OBVIOUS
<1>2. \A m \in 0 .. n : /\ m * BlockCells \in Nat
                        /\ (m + 1) * BlockCells = m * BlockCells + BlockCells
                        /\ m * BlockCells + BlockCells <= Len(cells)
    BY <1>1, Places
<1>3. \A m \in 0 .. n : /\ more[m * BlockCells + 1] = cells[m * BlockCells + 1]
                        /\ (m + 1) * BlockCells <= Len(cells)
                        /\ (m + 1) * BlockCells <= Len(more)
    <2> SUFFICES ASSUME NEW m \in 0 .. n
                 PROVE  /\ more[m * BlockCells + 1] = cells[m * BlockCells + 1]
                        /\ (m + 1) * BlockCells <= Len(cells)
                        /\ (m + 1) * BlockCells <= Len(more)
        OBVIOUS
    <2> DEFINE p == m * BlockCells
    <2>1. p \in Nat /\ (m + 1) * BlockCells = p + BlockCells /\ p + BlockCells <= Len(cells)
        BY <1>2
    <2> HIDE DEF p
    <2>2. p + 1 \in 1 .. Len(cells)
        BY <1>1, <2>1, BlockCellsNat
    <2>3. more[p + 1] = cells[p + 1]
        BY <2>2
    <2>4. p + BlockCells <= Len(more)
        BY <1>1, <2>1, BlockCellsNat
    <2> QED
        BY <2>1, <2>3, <2>4 DEF p
<1>4. n \in 0 .. n
    OBVIOUS
<1>5. \A i \in 1 .. BodyCells : more[n * BlockCells + 1 + i] = cells[n * BlockCells + 1 + i]
    BY BlobCells
<1>6. more[n * BlockCells + 2] = cells[n * BlockCells + 2]
    <2>1. 1 \in 1 .. BodyCells /\ n * BlockCells + 1 + 1 = n * BlockCells + 2
        BY BlockCellsNat
    <2> QED
        BY <1>5, <2>1
<1>8. more[n * BlockCells + 1] = cells[n * BlockCells + 1] /\ (n + 1) * BlockCells <= Len(more)
    BY <1>3, <1>4
<1>9. QED
    <2>1. Whole(more, n) <=>
             /\ more[n * BlockCells + 1].kind = "header"
             /\ \A i \in 1 .. BodyCells :
                   more[n * BlockCells + 1 + i] = Body(more[n * BlockCells + 2].view, i)
        BY <1>8, WholeCells
    <2>2. Whole(cells, n) <=>
             /\ cells[n * BlockCells + 1].kind = "header"
             /\ \A i \in 1 .. BodyCells :
                   cells[n * BlockCells + 1 + i] = Body(cells[n * BlockCells + 2].view, i)
        BY WholeCells
    <2>3. more[n * BlockCells + 1] = cells[n * BlockCells + 1]
        BY <1>3, <1>4
    <2> QED
        BY <1>5, <1>6, <2>1, <2>2, <2>3

\* Views that come first and whole are kept, and nothing else is unless the file
\* has the cells of one more block.
LEMMA WholeIsKept ==
    ASSUME NEW cells \in Seq(Cell), NEW c \in Nat, c * BlockCells <= Len(cells),
           \A n \in 0 .. c - 1 : Whole(cells, n)
    PROVE  /\ 0 .. c - 1 \subseteq LoadFrom(cells)
           /\ Len(cells) < (c + 1) * BlockCells => LoadFrom(cells) = 0 .. c - 1
<1>1. Len(cells) \in Nat /\ c * BlockCells \in Nat /\ (c + 1) * BlockCells \in Nat
    BY BlockCellsNat, Multiples
<1>2. \A n \in 0 .. c - 1 : (n + 1) * BlockCells <= Len(cells)
    <2> SUFFICES ASSUME NEW n \in 0 .. c - 1 PROVE (n + 1) * BlockCells <= Len(cells)
        OBVIOUS
    <2>1. (n + 1) * BlockCells <= c * BlockCells /\ (n + 1) * BlockCells \in Nat
        <3>1. n + 1 \in Nat /\ n + 1 <= c
            OBVIOUS
        <3> HIDE DEF BlockCells
        <3> QED
            BY <3>1, BlockCellsNat, Multiples
    <2> QED
        BY <1>1, <2>1
<1>3. ASSUME NEW n \in 0 .. c - 1 PROVE n \in LoadFrom(cells)
    <2>1. \A m \in 0 .. n : m \in 0 .. c - 1 /\ cells[m * BlockCells + 1].kind = "header"
        BY DEF Whole
    <2>2. Follows(cells, n)
        BY <1>2, <2>1 DEF Follows
    <2>3. cells[n * BlockCells + 1 + 1] = Body(cells[n * BlockCells + 2].view, 1)
        <3>1. n \in Nat /\ Whole(cells, n) /\ (n + 1) * BlockCells <= Len(cells)
            BY <1>2
        <3>2. 1 \in 1 .. BodyCells
            BY BlockCellsNat
        <3> QED
            BY <3>1, <3>2, WholeCells
    <2>4. n * BlockCells + 1 + 1 = n * BlockCells + 2
        BY BlockCellsNat
    <2>5. cells[n * BlockCells + 2].kind = "body" /\ cells[n * BlockCells + 2].i = 1
        BY <2>3, <2>4 DEF Body
    <2> QED
        BY <2>2, <2>5, LoadMember
<1>4. ASSUME Len(cells) < (c + 1) * BlockCells, NEW n \in LoadFrom(cells)
      PROVE  n \in 0 .. c - 1
    <2>1. n \in Nat /\ (n + 1) * BlockCells <= Len(cells)
        BY LoadMember
    <2>2. (n + 1) * BlockCells < (c + 1) * BlockCells /\ (n + 1) * BlockCells \in Nat
        BY <1>1, <1>4, <2>1, BlockCellsNat, Multiples
    <2>3. c + 1 <= n + 1 => (c + 1) * BlockCells <= (n + 1) * BlockCells
        BY <2>1, BlockCellsNat, Multiples
    <2> QED
        BY <1>1, <2>1, <2>2, <2>3
<1> QED
    BY <1>3, <1>4

\* The reader keeps finitely many blocks.
LEMMA LoadFinite ==
    ASSUME NEW cells \in Seq(Cell), NEW S \in SUBSET LoadFrom(cells)
    PROVE  /\ IsFiniteSet(S) /\ Cardinality(S) \in Nat
           /\ IsFiniteSet(LoadFrom(cells)) /\ Cardinality(LoadFrom(cells)) \in Nat
           /\ Cardinality(S) <= Cardinality(LoadFrom(cells))
<1>1. IsFiniteSet(0 .. Len(cells))
    BY FS_Interval
<1>2. LoadFrom(cells) \in SUBSET (0 .. Len(cells))
    BY DEF LoadFrom
<1>3. IsFiniteSet(LoadFrom(cells))
    BY <1>1, <1>2, FS_Subset
<1> QED
    BY <1>3, FS_Subset, FS_CardinalityType

\* A file of whole views with one more under way, or with a part of its header, is
\* read in step.
LEMMA StaysInStep ==
    ASSUME NEW cells \in Seq(Cell), NEW c \in Nat, Len(cells) <= (c + 1) * BlockCells,
           \A n \in 0 .. c - 1 : Whole(cells, n),
           c * BlockCells < Len(cells) =>
               \/ cells[c * BlockCells + 1].kind = "header"
               \/ Len(cells) = c * BlockCells + 1 /\ cells[c * BlockCells + 1].kind = "part"
    PROVE  ~OutOfStep(cells)
<1> SUFFICES ASSUME NEW n \in 0 .. Len(cells),
                    n * BlockCells + 1 <= Len(cells),
                    cells[n * BlockCells + 1].kind # "header",
                    cells[n * BlockCells + 1].kind = "part" =>
                        n * BlockCells + 1 < Len(cells)
             PROVE  FALSE
    BY DEF OutOfStep
<1>0. n \in Nat /\ Len(cells) \in Nat
    OBVIOUS
<1>1. n * BlockCells \in Nat /\ (c + 1) * BlockCells \in Nat
    BY <1>0, BlockMultiples, Zenon
<1>m. c + 1 <= n => (c + 1) * BlockCells <= n * BlockCells
    BY <1>0, BlockMultiples, Zenon
<1>2. CASE n < c
    <2>1. Whole(cells, n)
        BY <1>0, <1>2
    <2> QED
        BY <2>1 DEF Whole
<1>3. CASE n = c
    BY <1>0, <1>1, <1>3
<1>4. CASE n > c
    <2>1. c + 1 <= n
        BY <1>0, <1>4
    <2>2. (c + 1) * BlockCells <= n * BlockCells
        BY <1>m, <2>1
    <2>3. n * BlockCells + 1 <= (c + 1) * BlockCells
        BY <1>0, <1>1
    <2> QED
        BY <1>1, <2>2, <2>3
<1> QED
    BY <1>0, <1>2, <1>3, <1>4

\* The views written to the end, counted.
LEMMA CountUpTo ==
    ASSUME NEW c \in Nat
    PROVE  Cardinality(0 .. c - 1) = c
<1>1. Cardinality(0 .. c - 1) = IF 0 > c - 1 THEN 0 ELSE (c - 1) - 0 + 1
    <2>1. 0 \in Int /\ c - 1 \in Int
        OBVIOUS
    <2> QED
        BY <2>1, FS_Interval
<1> QED
    BY <1>1

\* One cell more in the file of f: what the bytes read out of step may make of it.
LEMMA StrayViews ==
    ASSUME InStep, NEW f \in Fingers, NEW c, Extend(f, c)
    PROVE  /\ file' = [file EXCEPT ![f] = Append(@, c)]
           /\ stray' \in [Fingers -> 0 .. MaxStray]
           /\ \A g \in Fingers : g # f => stray'[g] = stray[g]
           /\ ~OutOfStep(file'[f]) => stray'[f] = stray[f]
<1>1. stray \in [Fingers -> 0 .. MaxStray]
    BY DEF InStep
<1>2. PICK k \in (IF OutOfStep(file'[f]) THEN stray[f] .. MaxStray ELSE {stray[f]}) :
         stray' = [stray EXCEPT ![f] = k]
    BY DEF Extend
<1>3. k \in 0 .. MaxStray
    BY <1>1, <1>2
<1>4. ~OutOfStep(file'[f]) => k = stray[f]
    BY <1>2
<1>5. file' = [file EXCEPT ![f] = Append(@, c)]
    BY DEF Extend
<1> QED
    BY <1>1, <1>2, <1>3, <1>4, <1>5

\* The sizes of the files, and what of them the complete views take.
Sizes ==
    \A f \in Fingers :
        /\ file[f] \in Seq(Cell) /\ Len(file[f]) \in Nat
        /\ complete[f] \in Nat /\ complete[f] * BlockCells \in Nat
        /\ complete[f] * BlockCells <= Len(file[f])
        /\ (complete[f] + 1) * BlockCells = complete[f] * BlockCells + BlockCells

LEMMA SizesHold == StoreInv => Sizes
<1> SUFFICES ASSUME StoreInv, NEW f \in Fingers
             PROVE  /\ file[f] \in Seq(Cell) /\ Len(file[f]) \in Nat
                    /\ complete[f] \in Nat /\ complete[f] * BlockCells \in Nat
                    /\ complete[f] * BlockCells <= Len(file[f])
                    /\ (complete[f] + 1) * BlockCells = complete[f] * BlockCells + BlockCells
    BY DEF Sizes
<1>1. file[f] \in Seq(Cell)
    BY DEF StoreInv, CellsOK
<1>2. complete[f] \in Nat /\ complete[f] * BlockCells <= Len(file[f])
    BY DEF StoreInv, TypeOK, BlockCells
<1> QED
    BY <1>1, <1>2, BlockCellsNat, Multiples

\* The blocks that count as complete are in the file.
LEMMA CompletePlaces ==
    ASSUME Sizes, NEW f \in Fingers, NEW n \in 0 .. complete[f] - 1
    PROVE  n \in Nat /\ (n + 1) * BlockCells <= Len(file[f])
<1>1. /\ complete[f] \in Nat /\ complete[f] * BlockCells \in Nat /\ Len(file[f]) \in Nat
      /\ complete[f] * BlockCells <= Len(file[f])
    BY DEF Sizes
<1>2. n \in Nat /\ n + 1 \in Nat /\ n + 1 <= complete[f]
    BY <1>1
<1>3. (n + 1) * BlockCells <= complete[f] * BlockCells /\ (n + 1) * BlockCells \in Nat
    BY <1>1, <1>2, BlockCellsNat, Multiples
<1> QED
    BY <1>1, <1>2, <1>3

\* The cells of a block, in order.
LEMMA BlockAt ==
    ASSUME NEW v \in View
    PROVE  /\ Block(v)[1] = Header(v)
           /\ \A i \in 1 .. BodyCells : Block(v)[1 + i] = Body(v, i)
           /\ \A j \in 1 .. BlockCells : Block(v)[j].kind = "header" => j = 1
<1> DEFINE body == [i \in 1 .. BodyCells |-> Body(v, i)]
<1>1. body \in Seq({Body(v, i) : i \in 1 .. BodyCells}) /\ Len(body) = BodyCells
    OBVIOUS
<1>2. Block(v) = <<Header(v)>> \o body
    BY DEF Block
<1> HIDE DEF body
<1>3. Block(v)[1] = Header(v)
    BY <1>1, <1>2
<1>4. \A i \in 1 .. BodyCells : Block(v)[1 + i] = body[i]
    BY <1>1, <1>2
<1>5. \A i \in 1 .. BodyCells : Block(v)[1 + i] = Body(v, i)
    BY <1>4 DEF body
<1>6. ASSUME NEW j \in 1 .. BlockCells, j # 1 PROVE Block(v)[j].kind # "header"
    <2>1. j - 1 \in 1 .. BodyCells /\ 1 + (j - 1) = j
        BY <1>6, BlockCellsNat
    <2>2. Block(v)[1 + (j - 1)] = Body(v, j - 1)
        BY <1>5, <2>1
    <2> QED
        BY <2>1, <2>2 DEF Body
<1> QED
    BY <1>3, <1>5, <1>6

\* Nothing that the reader sees changes.
LEMMA ReaderKept ==
    ASSUME ReaderInv, UNCHANGED <<file, stray, complete, torn>>,
           UNCHANGED <<writing, verifying>> \/ (writing = <<>> /\ writing' = <<>>)
    PROVE  ReaderInv'
<1>k. UNCHANGED <<file, stray, complete, torn>>
    OBVIOUS
<1>0. Layout /\ Appending /\ InStep /\ Capped
    BY DEF ReaderInv
<1>1. Layout'
    BY <1>0, <1>k DEF Layout, Appends, Written
<1>2. Appending'
    BY <1>0, <1>k DEF Appending, Written
<1>3. InStep'
    BY <1>0, <1>k DEF InStep
<1>4. Capped'
    BY <1>0, <1>k DEF Capped
<1> QED
    BY <1>1, <1>2, <1>3, <1>4 DEF ReaderInv

\* A store that is removed holds nothing, of which the reader keeps nothing.
LEMMA RemovedReader ==
    ASSUME StoreInv, ReaderInv, NEW S \in SUBSET Fingers, Removed(S),
           writing = <<>>, writing' = <<>>
    PROVE  ReaderInv'
<1>1. PICK R \in SUBSET S :
        /\ file' = [f \in Fingers |-> IF f \in R THEN <<>> ELSE file[f]]
        /\ stray' = [f \in Fingers |-> IF f \in R THEN 0 ELSE stray[f]]
        /\ complete' = [f \in Fingers |-> IF f \in R THEN 0 ELSE complete[f]]
        /\ torn' = [f \in Fingers |-> IF f \in R THEN "no" ELSE torn[f]]
    <2>1. PICK R \in IF UnlinkMayFail THEN SUBSET S ELSE {S} :
            /\ file' = [f \in Fingers |-> IF f \in R THEN <<>> ELSE file[f]]
            /\ stray' = [f \in Fingers |-> IF f \in R THEN 0 ELSE stray[f]]
            /\ complete' = [f \in Fingers |-> IF f \in R THEN 0 ELSE complete[f]]
            /\ torn' = [f \in Fingers |-> IF f \in R THEN "no" ELSE torn[f]]
        BY Zenon DEF Removed
    <2>2. (IF UnlinkMayFail THEN SUBSET S ELSE {S}) \subseteq SUBSET S
        OBVIOUS
    <2>3. R \in SUBSET S
        BY <2>1, <2>2, Zenon
    <2> QED
        BY <2>1, <2>3, Zenon
<1>2. ASSUME NEW f \in Fingers
      PROVE  /\ \A n \in 0 .. complete'[f] - 1 : Whole(file'[f], n)
             /\ torn'[f] = "no" => Len(file'[f]) = complete'[f] * BlockCells
             /\ torn'[f] = "last" => Len(file'[f]) < (complete'[f] + 1) * BlockCells
             /\ stray'[f] \in 0 .. MaxStray
             /\ torn'[f] # "inside" => stray'[f] = 0
             /\ complete'[f] <= AdaptViews
             /\ torn'[f] = "last" => complete'[f] < AdaptViews
    <2>1. CASE f \in R
        <3>1. file'[f] = <<>> /\ complete'[f] = 0 /\ torn'[f] = "no"
            BY <1>1, <2>1
        <3>2. Len(<<>>) = 0 /\ 0 * BlockCells = 0 /\ 0 .. 0 - 1 = {}
            BY BlockCellsNat
        <3>5. 0 .. complete'[f] - 1 = {}
            BY <3>1
        <3>6. Len(file'[f]) = 0 /\ complete'[f] * BlockCells = 0
            BY <3>1, <3>2
        <3>7. stray'[f] = 0 /\ 0 \in 0 .. MaxStray /\ complete'[f] <= AdaptViews
            BY <1>1, <2>1, <3>1
        <3>8. torn'[f] # "last"
            BY <3>1
        <3> QED
            BY <3>5, <3>6, <3>7, <3>8
    <2>2. CASE f \notin R
        <3>1. /\ file'[f] = file[f] /\ complete'[f] = complete[f] /\ torn'[f] = torn[f]
              /\ stray'[f] = stray[f]
            BY <1>1, <2>2
        <3>2. /\ \A n \in 0 .. complete[f] - 1 : Whole(file[f], n)
              /\ torn[f] = "no" =>
                    Len(file[f]) = complete[f] * BlockCells + (IF Appends(f) THEN Written ELSE 0)
              /\ torn[f] = "last" => Len(file[f]) < (complete[f] + 1) * BlockCells
              /\ stray[f] \in 0 .. MaxStray /\ (torn[f] # "inside" => stray[f] = 0)
              /\ complete[f] <= AdaptViews
              /\ torn[f] = "last" => complete[f] < AdaptViews
            BY DEF ReaderInv, Layout, InStep, Capped
        <3>3. ~Appends(f)
            BY DEF Appends
        <3>4. complete[f] * BlockCells + 0 = complete[f] * BlockCells
            BY SizesHold DEF Sizes
        <3> QED
            BY <3>1, <3>2, <3>3, <3>4
    <2> QED
        BY <2>1, <2>2
<1>3. \A f \in Fingers : ~Appends(f)'
    BY DEF Appends
<1>4. \A f \in Fingers : torn'[f] = "no" =>
         Len(file'[f]) = complete'[f] * BlockCells + (IF Appends(f)' THEN Written' ELSE 0)
    <2> SUFFICES ASSUME NEW f \in Fingers, torn'[f] = "no"
                 PROVE  Len(file'[f]) = complete'[f] * BlockCells + 0
        BY <1>3
    <2>1. complete'[f] \in Nat
        BY <1>1, SizesHold DEF Sizes
    <2> QED
        BY <1>2, <2>1, BlockCellsNat
<1>5. Layout'
    BY <1>2, <1>3, <1>4 DEF Layout
<1>6. Appending' /\ Capped'
    BY <1>2 DEF Appending, Capped
<1>7. InStep'
    <2>1. stray' = [f \in Fingers |-> stray'[f]]
        BY <1>1
    <2> QED
        BY <1>2, <2>1 DEF InStep
<1> QED
    BY <1>5, <1>6, <1>7 DEF ReaderInv

\* The first cell of the view is the first to come, in a store below the cap.
LEMMA StartAppendReader ==
    ASSUME StoreInv, ReaderInv, StartAppend
    PROVE  ReaderInv'
<1> DEFINE f == verifying
           v == NextView(f)
<1>1. Layout /\ Appending /\ InStep /\ Capped
    BY DEF ReaderInv
<1>2. /\ writing = <<>> /\ writing' = Block(v) /\ Views(f) < AdaptViews
      /\ torn' = [torn EXCEPT ![f] = IF @ = "no" THEN "no" ELSE "inside"]
      /\ UNCHANGED <<file, stray, verifying, complete>>
    BY DEF StartAppend, Acquires
<1>3. f \in Fingers /\ v \in View
    BY ViewToAppend
<1>4. Len(writing') = 1 + BodyCells /\ writing'[1].view = v
    BY <1>2, <1>3, BlockType, BlockAt DEF Header
<1>5. Written' = 0
    BY <1>4 DEF Written
<1>6. torn \in [Fingers -> {"no", "last", "inside"}]
    BY DEF StoreInv, TypeOK
<1>7. Layout'
    <2> SUFFICES ASSUME NEW g \in Fingers
                 PROVE  /\ \A n \in 0 .. complete[g] - 1 : Whole(file[g], n)
                        /\ torn'[g] = "no" =>
                              Len(file[g]) = complete[g] * BlockCells
                                                 + (IF Appends(g)' THEN Written' ELSE 0)
                        /\ torn'[g] = "last" =>
                              /\ ~Appends(g)'
                              /\ Len(file[g]) < (complete[g] + 1) * BlockCells
        BY <1>2 DEF Layout
    <2>1. /\ \A n \in 0 .. complete[g] - 1 : Whole(file[g], n)
          /\ torn[g] = "no" => Len(file[g]) = complete[g] * BlockCells + 0
          /\ torn[g] = "last" => Len(file[g]) < (complete[g] + 1) * BlockCells
        <3>1. ~Appends(g)
            BY <1>2 DEF Appends
        <3> QED
            BY <1>1, <3>1 DEF Layout
    <2>2. torn'[g] = "no" => torn[g] = "no"
        BY <1>2, <1>3, <1>6
    <2>3. torn'[g] = "last" => torn[g] = "last" /\ g # f
        BY <1>2, <1>3, <1>6
    <2>4. g # f => ~Appends(g)'
        BY <1>2 DEF Appends
    <2>5. (IF Appends(g)' THEN Written' ELSE 0) = 0
        BY <1>5
    <2> QED
        BY <2>1, <2>2, <2>3, <2>4, <2>5
<1>8. Appending'
    <2>1. \A j \in 1 .. Len(writing') : writing'[j] = Block(v)[0 + j]
        <3>1. \A j \in 1 .. Len(writing') : 0 + j = j
            BY <1>4
        <3> QED
            BY <1>2, <3>1
    <2>2. 1 .. 0 = {}
        OBVIOUS
    <2> QED
        BY <1>4, <1>5, <2>1, <2>2 DEF Appending
<1>9. Capped'
    <2>1. /\ file[f] \in Seq(Cell) /\ complete[f] \in Nat
          /\ complete[f] * BlockCells <= Len(file[f])
        BY <1>3, SizesHold DEF Sizes
    <2>2. \A n \in 0 .. complete[f] - 1 : Whole(file[f], n)
        BY <1>1, <1>3 DEF Layout
    <2>3. 0 .. complete[f] - 1 \in SUBSET LoadFrom(file[f])
        BY <2>1, <2>2, WholeIsKept
    <2>4. /\ Cardinality(0 .. complete[f] - 1) <= Cardinality(LoadFrom(file[f]))
          /\ Cardinality(LoadFrom(file[f])) \in Nat
        BY <2>1, <2>3, LoadFinite
    <2>5. Cardinality(0 .. complete[f] - 1) = complete[f]
        BY <2>1, CountUpTo
    <2>6. stray[f] \in Nat
        BY <1>1, <1>3 DEF InStep
    <2>7. complete[f] < AdaptViews
        BY <1>2, <2>1, <2>4, <2>5, <2>6, CellAssumption DEF Views, Loaded
    <2>8. \A g \in Fingers : torn'[g] = "last" => torn[g] = "last"
        BY <1>2, <1>3, <1>6
    <2> QED
        BY <1>1, <1>2, <2>7, <2>8 DEF Capped
<1>10. InStep'
    <2>1. \A g \in Fingers : torn'[g] # "inside" => torn[g] # "inside"
        BY <1>2, <1>3, <1>6
    <2> QED
        BY <1>1, <1>2, <2>1 DEF InStep
<1> QED
    BY <1>7, <1>8, <1>9, <1>10 DEF ReaderInv

\* What is still to write, cell by cell, and how much is written.
LEMMA BlockUnderWay ==
    ASSUME StoreInv, ReaderInv, writing # <<>>
    PROVE  /\ verifying \in Fingers /\ verifying # None
           /\ Len(writing) \in Nat /\ Len(writing) >= 1
           /\ Written \in Nat /\ Written + Len(writing) = BlockCells
           /\ writing[1].view \in View
           /\ \A j \in 1 .. Len(writing) : writing[j] = Block(writing[1].view)[Written + j]
           /\ Appends(verifying)
           /\ torn[verifying] = "no" =>
                 /\ Len(file[verifying]) = complete[verifying] * BlockCells + Written
                 /\ \A j \in 1 .. Written :
                       file[verifying][complete[verifying] * BlockCells + j]
                           = Block(writing[1].view)[j]
           /\ torn[verifying] # "last"
           /\ complete[verifying] < AdaptViews
<1>1. TypeOK /\ CellsOK /\ Counts
    BY DEF StoreInv
<1>2. Layout /\ Appending /\ InStep /\ Capped
    BY DEF ReaderInv
<1>3. verifying \in Fingers /\ verifying # None /\ Appends(verifying)
    BY <1>1 DEF TypeOK, Appends
<1>4. Head(writing) \in Cell /\ Head(writing) = writing[1] /\ Len(writing) > 0
    BY <1>1, CellToWrite
<1>5. writing[1].view \in View
    BY <1>4 DEF Cell
<1>6. Len(writing) \in Nat /\ Len(writing) <= 1 + BodyCells
    BY <1>1 DEF CellsOK, Counts
<1>7. Written \in Nat /\ Written + Len(writing) = BlockCells
    BY <1>6 DEF Written, BlockCells
<1>8. \A j \in 1 .. Len(writing) : writing[j] = Block(writing[1].view)[Written + j]
    BY <1>2 DEF Appending
<1>9. torn[verifying] = "no" =>
         /\ Len(file[verifying]) = complete[verifying] * BlockCells + Written
         /\ \A j \in 1 .. Written :
               file[verifying][complete[verifying] * BlockCells + j] = Block(writing[1].view)[j]
    BY <1>2, <1>3 DEF Layout, Appending
<1>10. torn[verifying] # "last"
    BY <1>2, <1>3 DEF Layout
<1>11. complete[verifying] < AdaptViews
    BY <1>2 DEF Capped
<1> QED
    BY <1>3, <1>4, <1>5, <1>6, <1>7, <1>8, <1>9, <1>10, <1>11

\* One more cell of the file of f: what was held in full stays as it was.
LEMMA GrowsByOne ==
    ASSUME StoreInv, NEW f \in Fingers, NEW c \in Cell,
           file' = [file EXCEPT ![f] = Append(@, c)]
    PROVE  /\ file'[f] \in Seq(Cell) /\ Len(file'[f]) = Len(file[f]) + 1
           /\ file'[f][Len(file[f]) + 1] = c
           /\ \A i \in 1 .. Len(file[f]) : file'[f][i] = file[f][i]
           /\ \A g \in Fingers : g # f => file'[g] = file[g]
           /\ \A g \in Fingers : \A n \in 0 .. complete[g] - 1 :
                 Whole(file'[g], n) <=> Whole(file[g], n)
<1>1. c.view \in View
    BY DEF Cell
<1>2. /\ file' \in [Fingers -> Seq(Cell)] /\ Len(file'[f]) = Len(file[f]) + 1
      /\ file'[f][Len(file[f]) + 1] = c
      /\ \A i \in 1 .. Len(file[f]) : file'[f][i] = file[f][i]
      /\ \A g \in Fingers : g # f => file'[g] = file[g]
    BY <1>1, OneFileGrows DEF StoreInv
<1>3. Sizes
    BY SizesHold
<1>4. /\ file[f] \in Seq(Cell) /\ file'[f] \in Seq(Cell) /\ Len(file[f]) \in Nat
      /\ Len(file[f]) <= Len(file'[f])
    BY <1>2, <1>3 DEF Sizes
<1>5. ASSUME NEW n \in Nat, (n + 1) * BlockCells <= Len(file[f])
      PROVE  Whole(file'[f], n) <=> Whole(file[f], n)
    BY <1>2, <1>4, <1>5, Extends
<1>6. ASSUME NEW g \in Fingers, NEW n \in 0 .. complete[g] - 1
      PROVE  Whole(file'[g], n) <=> Whole(file[g], n)
    <2>1. CASE g # f
        BY <1>2, <2>1
    <2>2. CASE g = f
        <3>1. n \in Nat /\ (n + 1) * BlockCells <= Len(file[f])
            BY <1>3, <2>2, CompletePlaces
        <3> QED
            BY <1>5, <2>2, <3>1
    <2> QED
        BY <2>1, <2>2
<1> QED
    BY <1>2, <1>4, <1>6

LEMMA AppendCellReader ==
    ASSUME StoreInv, ReaderInv, AppendCell
    PROVE  ReaderInv'
<1> DEFINE f == verifying
           v == writing[1].view
           b == complete[f] * BlockCells
<1>1. Layout /\ Appending /\ InStep /\ Capped
    BY DEF ReaderInv
<1>2. /\ writing # <<>> /\ Extend(f, Head(writing))
      /\ file' = [file EXCEPT ![f] = Append(@, Head(writing))]
      /\ writing' = Tail(writing) /\ torn' = torn
    BY DEF AppendCell, WriteCell, Extend
<1>3. \/ /\ Len(writing) = 1 /\ verifying' = None
         /\ complete' = [complete EXCEPT ![f] = IF torn[f] = "no" THEN @ + 1 ELSE @]
      \/ Len(writing) # 1 /\ UNCHANGED <<verifying, complete>>
    BY DEF AppendCell
<1>4. /\ f \in Fingers /\ f # None /\ Len(writing) \in Nat /\ Len(writing) >= 1
      /\ Written \in Nat /\ Written + Len(writing) = BlockCells
      /\ v \in View /\ Appends(f)
      /\ \A j \in 1 .. Len(writing) : writing[j] = Block(v)[Written + j]
      /\ torn[f] = "no" =>
            /\ Len(file[f]) = b + Written
            /\ \A j \in 1 .. Written : file[f][b + j] = Block(v)[j]
      /\ torn[f] # "last" /\ complete[f] < AdaptViews
    BY <1>2, BlockUnderWay
<1>5. /\ Head(writing) \in Cell /\ Head(writing) = writing[1]
      /\ Tail(writing) \in Seq(Cell) /\ Len(Tail(writing)) = Len(writing) - 1
      /\ \A i \in 1 .. Len(Tail(writing)) : Tail(writing)[i] = writing[i + 1]
      /\ Len(writing) = 1 <=> Tail(writing) = <<>>
    BY <1>2, CellToWrite DEF StoreInv
<1>6. /\ file'[f] \in Seq(Cell) /\ Len(file'[f]) = Len(file[f]) + 1
      /\ file'[f][Len(file[f]) + 1] = Head(writing)
      /\ \A i \in 1 .. Len(file[f]) : file'[f][i] = file[f][i]
      /\ \A g \in Fingers : g # f => file'[g] = file[g]
      /\ \A g \in Fingers : \A n \in 0 .. complete[g] - 1 :
            Whole(file'[g], n) <=> Whole(file[g], n)
    BY <1>2, <1>4, <1>5, GrowsByOne
<1>7. /\ \A g \in Fingers : Len(file[g]) \in Nat /\ complete[g] \in Nat
      /\ b \in Nat /\ (complete[f] + 1) * BlockCells = b + BlockCells
    BY <1>4, SizesHold DEF Sizes
<1>8. /\ writing' # <<>> => verifying' = f /\ complete' = complete
      /\ verifying' \in {f, None}
      /\ Written' = Written + 1
    <2>1. Written' = 1 + BodyCells - (Len(writing) - 1)
        BY <1>2, <1>5 DEF Written
    <2>2. Written' = Written + 1
        BY <1>4, <2>1 DEF Written
    <2>3. writing' # <<>> => Len(writing) # 1
        BY <1>2, <1>5
    <2> QED
        BY <1>3, <2>2, <2>3
<1> HIDE DEF b
<1>a. /\ Len(file'[f]) = Len(file[f]) + 1 /\ Len(file[f]) \in Nat
      /\ b \in Nat /\ (complete[f] + 1) * BlockCells = b + BlockCells
      /\ Written \in Nat /\ Written' = Written + 1 /\ BlockCells \in Nat
      /\ Len(writing) \in Nat /\ Len(writing) >= 1 /\ Written + Len(writing) = BlockCells
      /\ torn[f] = "no" => Len(file[f]) = b + Written
    BY <1>4, <1>6, <1>7, <1>8, BlockCellsNat
<1>9. complete \in [Fingers -> 0 .. MaxViews]
    BY DEF StoreInv, TypeOK
\* What is written of the view is the beginning of its block.
<1>10. ASSUME torn[f] = "no", NEW j \in 1 .. Written + 1
       PROVE  file'[f][b + j] = Block(v)[j]
    <2>1. CASE j \in 1 .. Written
        <3>1. b + j \in 1 .. Len(file[f])
            BY <1>a, <1>10, <2>1
        <3>2. file'[f][b + j] = file[f][b + j]
            BY <1>4, <1>6, <3>1
        <3> QED
            BY <1>4, <1>6, <1>10, <2>1, <3>2
    <2>2. CASE j = Written + 1
        <3>1. b + j = Len(file[f]) + 1
            BY <1>10, <1>a, <2>2
        <3>2. 1 \in 1 .. Len(writing)
            BY <1>4
        <3>3. writing[1] = Block(v)[j]
            BY <1>4, <2>2, <3>2
        <3> QED
            BY <1>5, <1>6, <3>1, <3>3
    <2> QED
        BY <1>4, <2>1, <2>2
\* With its last cell the view is whole.
<1>11. ASSUME torn[f] = "no", Len(writing) = 1
       PROVE  Whole(file'[f], complete[f])
    <2>1. Len(file'[f]) = (complete[f] + 1) * BlockCells /\ Written + 1 = BlockCells
        BY <1>11, <1>a
    <2>2. file'[f][b + 1].kind = "header"
        <3>1. 1 \in 1 .. Written + 1
            BY <1>4
        <3>2. file'[f][b + 1] = Block(v)[1]
            BY <1>10, <1>11, <3>1
        <3>3. Block(v)[1] = Header(v)
            BY <1>4, BlockAt
        <3> QED
            BY <3>2, <3>3 DEF Header
    <2>3. ASSUME NEW i \in 1 .. BodyCells PROVE file'[f][b + 1 + i] = Body(v, i)
        <3>1. 1 + i \in 1 .. Written + 1 /\ b + (1 + i) = b + 1 + i
            BY <1>7, <2>1, BlockCellsNat
        <3>2. file'[f][b + (1 + i)] = Block(v)[1 + i]
            BY <1>10, <1>11, <3>1
        <3> QED
            BY <1>4, <3>1, <3>2, BlockAt
    <2>4. file'[f][b + 2].view = v
        <3>1. 1 \in 1 .. BodyCells /\ b + 1 + 1 = b + 2
            BY <1>7, BlockCellsNat
        <3>2. file'[f][b + 2] = Body(v, 1)
            BY <2>3, <3>1
        <3> QED
            BY <3>2 DEF Body
    <2>5. (complete[f] + 1) * BlockCells <= Len(file'[f])
        BY <1>6, <1>7, <2>1
    <2>6. complete[f] \in Nat
        BY <1>4, <1>7
    <2>7. Whole(file'[f], complete[f]) <=>
             /\ file'[f][b + 1].kind = "header"
             /\ \A i \in 1 .. BodyCells : file'[f][b + 1 + i] = Body(file'[f][b + 2].view, i)
        BY <1>6, <2>5, <2>6, WholeCells DEF b
    <2> QED
        BY <2>2, <2>3, <2>4, <2>7
<1>12. ASSUME NEW g \in Fingers
       PROVE  /\ \A n \in 0 .. complete'[g] - 1 : Whole(file'[g], n)
              /\ torn'[g] = "no" =>
                    Len(file'[g]) = complete'[g] * BlockCells
                                        + (IF Appends(g)' THEN Written' ELSE 0)
              /\ torn'[g] = "last" =>
                    ~Appends(g)' /\ Len(file'[g]) < (complete'[g] + 1) * BlockCells
    <2>1. /\ \A n \in 0 .. complete[g] - 1 : Whole(file'[g], n)
          /\ torn[g] = "no" =>
                Len(file[g]) = complete[g] * BlockCells + (IF Appends(g) THEN Written ELSE 0)
          /\ torn[g] = "last" =>
                ~Appends(g) /\ Len(file[g]) < (complete[g] + 1) * BlockCells
        BY <1>1, <1>6 DEF Layout
    <2>2. CASE g # f
        <3>1. file'[g] = file[g] /\ complete'[g] = complete[g] /\ torn'[g] = torn[g]
            BY <1>2, <1>3, <1>6, <1>9, <2>2
        <3>2. ~Appends(g) /\ ~Appends(g)'
            BY <1>8, <1>2, <2>2, FingersAssumption DEF Appends
        <3> QED
            BY <2>1, <3>1, <3>2
    <2>3. CASE g = f /\ Len(writing) # 1
        <3>1. complete' = complete /\ torn' = torn /\ verifying' = f /\ writing' # <<>>
            BY <1>2, <1>3, <1>5, <2>3
        <3>2. Appends(g)'
            BY <2>3, <3>1 DEF Appends
        <3>3. torn[f] = "no" => Len(file'[f]) = b + Written'
            BY <1>a
        <3> QED
            BY <1>4, <2>1, <2>3, <3>1, <3>2, <3>3 DEF b
    <2>4. CASE g = f /\ Len(writing) = 1 /\ torn[f] = "no"
        <3>1. /\ complete'[f] = complete[f] + 1 /\ torn'[f] = "no"
              /\ writing' = <<>> /\ Written + 1 = BlockCells
            BY <1>2, <1>3, <1>4, <1>5, <1>9, <2>4
        <3>2. ~Appends(g)'
            BY <3>1 DEF Appends
        <3>3. Len(file'[f]) = b + BlockCells /\ b + BlockCells = b + BlockCells + 0
            BY <1>a, <2>4, <3>1
        <3>4. Len(file'[f]) = complete'[f] * BlockCells + 0
            <4>1. complete'[f] * BlockCells = b + BlockCells
                BY <1>7, <3>1
            <4> QED
                BY <3>3, <4>1
        <3>5. \A n \in 0 .. complete'[f] - 1 : n \in 0 .. complete[f] - 1 \/ n = complete[f]
            BY <1>4, <1>7, <3>1
        <3>6. \A n \in 0 .. complete'[f] - 1 : Whole(file'[f], n)
            BY <1>11, <2>1, <2>4, <3>5
        <3> QED
            BY <2>4, <3>1, <3>2, <3>4, <3>6
    <2>5. CASE g = f /\ Len(writing) = 1 /\ torn[f] # "no"
        <3>1. complete'[f] = complete[f] /\ torn'[f] = torn[f]
            BY <1>2, <1>3, <1>4, <1>9, <2>5
        <3> QED
            BY <1>4, <2>1, <2>5, <3>1
    <2> QED
        BY <2>2, <2>3, <2>4, <2>5
<1>13. Layout'
    BY <1>12 DEF Layout
<1>14. Appending'
    <2> SUFFICES ASSUME writing' # <<>>
                 PROVE  /\ writing'[1].view = v
                        /\ \A j \in 1 .. Len(writing') : writing'[j] = Block(v)[Written' + j]
                        /\ torn'[f] = "no" =>
                              \A j \in 1 .. Written' : file'[f][complete'[f] * BlockCells + j]
                                                           = Block(v)[j]
        BY <1>8 DEF Appending
    <2>1. Len(writing') = Len(writing) - 1 /\ Len(writing') >= 1
        BY <1>2, <1>4, <1>5
    <2>2. ASSUME NEW j \in 1 .. Len(writing')
          PROVE  /\ writing'[j] = Block(v)[Written' + j]
                 /\ Written' + j \in 1 .. Len(Block(v))
        <3>1. writing'[j] = writing[j + 1]
            BY <1>2, <1>5
        <3>2. j + 1 \in 1 .. Len(writing) /\ Written + (j + 1) = Written' + j
            BY <1>4, <1>8, <2>1
        <3>3. Len(Block(v)) = BlockCells
            BY <1>4, BlockType, BlockCellsNat
        <3>4. Written' + j \in 1 .. BlockCells
            BY <1>4, <1>8, <2>1
        <3> QED
            BY <1>4, <3>1, <3>2, <3>3, <3>4
    <2>3. writing'[1].view = v
        <3>1. 1 \in 1 .. Len(writing')
            BY <1>4, <2>1
        <3>2. writing'[1] = Block(v)[Written' + 1] /\ Written' + 1 \in 1 .. Len(Block(v))
            BY <2>2, <3>1
        <3> QED
            BY <1>4, <3>2, BlockType
    <2>4. torn'[f] = "no" =>
             \A j \in 1 .. Written' : file'[f][complete'[f] * BlockCells + j] = Block(v)[j]
        <3>1. complete'[f] * BlockCells = b
            BY <1>8 DEF b
        <3> QED
            BY <1>2, <1>8, <1>10, <3>1
    <2> QED
        BY <2>2, <2>3, <2>4
<1>15. Capped'
    <2>1. AdaptViews \in Nat /\ complete[f] \in Nat
        BY <1>7, <1>4
    <2>2. \A g \in Fingers : g # f => complete'[g] = complete[g]
        BY <1>3, <1>4, <1>9
    <2>3. complete'[f] \in {complete[f], complete[f] + 1}
        BY <1>3, <1>4, <1>9
    <2>4. \A g \in Fingers : complete'[g] <= AdaptViews
        BY <1>1, <1>4, <2>1, <2>2, <2>3 DEF Capped
    <2>5. \A g \in Fingers : torn'[g] = "last" => complete'[g] < AdaptViews
        BY <1>1, <1>2, <1>4, <2>2 DEF Capped
    <2>6. writing' # <<>> => complete'[verifying'] < AdaptViews
        BY <1>4, <1>8
    <2> QED
        BY <2>4, <2>5, <2>6 DEF Capped
\* A view written behind whole ones is read in step.
<1>16. InStep'
    <2>1. /\ stray' \in [Fingers -> 0 .. MaxStray]
          /\ \A g \in Fingers : g # f => stray'[g] = stray[g]
          /\ ~OutOfStep(file'[f]) => stray'[f] = stray[f]
        BY <1>1, <1>2, <1>4, StrayViews
    <2>2. ASSUME torn[f] = "no" PROVE ~OutOfStep(file'[f])
        <3>1. complete[f] \in Nat /\ Len(file'[f]) <= (complete[f] + 1) * BlockCells
            BY <1>a, <1>7, <1>4, <2>2
        <3>2. \A n \in 0 .. complete[f] - 1 : Whole(file'[f], n)
            BY <1>1, <1>4, <1>6 DEF Layout
        <3>3. file'[f][b + 1].kind = "header"
            <4>1. 1 \in 1 .. Written + 1
                BY <1>4
            <4>2. file'[f][b + 1] = Block(v)[1]
                BY <1>10, <2>2, <4>1
            <4>3. Block(v)[1] = Header(v)
                BY <1>4, BlockAt
            <4> QED
                BY <4>2, <4>3 DEF Header
        <3>4. file'[f][complete[f] * BlockCells + 1].kind = "header"
            BY <3>3 DEF b
        <3> QED
            BY <1>6, <3>1, <3>2, <3>4, StaysInStep
    <2>3. torn[f] \in {"no", "last", "inside"}
        BY <1>4 DEF StoreInv, TypeOK
    <2>4. \A g \in Fingers : torn'[g] # "inside" => stray'[g] = 0
        BY <1>1, <1>2, <1>4, <2>1, <2>2, <2>3 DEF InStep
    <2> QED
        BY <2>1, <2>4 DEF InStep
<1> QED
    BY <1>13, <1>14, <1>15, <1>16 DEF ReaderInv

\* A write cut short leaves less than a block after what was there, and nothing of
\* it before the header is written.
LEMMA CutShortReader ==
    ASSUME StoreInv, ReaderInv, CutShort, writing' = <<>>, complete' = complete
    PROVE  ReaderInv'
<1> DEFINE f == verifying
           b == complete[f] * BlockCells
<1>1. Layout /\ Appending /\ InStep /\ Capped
    BY DEF ReaderInv
<1>2. CASE writing = <<>>
    <2>1. UNCHANGED <<file, stray, torn>>
        BY <1>2 DEF CutShort
    <2> QED
        BY <1>2, <2>1, ReaderKept
<1>3. CASE writing # <<>>
    <2>1. /\ f \in Fingers /\ f # None /\ Len(writing) \in Nat /\ Len(writing) >= 1
          /\ Written \in Nat /\ Written + Len(writing) = BlockCells
          /\ writing[1].view \in View
          /\ \A j \in 1 .. Len(writing) :
                writing[j] = Block(writing[1].view)[Written + j]
          /\ torn[f] = "no" => Len(file[f]) = b + Written
          /\ torn[f] # "last" /\ complete[f] < AdaptViews
        BY <1>3, BlockUnderWay
    <2>2. Head(writing) \in Cell /\ Head(writing) = writing[1]
        BY <1>3, CellToWrite DEF StoreInv
    <2>3. /\ file[f] \in Seq(Cell) /\ Len(file[f]) \in Nat /\ b \in Nat
          /\ (complete[f] + 1) * BlockCells = b + BlockCells
        BY <2>1, SizesHold DEF Sizes
    <2> HIDE DEF b
    <2>4. Head(writing).kind = "header" => Written = 0
        <3>1. 1 \in 1 .. Len(writing) /\ Written + 1 \in 1 .. BlockCells
            BY <2>1
        <3>2. Head(writing) = Block(writing[1].view)[Written + 1]
            BY <2>1, <2>2, <3>1
        <3>3. \A j \in 1 .. BlockCells :
                 Block(writing[1].view)[j].kind = "header" => j = 1
            BY <2>1, BlockAt
        <3>4. Head(writing).kind = "header" => Written + 1 = 1
            BY <3>1, <3>2, <3>3
        <3> QED
            BY <2>1, <3>4
    <2>5. torn \in [Fingers -> {"no", "last", "inside"}]
        BY DEF StoreInv, TypeOK
    <2>6. \A g \in Fingers : ~Appends(g)'
        BY DEF Appends
    \* The other files, and what is whole, are as they were.
    <2>7. ASSUME /\ \A g \in Fingers : g # f => file'[g] = file[g] /\ torn'[g] = torn[g]
                 /\ \A g \in Fingers : \A n \in 0 .. complete[g] - 1 : Whole(file'[g], n)
                 /\ torn'[f] = "no" => Len(file'[f]) = b
                 /\ torn'[f] = "last" => Len(file'[f]) < b + BlockCells
                 /\ stray' \in [Fingers -> 0 .. MaxStray]
                 /\ \A g \in Fingers : g # f => stray'[g] = stray[g]
                 /\ torn'[f] # "inside" => stray'[f] = 0
          PROVE  ReaderInv'
        <3>1. ASSUME NEW g \in Fingers
              PROVE  /\ \A n \in 0 .. complete'[g] - 1 : Whole(file'[g], n)
                     /\ torn'[g] = "no" => Len(file'[g]) = complete'[g] * BlockCells + 0
                     /\ torn'[g] = "last" => Len(file'[g]) < (complete'[g] + 1) * BlockCells
                     /\ torn'[g] # "inside" => stray'[g] = 0
                     /\ torn'[g] = "last" => complete'[g] < AdaptViews
            <4>1. CASE g = f
                <5>1. b = complete'[f] * BlockCells /\ b + 0 = b
                    BY <2>3 DEF b
                <5> QED
                    BY <2>1, <2>3, <2>7, <4>1, <5>1
            <4>2. CASE g # f
                <5>1. ~Appends(g)
                    BY <4>2 DEF Appends
                <5>2. /\ torn[g] # "inside" => stray[g] = 0
                      /\ torn[g] = "last" => complete[g] < AdaptViews
                    BY <1>1 DEF InStep, Capped
                <5> QED
                    BY <1>1, <2>7, <4>2, <5>1, <5>2 DEF Layout
            <4> QED
                BY <4>1, <4>2
        <3>2. Layout'
            BY <2>6, <3>1 DEF Layout
        <3>3. Appending' /\ Capped'
            BY <1>1, <3>1 DEF Appending, Capped
        <3>4. InStep'
            BY <2>7, <3>1 DEF InStep
        <3> QED
            BY <3>2, <3>3, <3>4 DEF ReaderInv
    <2>8. \A g \in Fingers : \A n \in 0 .. complete[g] - 1 : Whole(file[g], n)
        BY <1>1 DEF Layout
    <2>9. /\ stray \in [Fingers -> 0 .. MaxStray]
          /\ torn[f] # "inside" => stray[f] = 0
        BY <1>1, <2>1 DEF InStep
    <2>10. CASE Head(writing).kind = "header" /\ UNCHANGED <<file, stray, torn>>
        <3>1. torn[f] = "no" => Len(file[f]) = b
            BY <2>1, <2>3, <2>4, <2>10
        <3> QED
            BY <2>1, <2>7, <2>8, <2>9, <2>10, <3>1
    <2>11. CASE /\ torn' = [torn EXCEPT ![f] = IF @ = "no" THEN "last" ELSE @]
                /\ Head(writing).kind # "header" /\ UNCHANGED <<file, stray>>
        <3>1. /\ torn'[f] # "no" /\ (torn'[f] = "last" => torn[f] = "no")
              /\ torn'[f] # "inside" => torn[f] # "inside"
            BY <2>1, <2>5, <2>11
        <3>2. torn'[f] = "last" => Len(file[f]) < b + BlockCells
            BY <2>1, <2>3, <3>1
        <3>3. \A g \in Fingers : g # f => torn'[g] = torn[g]
            BY <2>5, <2>11
        <3> QED
            BY <2>7, <2>8, <2>9, <2>11, <3>1, <3>2, <3>3
    <2>12. CASE /\ torn' = [torn EXCEPT ![f] = IF @ = "no" THEN "last" ELSE @]
                /\ Head(writing).kind = "header"
                /\ Extend(f, Part(Head(writing).view))
        <3>0. /\ file' = [file EXCEPT ![f] = Append(@, Part(Head(writing).view))]
              /\ stray' \in [Fingers -> 0 .. MaxStray]
              /\ \A g \in Fingers : g # f => stray'[g] = stray[g]
              /\ ~OutOfStep(file'[f]) => stray'[f] = stray[f]
            BY <1>1, <2>1, <2>12, StrayViews
        <3>1. Part(Head(writing).view) \in Cell
            BY <2>1, <2>2, PartType
        <3>2. /\ file'[f] \in Seq(Cell) /\ Len(file'[f]) = Len(file[f]) + 1
              /\ \A g \in Fingers : g # f => file'[g] = file[g]
              /\ \A g \in Fingers : \A n \in 0 .. complete[g] - 1 :
                    Whole(file'[g], n) <=> Whole(file[g], n)
              /\ file'[f][Len(file[f]) + 1] = Part(Head(writing).view)
            BY <2>1, <3>0, <3>1, GrowsByOne
        <3>3. /\ torn'[f] # "no" /\ (torn'[f] = "last" => torn[f] = "no")
              /\ torn'[f] # "inside" => torn[f] = "no"
            BY <2>1, <2>5, <2>12
        <3>4. Written = 0 /\ Len(file'[f]) = Len(file[f]) + 1
            BY <2>4, <2>12, <3>2
        <3>5. torn'[f] = "last" => Len(file'[f]) < b + BlockCells
            BY <2>1, <2>3, <3>3, <3>4, BlockCellsNat
        <3>6. \A g \in Fingers : g # f => torn'[g] = torn[g]
            BY <2>5, <2>12
        <3>7. torn[f] = "no" => ~OutOfStep(file'[f])
            <4> SUFFICES ASSUME torn[f] = "no" PROVE ~OutOfStep(file'[f])
                OBVIOUS
            <4>1. Len(file[f]) = b /\ Len(file'[f]) = b + 1
                BY <2>1, <2>3, <3>2, <3>4
            <4>2. file'[f][b + 1].kind = "part" /\ Len(file'[f]) <= (complete[f] + 1) * BlockCells
                BY <2>3, <3>2, <4>1, BlockCellsNat DEF Part
            <4>3. complete[f] \in Nat
                BY <2>1, SizesHold DEF Sizes
            <4>4. \A n \in 0 .. complete[f] - 1 : Whole(file'[f], n)
                BY <2>1, <2>8, <3>2
            <4> QED
                BY <3>2, <4>1, <4>2, <4>3, <4>4, StaysInStep DEF b
        <3>8. torn'[f] # "inside" => stray'[f] = 0
            BY <2>9, <3>0, <3>3, <3>7
        <3> QED
            BY <2>7, <2>8, <3>0, <3>2, <3>3, <3>5, <3>6, <3>8
    <2> QED
        BY <1>3, <2>10, <2>11, <2>12 DEF CutShort
<1> QED
    BY <1>2, <1>3

LEMMA InitReader == Init => ReaderInv
<1> SUFFICES ASSUME Init PROVE ReaderInv
    OBVIOUS
<1>1. StoreInv
    BY InitStoreInv
<1>2. /\ writing = <<>>
      /\ \A f \in Fingers : file[f] = <<>> /\ complete[f] = 0 /\ torn[f] = "no"
    BY DEF Init
<1>4. Layout
    <2>1. 0 .. 0 - 1 = {} /\ 0 * BlockCells = 0 /\ Len(<<>>) = 0
        BY BlockCellsNat
    <2>2. \A f \in Fingers : ~Appends(f)
        BY <1>2 DEF Appends
    <2> QED
        BY <1>2, <2>1, <2>2 DEF Layout
<1>5. Appending /\ Capped
    BY <1>2 DEF Appending, Capped
<1>6. InStep
    BY DEF Init, InStep
<1> QED
    BY <1>4, <1>5, <1>6 DEF ReaderInv

LEMMA NextReader ==
    ASSUME StoreInv, ReaderInv, [Next]_vars
    PROVE  ReaderInv'
<1>1. CASE \E f \in Fingers : EnrollDone(f)
    <2>1. PICK f \in Fingers : EnrollDone(f)
        BY <1>1
    <2>2. writing = <<>> /\ writing' = <<>> /\ Removed({f}) /\ {f} \in SUBSET Fingers
        BY <2>1, NotWriting DEF EnrollDone, Idle
    <2> QED
        BY <2>2, RemovedReader
<1>2. CASE Open
    <2>1. verifying = None
        BY <1>2 DEF StoreInv, Phases, Open
    <2>2. /\ writing = <<>> /\ writing' = <<>> /\ Removed(Orphans)
          /\ Orphans \in SUBSET Fingers
        BY <1>2, <2>1, NotWriting DEF Open, Orphans
    <2> QED
        BY <2>2, RemovedReader
<1>3. CASE \/ Close \/ FprintdSaves \/ VerifyDone \/ UNCHANGED vars
           \/ \E f \in Fingers : FprintdDeletes(f) \/ Verify(f)
    <2>1. UNCHANGED <<file, stray, complete, torn, writing>>
        BY <1>3 DEF Close, FprintdSaves, VerifyDone, FprintdDeletes, Verify, storeVars,
                    histVars, vars
    <2>2. UNCHANGED verifying \/ writing = <<>>
        BY <1>3, NotWriting DEF Close, FprintdSaves, VerifyDone, FprintdDeletes, Verify,
                                Idle, vars
    <2> QED
        BY <2>1, <2>2, ReaderKept
<1>4. CASE ShortWrite \/ Crash
    BY <1>4, CutShortReader DEF ShortWrite, Crash
<1> QED
    BY <1>1, <1>2, <1>3, <1>4, StartAppendReader, AppendCellReader DEF Next

\* The inductive invariant.
THEOREM Invariance == Spec => []IInv
<1>1. Init => IInv
    BY InitStoreInv, InitReader DEF IInv
<1>2. IInv /\ [Next]_vars => IInv'
    BY NextStoreInv, NextReader DEF IInv
<1> QED
    BY <1>1, <1>2, PTL DEF Spec

\* Every variable has its type, only an open device appends, and the views that
\* count as complete are on disk, whatever is cut short or swept meanwhile.
THEOREM TypeCorrect == Spec => []TypeOK
<1>1. IInv => TypeOK
    BY DEF IInv, StoreInv
<1> QED
    BY <1>1, Invariance, PTL

\* "Acquired views must not outlive the template that authorised them": with a
\* file system that removes what it is told to, every view on disk was acquired
\* under the template it will be scored for (gx_adapt_clear, gx_adapt_sweep).
THEOREM ViewsAuthorised ==
    ASSUME ~UnlinkMayFail
    PROVE  Spec => []StoreAuthorised
<1>1. IInv => StoreAuthorised
    BY DEF IInv, StoreInv, Authority
<1> QED
    BY <1>1, Invariance, PTL

\* A template deleted behind the driver's back leaves nothing on disk past the
\* next open, on such a file system (gx_adapt_sweep).
THEOREM SweptAtOpen ==
    ASSUME ~UnlinkMayFail
    PROVE  Spec => []DeletedIsSwept
<1>1. IInv => DeletedIsSwept
    BY DEF IInv, StoreInv, Authority, DeletedIsSwept
<1> QED
    BY <1>1, Invariance, PTL

\* What the histories say was written to the end is what the reader finds.
LEMMA ReadsWhatWasWritten == IInv => EarlierViewsSurvive
<1> SUFFICES ASSUME IInv, NEW f \in Fingers
             PROVE  /\ 0 .. complete[f] - 1 \subseteq LoadFrom(file[f])
                    /\ torn[f] # "inside" =>
                          LoadFrom(file[f]) = 0 .. complete[f] - 1 /\ stray[f] = 0
                    /\ \A n \in 0 .. complete[f] - 1 : IsIntact(Blob(file[f], n))
    BY DEF EarlierViewsSurvive, Loaded
<1>1. StoreInv /\ ReaderInv
    BY DEF IInv
<1>2. /\ file[f] \in Seq(Cell) /\ Len(file[f]) \in Nat
      /\ complete[f] \in Nat /\ complete[f] * BlockCells \in Nat
      /\ complete[f] * BlockCells <= Len(file[f])
      /\ (complete[f] + 1) * BlockCells = complete[f] * BlockCells + BlockCells
    BY <1>1, SizesHold DEF Sizes
<1>3. /\ \A n \in 0 .. complete[f] - 1 : Whole(file[f], n)
      /\ torn[f] = "no" =>
            Len(file[f]) = complete[f] * BlockCells + (IF Appends(f) THEN Written ELSE 0)
      /\ torn[f] = "last" => Len(file[f]) < (complete[f] + 1) * BlockCells
    BY <1>1 DEF ReaderInv, Layout
<1>4. /\ 0 .. complete[f] - 1 \subseteq LoadFrom(file[f])
      /\ Len(file[f]) < (complete[f] + 1) * BlockCells =>
            LoadFrom(file[f]) = 0 .. complete[f] - 1
    BY <1>2, <1>3, WholeIsKept
<1>5. Appends(f) => Written \in Nat /\ Written < BlockCells
    BY <1>1, BlockUnderWay DEF Appends
<1>6. torn[f] = "no" => Len(file[f]) < (complete[f] + 1) * BlockCells
    <2>1. CASE Appends(f)
        BY <1>2, <1>3, <1>5, <2>1, BlockCellsNat
    <2>2. CASE ~Appends(f)
        BY <1>2, <1>3, <2>2, BlockCellsNat
    <2> QED
        BY <2>1, <2>2
<1>7. torn[f] \in {"no", "last", "inside"}
    BY <1>1 DEF StoreInv, TypeOK
<1>8. torn[f] # "inside" => LoadFrom(file[f]) = 0 .. complete[f] - 1
    BY <1>3, <1>4, <1>6, <1>7
<1>9. \A n \in 0 .. complete[f] - 1 : IsIntact(Blob(file[f], n))
    BY <1>3 DEF Whole
<1>10. torn[f] # "inside" => stray[f] = 0
    BY <1>1 DEF ReaderInv, InStep
<1> QED
    BY <1>4, <1>8, <1>9, <1>10

\* The views written to the end stay readable and intact, whatever is cut short
\* and whatever is appended after that; and until something is, the reader skips
\* what was cut short (gx_adapt_append, gx_adapt_load).
THEOREM CompleteViewsSurvive == Spec => []EarlierViewsSurvive
BY Invariance, ReadsWhatWasWritten, PTL

\* Until something is appended behind a view cut short, the cap bounds the views
\* that a verification scores against and what the store takes on disk, whatever
\* crashes (gx_adapt_load, and the count that gx_verify_done takes before it
\* acquires).
THEOREM CapHolds == Spec => []CapHeld
<1>1. IInv => CapHeld
    <2> SUFFICES ASSUME IInv, NEW f \in Fingers, torn[f] # "inside"
                 PROVE  Views(f) <= AdaptViews /\ Len(file[f]) <= AdaptViews * BlockCells
        BY DEF CapHeld
    <2>1. StoreInv /\ ReaderInv
        BY DEF IInv
    <2>2. /\ Len(file[f]) \in Nat /\ complete[f] \in Nat /\ complete[f] * BlockCells \in Nat
          /\ (complete[f] + 1) * BlockCells = complete[f] * BlockCells + BlockCells
        BY <2>1, SizesHold DEF Sizes
    <2>3. /\ complete[f] <= AdaptViews /\ AdaptViews \in Nat
          /\ torn[f] = "last" => complete[f] < AdaptViews
          /\ Appends(f) => complete[f] < AdaptViews
        BY <2>1 DEF ReaderInv, Capped, Appends
    <2>4. Loaded(f) = 0 .. complete[f] - 1 /\ stray[f] = 0
        BY ReadsWhatWasWritten DEF EarlierViewsSurvive
    <2>5. Cardinality(Loaded(f)) = complete[f]
        BY <2>2, <2>4, CountUpTo
    <2>6. Views(f) <= AdaptViews
        BY <2>2, <2>3, <2>4, <2>5 DEF Views
    <2>7. /\ AdaptViews * BlockCells \in Nat
          /\ complete[f] * BlockCells <= AdaptViews * BlockCells
          /\ complete[f] < AdaptViews =>
                complete[f] * BlockCells + BlockCells <= AdaptViews * BlockCells
        BY <2>2, <2>3, BlockCellsNat, Multiples
    <2>8. /\ torn[f] = "no" =>
                Len(file[f]) = complete[f] * BlockCells + (IF Appends(f) THEN Written ELSE 0)
          /\ torn[f] = "last" => Len(file[f]) < (complete[f] + 1) * BlockCells
          /\ torn[f] \in {"no", "last", "inside"}
        BY <2>1 DEF ReaderInv, Layout, StoreInv, TypeOK
    <2>9. Appends(f) => Written \in Nat /\ Written < BlockCells
        BY <2>1, BlockUnderWay DEF Appends
    <2>10. CASE torn[f] = "no" /\ Appends(f)
        BY <2>2, <2>3, <2>6, <2>7, <2>8, <2>9, <2>10, BlockCellsNat
    <2>11. CASE torn[f] = "no" /\ ~Appends(f)
        BY <2>2, <2>6, <2>7, <2>8, <2>11
    <2>12. CASE torn[f] = "last"
        BY <2>2, <2>3, <2>6, <2>7, <2>8, <2>12, BlockCellsNat
    <2> QED
        BY <2>8, <2>10, <2>11, <2>12
<1> QED
    BY <1>1, Invariance, PTL

\* Adaptation never lowers the bar: a file grows only while a verification that
\* matched is under way, by whatever margin AdaptMin lies above the threshold.
THEOREM OnlyMatchesAcquired == Spec => AcquiredOnMatch
<1> DEFINE Grows == \A f \in Fingers : Len(file'[f]) > Len(file[f]) => best >= MatchThreshold
<1>1. IInv /\ [Next]_vars => [Grows]_vars
    <2> SUFFICES ASSUME IInv, [Next]_vars PROVE [Grows]_vars
        OBVIOUS
    <2>1. TypeOK /\ CellsOK /\ Phases
        BY DEF IInv, StoreInv
    <2>2. \A f \in Fingers : Len(file[f]) \in Nat
        BY <2>1 DEF CellsOK
    <2>3. writing # <<>> => best >= MatchThreshold
        <3>1. writing # <<>> => best >= AdaptMin
            BY <2>1 DEF Phases
        <3>2. AdaptMin \in Nat /\ MatchThreshold \in Nat /\ AdaptMin > MatchThreshold
            OBVIOUS
        <3>3. best \in Nat
            BY <2>1 DEF TypeOK
        <3> QED
            BY <3>1, <3>2, <3>3
    <2>4. CASE \A f \in Fingers : file'[f] = file[f]
        BY <2>2, <2>4
    <2>5. CASE \A f \in Fingers : file'[f] = file[f] \/ file'[f] = <<>>
        <3>1. Len(<<>>) = 0
            OBVIOUS
        <3> QED
            BY <2>2, <2>5, <3>1
    <2>6. CASE writing # <<>>
        BY <2>3, <2>6
    <2>7. ASSUME NEW S \in SUBSET Fingers, Removed(S)
          PROVE  \A f \in Fingers : file'[f] = file[f] \/ file'[f] = <<>>
        BY <2>1, <2>7, RemovedEffect
    <2>8. CASE Open
        BY <2>5, <2>7, <2>8 DEF Open, Orphans
    <2>9. CASE \E f \in Fingers : EnrollDone(f)
        BY <2>5, <2>7, <2>9 DEF EnrollDone
    <2>10. CASE \/ Close \/ FprintdSaves \/ StartAppend \/ VerifyDone \/ UNCHANGED vars
                \/ \E f \in Fingers : FprintdDeletes(f) \/ Verify(f)
        BY <2>4, <2>10 DEF Close, FprintdSaves, StartAppend, VerifyDone, FprintdDeletes,
                           Verify, storeVars, vars
    <2>11. CASE AppendCell \/ ShortWrite
        BY <2>6, <2>11 DEF AppendCell, WriteCell, Extend, ShortWrite
    <2>12. CASE Crash
        <3>1. CASE writing # <<>>
            BY <2>6, <3>1
        <3>2. CASE writing = <<>>
            BY <2>4, <2>12, <3>2 DEF Crash, CutShort
        <3> QED
            BY <3>1, <3>2
    <2> QED
        BY <2>8, <2>9, <2>10, <2>11, <2>12 DEF Next
<1> QED
    BY <1>1, Invariance, PTL DEF Spec, AcquiredOnMatch
=============================================================================
