---------------------------- MODULE AdaptiveStore ----------------------------
(***************************************************************************)
(* The adaptive store: one file per finger next to fprintd's templates, to *)
(* which a verification that passes comfortably appends its capture, and   *)
(* which later verifications score against as well.                        *)
(*                                                                         *)
(* A file is a sequence of cells: for each view a header (the length of    *)
(* the block) and its body, of which the first cell also counts the        *)
(* points.  gx_adapt_append writes cell after cell and the process may die *)
(* in between, within the header too.  gx_adapt_load follows the headers;  *)
(* what is appended behind a view cut short puts it out of step, and what  *)
(* it then takes for a length are the bytes of a descriptor: any number.   *)
(* fprintd (external) owns the templates; it deletes them without a word   *)
(* to the driver.                                                          *)
(*                                                                         *)
(* X_Word after the name of a definition X is a plausible bug in the code  *)
(* X models; Next does not use it.                                         *)
(***************************************************************************)
EXTENDS Integers, Sequences, FiniteSets

CONSTANTS
    Fingers,        \* the templates of the enrolled user
    BodyCells,      \* cells of a serialised view
    AdaptViews,     \* GX_ADAPT_VIEWS
    MatchThreshold, \* GX_MATCH_THRESHOLD
    AdaptMin,       \* GX_ADAPT_MIN
    AdaptMax,       \* GX_ADAPT_MAX_FRAC of the points of a capture
    Scores,         \* the scores a verification may reach
    UnlinkMayFail,  \* whether the file system may refuse to remove a file
    MaxGen,         \* bound: enrolments
    MaxViews,       \* bound: a store that has the cells of so many views
                    \* is appended to no more
    MaxStray        \* bound: views read out of step in a store

ASSUME CellAssumption == BodyCells \in Nat /\ BodyCells >= 2 /\ AdaptViews \in Nat
ASSUME UnlinkAssumption == UnlinkMayFail \in BOOLEAN
ASSUME ScoreAssumption ==
    Scores \subseteq Nat /\ {MatchThreshold, AdaptMin, AdaptMax} \subseteq Nat
\* "The acquisition threshold sits strictly above the decision threshold".
ASSUME MarginAssumption == AdaptMin > MatchThreshold

ASSUME BoundAssumption == MaxGen \in Nat /\ MaxViews \in Nat /\ MaxStray \in Nat

None == "none"

ASSUME FingersAssumption == None \notin Fingers

VARIABLES
    opened,     \* the device is open
    template,   \* fprintd: the generation of the finger's template, 0 for none
    gen,        \* fprintd: enrolments so far
    saving,     \* the finger whose new template fprintd is about to save
    file,       \* the store of each finger, empty when there is no file
    verifying,  \* the finger being verified
    best,       \* GxTask.best of that verification
    writing,    \* what is left to append of the view being acquired
    stray,      \* the views that gx_adapt_load makes of bytes it reads out of
                \* step: what those bytes say is chosen as they are written
    complete,   \* history: views written to the end before one was cut short
    torn,       \* history: a crash cut a view short ("no", "last", "inside")
    gone        \* history: opened since the template disappeared

storeVars == <<file, writing, stray>>
histVars == <<complete, torn, gone>>
vars == <<opened, template, gen, saving, storeVars, verifying, best, histVars>>

Header(v) == [kind |-> "header", view |-> v, i |-> 0]
Body(v, i) == [kind |-> "body", view |-> v, i |-> i]
Part(v) == [kind |-> "part", view |-> v, i |-> 0]
Block(v) == <<Header(v)>> \o [i \in 1 .. BodyCells |-> Body(v, i)]
View == [gen : 1 .. MaxGen, n : 1 .. MaxViews]
BlockCells == 1 + BodyCells
Full(f) == Len(file[f]) >= MaxViews * (1 + BodyCells)
-----------------------------------------------------------------------------
\* What the n-th length of a file (from 0) is followed by: every length that is
\* written is that of a view, so the n-th comes after n blocks.
Blob(cells, n) == SubSeq(cells, n * BlockCells + 2, (n + 1) * BlockCells)

\* gx_sift_deserialize on a blob: the count of points must come first and fit
\* the length.  A header in its place is a length in bytes, far too large.
Deserializes(blob) == blob[1].kind = "body" /\ blob[1].i = 1

\* gx_adapt_load comes to the n-th block in step when it found a length before
\* every block up to there and the file holds them all in full.
Follows(cells, n) ==
    \A m \in 0 .. n : /\ (m + 1) * BlockCells <= Len(cells)
                     /\ cells[m * BlockCells + 1].kind = "header"

\* A block that the file does not hold in full is kept as it is.
LoadFrom_KeepsTruncated(cells) ==
    {n \in 0 .. Len(cells) : /\ n = 0 \/ Follows(cells, n - 1)
                             /\ n * BlockCells < Len(cells)
                             /\ cells[n * BlockCells + 1].kind = "header"}

\* The blocks it keeps are those that deserialise.
LoadFrom(cells) == {n \in 0 .. Len(cells) : Follows(cells, n) /\ Deserializes(Blob(cells, n))}

\* Where a length is due it finds the bytes of a body, or a header cut short with
\* more behind it.  They may read as a length beyond the end, where it stops, as
\* one of no view, or as the length and count of a view, after which it reads on.
OutOfStep(cells) ==
    \E n \in 0 .. Len(cells) :
        LET i == n * BlockCells + 1 IN
        /\ n = 0 \/ Follows(cells, n - 1)
        /\ i <= Len(cells)
        /\ cells[i].kind # "header"
        /\ cells[i].kind = "part" => i < Len(cells)

\* The blocks read in step, and all the views that a verification scores against.
Loaded(f) == LoadFrom(file[f])
Views(f) == Cardinality(Loaded(f)) + stray[f]
IsIntact(blob) == \A i \in 1 .. BodyCells : blob[i] = Body(blob[1].view, i)
-----------------------------------------------------------------------------
Init ==
    /\ opened = FALSE /\ template = [f \in Fingers |-> 0] /\ gen = 0
    /\ saving = None /\ verifying = None /\ best = 0
    /\ file = [f \in Fingers |-> <<>>] /\ writing = <<>> /\ stray = [f \in Fingers |-> 0]
    /\ complete = [f \in Fingers |-> 0]
    /\ torn = [f \in Fingers |-> "no"] /\ gone = [f \in Fingers |-> FALSE]

Idle == opened /\ saving = None /\ verifying = None

\* gx_adapt_sweep: the stores whose template has vanished.
Orphans == {f \in Fingers : template[f] = 0}

\* gx_adapt_clear and the unlink of gx_adapt_sweep: nobody looks whether the file
\* is gone.  The histories of a store that is removed start again.
Removed(S) ==
    \E R \in IF UnlinkMayFail THEN SUBSET S ELSE {S} :
        /\ file' = [f \in Fingers |-> IF f \in R THEN <<>> ELSE file[f]]
        /\ stray' = [f \in Fingers |-> IF f \in R THEN 0 ELSE stray[f]]
        /\ complete' = [f \in Fingers |-> IF f \in R THEN 0 ELSE complete[f]]
        /\ torn' = [f \in Fingers |-> IF f \in R THEN "no" ELSE torn[f]]

Open ==
    /\ ~opened
    /\ opened' = TRUE
    /\ Removed(Orphans)
    /\ gone' = [f \in Fingers |-> template[f] = 0]
    /\ UNCHANGED <<template, gen, saving, writing, verifying, best>>

Close ==
    /\ Idle
    /\ opened' = FALSE
    /\ UNCHANGED <<template, gen, saving, storeVars, verifying, best, histVars>>

\* gx_enroll_done clears the store, then reports the template ...
EnrollDone_KeepsStore(f) ==
    /\ Idle /\ gen < MaxGen
    /\ saving' = f
    /\ UNCHANGED <<opened, template, gen, storeVars, verifying, best, histVars>>

EnrollDone(f) ==
    /\ Idle /\ gen < MaxGen
    /\ saving' = f
    /\ Removed({f})
    /\ UNCHANGED <<opened, template, gen, writing, verifying, best, gone>>

\* ... which fprintd saves, or fails to.
FprintdSaves ==
    /\ saving # None
    /\ \/ gen' = gen + 1 /\ template' = [template EXCEPT ![saving] = gen']
          /\ gone' = [gone EXCEPT ![saving] = FALSE]
       \/ UNCHANGED <<gen, template, gone>>
    /\ saving' = None
    /\ UNCHANGED <<opened, storeVars, verifying, best, complete, torn>>

FprintdDeletes(f) ==
    /\ template[f] # 0
    /\ template' = [template EXCEPT ![f] = 0]
    /\ UNCHANGED <<opened, gen, saving, storeVars, verifying, best, histVars>>

\* A verification has its score (gx_capture_done).
Verify(f) ==
    /\ Idle /\ template[f] # 0
    /\ verifying' = f /\ best' \in Scores
    /\ UNCHANGED <<opened, template, gen, saving, storeVars, histVars>>

\* The acquisition window of gx_verify_done.
Acquires_AnyMatch(f) == best <= AdaptMax /\ Views(f) < AdaptViews
Acquires_NoCap(f) == best >= AdaptMin /\ best <= AdaptMax
Acquires(f) == best >= AdaptMin /\ best <= AdaptMax /\ Views(f) < AdaptViews

\* The view is appended under the authority of the template, if fprintd has
\* not deleted it meanwhile: the append itself does not look.
NextView(f) == [gen |-> IF template[f] = 0 THEN gen ELSE template[f],
                n |-> complete[f] + 1]

StartAppend ==
    /\ verifying # None /\ writing = <<>> /\ Acquires(verifying)
    /\ ~Full(verifying)
    /\ writing' = Block(NextView(verifying))
    /\ torn' = [torn EXCEPT ![verifying] = IF @ = "no" THEN "no" ELSE "inside"]
    /\ UNCHANGED <<opened, template, gen, saving, file, stray, verifying, best,
                   complete, gone>>

\* fopen "ab": what is written goes after what is there.  Out of step, the bytes
\* may make more views of the file; none that it had goes.
Extend(f, cell) ==
    /\ file' = [file EXCEPT ![f] = Append(@, cell)]
    /\ \E k \in (IF OutOfStep(file'[f]) THEN stray[f] .. MaxStray ELSE {stray[f]}) :
           stray' = [stray EXCEPT ![f] = k]

WriteCell ==
    /\ writing # <<>>
    /\ Extend(verifying, Head(writing))
    /\ writing' = Tail(writing)

\* The last cell ends the append, and with it the verification.
AppendCell ==
    /\ WriteCell
    /\ IF Len(writing) = 1
       THEN /\ verifying' = None /\ best' = 0
            /\ complete' = [complete EXCEPT ![verifying] =
                               IF torn[verifying] = "no" THEN @ + 1 ELSE @]
       ELSE UNCHANGED <<verifying, best, complete>>
    /\ UNCHANGED <<opened, template, gen, saving, torn, gone>>

VerifyDone ==
    /\ verifying # None /\ writing = <<>> /\ ~Acquires(verifying)
    /\ verifying' = None /\ best' = 0
    /\ UNCHANGED <<opened, template, gen, saving, storeVars, histVars>>

\* What is on disk when a write stops short: nothing, a part of the header, or
\* the header and the first cells of the body.
CutShort ==
    \/ writing = <<>> /\ UNCHANGED <<file, stray, torn>>
    \/ writing # <<>> /\ Head(writing).kind = "header" /\ UNCHANGED <<file, stray, torn>>
    \/ /\ writing # <<>>
       /\ IF Head(writing).kind = "header"
          THEN Extend(verifying, Part(Head(writing).view))
          ELSE UNCHANGED <<file, stray>>
       /\ torn' = [torn EXCEPT ![verifying] = IF @ = "no" THEN "last" ELSE @]

\* A short write (the disk is full) is logged and otherwise ignored.
ShortWrite ==
    /\ writing # <<>> /\ CutShort
    /\ writing' = <<>> /\ verifying' = None /\ best' = 0
    /\ UNCHANGED <<opened, template, gen, saving, complete, gone>>

\* The process dies at any time.
Crash ==
    /\ opened /\ CutShort
    /\ opened' = FALSE /\ saving' = None
    /\ writing' = <<>> /\ verifying' = None /\ best' = 0
    /\ UNCHANGED <<template, gen, complete, gone>>
-----------------------------------------------------------------------------
Next ==
    \/ Open \/ Close \/ FprintdSaves \/ StartAppend \/ AppendCell \/ VerifyDone
    \/ ShortWrite \/ Crash
    \/ \E f \in Fingers : EnrollDone(f) \/ FprintdDeletes(f) \/ Verify(f)

Spec == Init /\ [][Next]_vars
-----------------------------------------------------------------------------
\* The type of every variable (file and writing: CellsOK, stray: InStep); only a
\* verification of an open device appends, and the views counted as complete are in
\* the file.
TypeOK ==
    /\ opened \in BOOLEAN /\ gen \in 0 .. MaxGen
    /\ template \in [Fingers -> 0 .. MaxGen]
    /\ saving \in Fingers \cup {None} /\ verifying \in Fingers \cup {None}
    /\ best \in Scores \cup {0}
    /\ \A f \in Fingers : \A i \in 1 .. Len(file[f]) : file[f][i].view \in View
    /\ writing # <<>> => opened /\ verifying # None
    /\ complete \in [Fingers -> 0 .. MaxViews]
    /\ \A f \in Fingers : complete[f] * (1 + BodyCells) <= Len(file[f])
    /\ torn \in [Fingers -> {"no", "last", "inside"}] /\ gone \in [Fingers -> BOOLEAN]

\* "Acquired views must not outlive the template that authorised them": what a
\* verification loads was acquired under the template it verifies.
StoreAuthorised ==
    \A f \in Fingers : template[f] # 0 =>
        \A i \in 1 .. Len(file[f]) : file[f][i].view.gen = template[f]

\* A template deleted behind the driver's back leaves no descriptors on disk
\* past the next open.
DeletedIsSwept == \A f \in Fingers : gone[f] /\ verifying # f => file[f] = <<>>

\* "Cap, bounding verification time": the views a verification scores against.
LoadBounded == \A f \in Fingers : Views(f) <= AdaptViews

\* Until something is appended behind a view cut short, the cap bounds what a
\* verification scores against, and the cells that the store takes on disk.
CapHeld ==
    \A f \in Fingers : torn[f] # "inside" =>
        Views(f) <= AdaptViews /\ Len(file[f]) <= AdaptViews * BlockCells

\* The views written before a crash cut one short stay readable, whatever is
\* appended afterwards; and as long as nothing is, the view cut short is skipped:
\* a verification loads exactly the views that were written to the end.
EarlierViewsSurvive ==
    \A f \in Fingers :
        /\ 0 .. complete[f] - 1 \subseteq Loaded(f)
        /\ torn[f] # "inside" => Loaded(f) = 0 .. complete[f] - 1 /\ stray[f] = 0
        /\ \A n \in 0 .. complete[f] - 1 : IsIntact(Blob(file[f], n))

\* The inductive invariant.  What is on disk or about to be, ...
Cell == [kind : {"header", "body", "part"}, view : View, i : 0 .. BodyCells]

CellsOK == file \in [Fingers -> Seq(Cell)] /\ writing \in Seq(Cell)

\* ... how much of it the histories count as complete, ...
Written == 1 + BodyCells - Len(writing)
Counts ==
    /\ Len(writing) <= 1 + BodyCells
    /\ writing # <<>> =>
         /\ complete[verifying] < MaxViews
         /\ torn[verifying] = "no" =>
               complete[verifying] * (1 + BodyCells) + Written <= Len(file[verifying])

\* ... which verification may be under way, ...
Phases ==
    /\ verifying # None \/ saving # None => opened
    /\ verifying = None \/ saving = None
    /\ verifying # None => gen > 0
    /\ saving # None => gen < MaxGen
    /\ writing # <<>> => best >= AdaptMin
    /\ \A f \in Fingers : template[f] <= gen

\* ... and on whose authority, while every file that is to go goes.
Authority ==
    ~UnlinkMayFail =>
        /\ StoreAuthorised
        /\ writing # <<>> /\ template[verifying] # 0 =>
              \A i \in 1 .. Len(writing) : writing[i].view.gen = template[verifying]
        /\ saving # None => file[saving] = <<>>
        /\ \A f \in Fingers : gone[f] => file[f] = <<>> /\ template[f] = 0 /\ verifying # f

StoreInv == TypeOK /\ CellsOK /\ Counts /\ Phases /\ Authority

\* ... and what the reader makes of it.  The views written to the end come first
\* and whole, then what was cut short; ...
Whole(cells, n) ==
    /\ cells[n * BlockCells + 1].kind = "header"
    /\ IsIntact(Blob(cells, n))

Appends(f) == writing # <<>> /\ verifying = f

Layout ==
    \A f \in Fingers :
        /\ \A n \in 0 .. complete[f] - 1 : Whole(file[f], n)
        /\ torn[f] = "no" =>
              Len(file[f]) = complete[f] * BlockCells + (IF Appends(f) THEN Written ELSE 0)
        /\ torn[f] = "last" => ~Appends(f) /\ Len(file[f]) < (complete[f] + 1) * BlockCells

\* ... what is being appended is one block, cell after cell; ...
Appending ==
    writing # <<>> =>
        LET v == writing[1].view IN
        /\ \A j \in 1 .. Len(writing) : writing[j] = Block(v)[Written + j]
        /\ torn[verifying] = "no" =>
              \A j \in 1 .. Written :
                  file[verifying][complete[verifying] * BlockCells + j] = Block(v)[j]

\* ... nothing is read out of step before an append behind a view cut short, ...
InStep ==
    /\ stray \in [Fingers -> 0 .. MaxStray]
    /\ \A f \in Fingers : torn[f] # "inside" => stray[f] = 0

\* ... and of the views that were written to the end there are no more than the
\* cap, and fewer where one more comes or was cut short.
Capped ==
    /\ \A f \in Fingers : complete[f] <= AdaptViews
    /\ \A f \in Fingers : torn[f] = "last" => complete[f] < AdaptViews
    /\ writing # <<>> => complete[verifying] < AdaptViews

ReaderInv == Layout /\ Appending /\ InStep /\ Capped

IInv == StoreInv /\ ReaderInv

\* Adaptation never lowers the bar: only a capture that matched is acquired.
AcquiredOnMatch ==
    [][\A f \in Fingers : Len(file'[f]) > Len(file[f]) => best >= MatchThreshold]_vars

\* "A crash mid write can only damage the last one, which the reader then skips
\* cleanly": of the blocks that the reader comes to in step it keeps the views
\* written to the end, and nothing else.
CrashDamagesOnlyLast ==
    \A f \in Fingers : \A n \in Loaded(f) : IsIntact(Blob(file[f], n))

\* "Acquired views must not outlive the template that authorised them", of what
\* a verification really loads, when the file system may refuse to remove a store.
ViewsDieWithTemplate ==
    \A f \in Fingers : template[f] # 0 =>
        \A n \in Loaded(f) : Blob(file[f], n)[1].view.gen = template[f]
=============================================================================
