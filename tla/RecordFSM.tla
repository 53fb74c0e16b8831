----------------------------- MODULE RecordFSM -----------------------------
(***************************************************************************)
(* The automaton that leads record assembly from column to column          *)
(* (include/imlab/dremel/record_fsm.h).  A projection is the list of the   *)
(* leaves that are read, without duplicates.                               *)
(***************************************************************************)
EXTENDS SchemaHelper

CONSTANT Projections   \* the lists of fields that clients ask for

ASSUME ProjectionsAssumption ==
    \A F \in Projections :
        /\ F \in Seq(Leaves)
        /\ F # <<>>
        /\ \A i, j \in 1 .. Len(F) : F[i] = F[j] => i = j

\* The field after the i-th, nullptr after the last.
Barrier(F, i) == IF i = Len(F) THEN Root ELSE F[i + 1]

BarrierLevel(F, i) == GetMaxRepetitionLevel[GetCommonAncestor[<<F[i], Barrier(F, i)>>]]

\* The level of the backward edge from the i-th field to the u-th.
BackLevel(F, i, u) == GetMaxRepetitionLevel[GetCommonAncestor[<<F[u], F[i]>>]]

\* The earlier fields with a backward edge from the i-th field at a level.
BackFields(F, i, level) ==
    {u \in 1 .. i - 1 :
        /\ GetMaxRepetitionLevel[F[u]] > BarrierLevel(F, i)
        /\ BackLevel(F, i, u) = level}

\* Faulty: of several backward edges the nearest field wins.
TransitionToNearest(F, i, level) ==
    IF level <= BarrierLevel(F, i) THEN Barrier(F, i)
    ELSE IF BackFields(F, i, level) # {} THEN F[Max(BackFields(F, i, level))]
    ELSE IF level <= GetMaxRepetitionLevel[F[i]] THEN F[i]
    ELSE Root

\* ConstructRecordFSM assigns backward edges from the nearest field to the
\* farthest, then reflexive edges where nothing is assigned yet, then forward
\* edges over what is there; later assignments win.  No edge means nullptr.
Transition(F, i, level) ==
    IF level <= BarrierLevel(F, i) THEN Barrier(F, i)
    ELSE IF BackFields(F, i, level) # {} THEN F[Min(BackFields(F, i, level))]
    ELSE IF level <= GetMaxRepetitionLevel[F[i]] THEN F[i]
    ELSE Root

MaxLevel == Max({GetMaxRepetitionLevel[f] : f \in Nodes})

\* The automaton of every projection, tabulated.
FSM ==
    [F \in Projections |->
        [il \in (1 .. Len(F)) \X (0 .. MaxLevel) |-> Transition(F, il[1], il[2])]]

NextField(F, f, level) == FSM[F][<<SelectInSeq(F, LAMBDA g : g = f), level>>]
=============================================================================
