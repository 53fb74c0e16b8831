---------------------------- MODULE SchemaHelper ----------------------------
(***************************************************************************)
(* The schema of a table and the level computations on it                  *)
(* (include/imlab/dremel/schema_helper.h).                                 *)
(*                                                                         *)
(* A FieldDescriptor is the path of declaration indices that leads to it:  *)
(* <<3, 1, 2>> is the second field of the first field of the third field   *)
(* of the record type.  nullptr, which the code uses for the record type,  *)
(* is the empty path.  The containing field is then the path without its   *)
(* last element, and "above in the schema" is "prefix of".                 *)
(***************************************************************************)
EXTENDS Integers, Sequences, FiniteSets, SequencesExt

CONSTANTS
    Groups,   \* the fields of a message or group type
    Arity,    \* Arity[t]: how many fields the record type or group t declares
    Label     \* Label[f]: "required", "optional" or "repeated"

Root == <<>>
Types == Groups \cup {Root}
Fields == UNION {{Append(t, i) : i \in 1 .. Arity[t]} : t \in Types}
Leaves == Fields \ Groups
Nodes == Fields \cup {Root}

ASSUME SchemaAssumption ==
    /\ Groups \subseteq Seq(Nat \ {0})
    /\ IsFiniteSet(Groups)
    /\ Arity \in [Types -> Nat]
    /\ Root \notin Groups
    /\ Groups \subseteq Fields
    /\ \A g \in Groups : \A n \in 1 .. Len(g) : SubSeq(g, 1, n) \in Groups
    /\ Label \in [Fields -> {"required", "optional", "repeated"}]

Prefix(f, n) == SubSeq(f, 1, n)

\* The field that contains f (nullptr for a field of the record type).
GetFieldDescriptor(f) == Front(f)

IsRepeated(f) == Label[f] = "repeated"

\* The levels are tabulated: TLC evaluates a constant once.
GetMaxRepetitionLevel ==
    [f \in Nodes |-> Cardinality({n \in 1 .. Len(f) : IsRepeated(Prefix(f, n))})]

GetDefinitionLevel ==
    [f \in Nodes |-> Cardinality({n \in 1 .. Len(f) : Label[Prefix(f, n)] # "required"})]

GetFullDefinitionLevel(f) == Len(f)

-----------------------------------------------------------------------------
\* How many steps from the record type the paths of f and g share.
CommonLength(f, g) == Len(LongestCommonPrefix({f, g}))

\* Faulty: the closest repeated field instead of the field above it.
ClosestRepeatedInstead(f, n) ==
    LET reps == {k \in 1 .. n : IsRepeated(Prefix(f, k))}
    IN  IF reps = {} THEN Root ELSE Prefix(f, Max(reps))

\* The field above the closest repeated field among the first n steps of f;
\* nullptr when there is none.
AboveRepeated(f, n) ==
    LET reps == {k \in 1 .. n : IsRepeated(Prefix(f, k))}
    IN  IF reps = {} THEN Root
        ELSE Prefix(f, Max(reps) - 1)

\* Whether f comes after g in the schema, or is g, or lies below it.
NotBefore(f, g) ==
    LET c == CommonLength(f, g)
    IN  \/ c = Len(g)
        \/ f[c + 1] >= g[c + 1]

GetCommonAncestor ==
    [fg \in Nodes \X Nodes |->
        LET f == fg[1]
            g == fg[2]
            c == CommonLength(f, g)
        IN  IF IsStrictPrefix(f, g) THEN f
            ELSE IF NotBefore(f, g) THEN AboveRepeated(f, c)
            ELSE Prefix(f, c)]
=============================================================================
