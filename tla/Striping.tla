------------------------------ MODULE Striping ------------------------------
(***************************************************************************)
(* What a column has to contain for a record, stated without the           *)
(* algorithm: the definition of repetition and definition levels that the  *)
(* comments in include/imlab/dremel refer to (levels of the Dremel paper). *)
(***************************************************************************)
EXTENDS ProtoMessage

\* What message m contains on the path to leaf l.
OnPath(m, l) == {a \in DOMAIN m : IsPrefix(TypeOf(a), l)}

\* A column has one row for each place where the path to its leaf ends.
Slots(m, l) == {a \in OnPath(m, l) : ~ \E b \in OnPath(m, l) : IsStrictPrefix(a, b)}

SharedLength(a, b) == Len(LongestCommonPrefix({a, b}))

\* Two slots of a column differ first in the occurrence of a repeated field.
Earlier(a, b) ==
    LET c == SharedLength(a, b) IN c < Len(a) /\ c < Len(b) /\ a[c + 1][2] < b[c + 1][2]

SlotsBefore(m, l, a) == {b \in Slots(m, l) : Earlier(b, a)}

\* The slots in their order: the n-th is the one that n - 1 others come before.
OrderedSlots(m, l) ==
    LET before == [a \in Slots(m, l) |-> Cardinality(SlotsBefore(m, l, a))]
    IN  [n \in 1 .. Cardinality(DOMAIN before) |-> CHOOSE a \in DOMAIN before : before[a] = n - 1]

\* The row of a slot: its value if the path is complete; at what repeated field
\* it has repeated since the slot before; how many fields that could be missing
\* are there.
Striped(m, l) ==
    LET s == OrderedSlots(m, l)
    IN  [n \in 1 .. Len(s) |->
            [v |-> IF TypeOf(s[n]) = l THEN m[s[n]] ELSE Default,
             r |-> IF n = 1 THEN 0
                   ELSE GetMaxRepetitionLevel[Prefix(l, SharedLength(s[n - 1], s[n]) + 1)],
             d |-> GetDefinitionLevel[TypeOf(s[n])]]]

\* The last step of an address to a second or later occurrence, 0 if there is none.
LastRepeat(a) == Max({0} \cup {n \in 1 .. Len(a) : a[n][2] > 1})
=============================================================================
