---------------------------- MODULE ProtoMessage ----------------------------
(***************************************************************************)
(* Protocol buffer messages, modelled from how the code in src/ uses       *)
(* google::protobuf::Message and Reflection (external library).            *)
(*                                                                         *)
(* A (sub)message or value inside a record has an address: the sequence of *)
(* pairs <<index of the field, occurrence>> that leads to it; the record   *)
(* itself is at <<>>.  A message is a function from the addresses that are *)
(* present to what is stored there: a value at a leaf, Group elsewhere.    *)
(***************************************************************************)
EXTENDS SchemaHelper

CONSTANTS
    Values,       \* the values of atomic fields
    Default       \* T{}, the value-initialised value of an atomic field's type

ASSUME DefaultAssumption == Default \notin Values

Group == <<>>
EmptyMessage == [a \in {<<>>} |-> Group]

\* The FieldDescriptor of what lives at address a.
TypeOf(a) == [n \in 1 .. Len(a) |-> a[n][1]]

Child(a, i, k) == Append(a, <<i, k>>)

IsMessage(m) ==
    /\ IsFiniteSet(DOMAIN m) /\ DOMAIN m \subseteq Seq(Nat \X Nat)
    /\ <<>> \in DOMAIN m
    /\ \A a \in DOMAIN m :
        IF a = <<>> THEN m[a] = Group
        ELSE LET f == TypeOf(a)
                 k == Last(a)[2]
             IN  /\ f \in Fields
                 /\ Front(a) \in DOMAIN m
                 /\ m[a] \in (IF f \in Leaves THEN Values ELSE {Group})
                 /\ k \in Nat \ {0}
                 /\ k > 1 => IsRepeated(f) /\ Child(Front(a), Last(a)[1], k - 1) \in DOMAIN m

\* Message::IsInitialized: all required fields are set, at every depth.
IsInitialized(m) ==
    \A a \in DOMAIN m : TypeOf(a) \in Types =>
        \A i \in 1 .. Arity[TypeOf(a)] :
            Label[Append(TypeOf(a), i)] = "required" => Child(a, i, 1) \in DOMAIN m

\* Reflection::FieldSize, for field i of the message at address a.
FieldSize(m, a, i) ==
    Cardinality({b \in DOMAIN m : b # <<>> /\ Last(b)[1] = i /\ Front(b) = a})

\* Faulty: Add overwrites what is there.
FirstSlot(m, a, i) == Child(a, i, 1)

\* Where Reflection::AddMessage (repeated) or MutableMessage puts a value of
\* field i, and where Add<Type> or Set<Type> does.
Slot(m, a, i) ==
    Child(a, i, IF IsRepeated(Append(TypeOf(a), i)) THEN FieldSize(m, a, i) + 1 ELSE 1)

Put(m, a, v) == [b \in DOMAIN m \cup {a} |-> IF b = a THEN v ELSE m[b]]
=============================================================================
