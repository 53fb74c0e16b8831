------------------------------ MODULE Database ------------------------------
(***************************************************************************)
(* Database::LoadDocumentTable (src/database.cc): an array of JSON objects *)
(* is decoded into documents, each of which is inserted into the table     *)
(* before the next one is decoded.                                         *)
(*                                                                         *)
(* A JSON object is a function from the members that are present, named by *)
(* the indices of the fields they are for, to a JSON object, to a value,   *)
(* or to a sequence of these where the field is repeated.                  *)
(***************************************************************************)
EXTENDS Shredding

CONSTANT Inputs     \* the arrays that are loaded

VARIABLES
    input,          \* the array
    position,       \* how many of its elements have been decoded
    aborted         \* an assertion of the JSON library has ended the process

loadVars == <<shredVars, input, position, aborted>>

\* The elements of member i of an object of type t; none if there is no such member.
Elements(json, t, i) ==
    IF i \notin DOMAIN json THEN <<>>
    ELSE IF IsRepeated(Append(t, i)) THEN json[i] ELSE <<json[i]>>

\* Faulty: only what the record itself requires.
HasOwnMembers(json, t) ==
    \A i \in 1 .. Arity[t] : Label[Append(t, i)] = "required" => i \in DOMAIN json

RECURSIVE HasRequiredMembers(_, _)

\* The members that are accessed without HasMember are there.
HasRequiredMembers(json, t) ==
    \A i \in 1 .. Arity[t] :
        LET elements == Elements(json, t, i)
        IN  /\ Label[Append(t, i)] = "required" => i \in DOMAIN json
            /\ Append(t, i) \in Groups =>
                   \A k \in DOMAIN elements : HasRequiredMembers(elements[k], Append(t, i))

RECURSIVE DecodeObject(_, _, _)

\* The message with what the object holds added to the group at address a.
DecodeObject(document, json, a) ==
    LET t == TypeOf(a)
        Element(i, m, element) ==
            LET at == Slot(m, a, i)
            IN  IF TypeOf(at) \in Leaves THEN Put(m, at, element)
                ELSE DecodeObject(Put(m, at, Group), element, at)
        Member(m, i) ==
            FoldLeft(LAMBDA n, element : Element(i, n, element), m, Elements(json, t, i))
    IN  FoldLeft(Member, document, [i \in 1 .. Arity[t] |-> i])

DecodeJson(json) == DecodeObject(EmptyMessage, json, <<>>)
-----------------------------------------------------------------------------
InitLoad ==
    /\ InitShredding
    /\ input \in Inputs
    /\ position = 0
    /\ aborted = FALSE

\* The next element is decoded and handed to insert().
LoadNext ==
    /\ ~ aborted
    /\ callStack = <<>>
    /\ position < Len(input)
    /\ LET json == input[position + 1]
       IN  IF HasRequiredMembers(json, Root)
           THEN /\ Insert(DecodeJson(json))
                /\ position' = position + 1
                /\ UNCHANGED aborted
           ELSE /\ aborted' = TRUE
                /\ UNCHANGED <<shredVars, position>>
    /\ UNCHANGED input

Inserting == ShredStep /\ UNCHANGED <<input, position, aborted>>

LoadStep == LoadNext \/ Inserting

LoadSpec == InitLoad /\ [][LoadStep]_loadVars
-----------------------------------------------------------------------------
\* What a reader of the JSON text finds at address a: {} if nothing.
RECURSIVE ValueAt(_, _, _)
ValueAt(json, t, a) ==
    IF a = <<>> THEN {json}
    ELSE LET elements == Elements(json, t, Head(a)[1])
         IN  IF Head(a)[2] \notin DOMAIN elements THEN {}
             ELSE ValueAt(elements[Head(a)[2]], Append(t, Head(a)[1]), Tail(a))

RECURSIVE Extent(_, _)
Extent(json, t) ==
    1 + FoldLeft(LAMBDA sum, i :
            LET elements == Elements(json, t, i)
            IN  sum + (IF Append(t, i) \in Leaves THEN Len(elements)
                       ELSE FoldLeft(LAMBDA n, e : n + Extent(e, Append(t, i)), 0, elements)),
        0, [i \in 1 .. Arity[t] |-> i])

\* The table holds the elements of the array in its order: the record stored at a
\* TID has what element has at every address, and nothing else.
LoadedInOrder ==
    /\ Len(stored) = position - (IF callStack = <<>> THEN 0 ELSE 1)
    /\ \A n \in DOMAIN stored :
        /\ Cardinality(DOMAIN stored[n]) = Extent(input[n], Root)
        /\ \A a \in DOMAIN stored[n] :
            IF TypeOf(a) \in Leaves THEN ValueAt(input[n], Root, a) = {stored[n][a]}
            ELSE ValueAt(input[n], Root, a) # {}

\* A record is only dissected with its required fields set, at every depth, so that
\* no null is written for one of them: its level would wrap at the record type.
\* Where a field is missing, the load ends with the records before it.
RequiredFieldsSet == callStack # <<>> => IsInitialized(message)
=============================================================================
