------------------------------ MODULE MultiMap ------------------------------
(***************************************************************************)
(* What LazyMultiMap promises, without buckets and lists: entries are      *)
(* gathered, the map is sealed once, and from then on equal_range() hands  *)
(* out every entry of a key, each once, in any order.                      *)
(***************************************************************************)
EXTENDS Sequences, SequencesExt

CONSTANTS
    Ids,       \* what tells entries apart
    AllKeys    \* their keys

VARIABLES
    content,   \* content[id]: the key of the entries inserted so far
    state,     \* "open", "sealing" or "sealed"
    asked,     \* the key of the running equal_range: a set of at most one
    given      \* the entries it has handed out

mapVars == <<content, state, asked, given>>

Entries(k) == {id \in DOMAIN content : content[id] = k}

MapInit ==
    /\ content = [id \in {} |-> 0]
    /\ state = "open"
    /\ asked = {}
    /\ given = <<>>

Add(id, k) ==
    /\ state = "open"
    /\ id \notin DOMAIN content
    /\ content' = [i \in DOMAIN content \cup {id} |-> IF i = id THEN k ELSE content[i]]
    /\ UNCHANGED <<state, asked, given>>

BeginSeal == state = "open" /\ state' = "sealing" /\ UNCHANGED <<content, asked, given>>

EndSeal == state = "sealing" /\ state' = "sealed" /\ UNCHANGED <<content, asked, given>>

Ask(k) ==
    /\ state = "sealed"
    /\ asked = {}
    /\ asked' = {k}
    /\ UNCHANGED <<content, state, given>>

Give ==
    /\ \E k \in asked : \E id \in Entries(k) \ ToSet(given) : given' = Append(given, id)
    /\ UNCHANGED <<content, state, asked>>

Done ==
    /\ \E k \in asked : ToSet(given) = Entries(k)
    /\ asked' = {}
    /\ given' = <<>>
    /\ UNCHANGED <<content, state>>

MapNext ==
    \/ \E k \in AllKeys : (\E id \in Ids : Add(id, k)) \/ Ask(k)
    \/ BeginSeal \/ EndSeal \/ Give \/ Done

\* Sealing ends, and every equal_range() comes to its end.
MapSpec == MapInit /\ [][MapNext]_mapVars /\ WF_mapVars(EndSeal \/ Give \/ Done)
=============================================================================
