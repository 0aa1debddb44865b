----------------------------- MODULE MCServices -----------------------------
(***************************************************************************)
(* Services for TLC.                                                       *)
(***************************************************************************)
EXTENDS Services, TLC

\* One customer placed all the orders.
OneOwner == [o \in Orders |-> CHOOSE c \in Customers : TRUE]

\* Short lists: an entity of one or two names, or two of one name each, next
\* to an index that loaded; and an index of up to two rows.
ListedNames == {n \in SUBSET Words : Cardinality(n) \in 1..2} \cup {Words \ Short}
ListedRows == [words : ListedNames, repeats : BOOLEAN]
OfacSmall ==
    {<<<<n>>>> : n \in ListedNames} \cup {<<<<n, m>>>> : n, m \in ListedNames}
    \cup {<<<<n>>, <<m>>>> : n, m \in ListedNames}
SmallLists ==
    {[ofac |-> file, rows |-> {[words |-> Generic \cup Short, repeats |-> FALSE]}] :
        file \in OfacSmall}
    \cup {[ofac |-> <<>>, rows |-> rs] : rs \in {{}} \cup {{r, s} : r, s \in ListedRows}}

\* Parties of a shipment: one that can be found, one too short to tell, and
\* one without a Latin word.
PartyNames == {Words \ (Generic \cup Short), Short, {}}

\* Requests that carry events are interchangeable, and so are parties and
\* lookups: in the configuration the three sets are one.
Symmetry == Permutations(Requests)

\* The lists that the parties of a shipment are screened against.
TradeLists ==
    [ofac : {<<>>, <<<<Words \ (Generic \cup Short)>>>>},
     rows : {{}} \cup {{[words |-> n, repeats |-> FALSE]} : n \in {Short, Words}}]
=============================================================================
