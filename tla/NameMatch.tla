------------------------------ MODULE NameMatch ------------------------------
(***************************************************************************)
(* How a name is matched against sanctions lists and what the answer of    *)
(* one screen says (core/screen_sanctions.py).                             *)
(*                                                                         *)
(* A name is the set of its normalised words.  The OFAC list is a file,    *)
(* searched with a score; another list is an index, asked for the name's   *)
(* exact words and for longer names.  Everything found is merged, weak     *)
(* names are cut down to exact matches, and only exact matches are called  *)
(* hits.                                                                   *)
(***************************************************************************)
EXTENDS Naturals, FiniteSets, Sequences

CONSTANTS
    Words,    \* words, as normalised: lower case, of two characters or more
    Generic,  \* the words that identify nobody: legal forms, trades, regions
    Short,    \* words of fewer than four characters
    Percent,  \* of the name's words a match must have (60)
    Top,      \* OFAC matches that are kept (5)
    MaxWider, \* longer names that the index returns (8)
    Lists     \* bound: what the OFAC file and the index may hold

\* An entity is the sequence of its names, the primary one first.  A row has
\* the words of a name; its key counts a word as often as the name does, so
\* it tells names that repeat a word from those that do not.
Name == SUBSET Words \ {{}}
Entity == Seq(Name)
Row == [words : Name, repeats : BOOLEAN]

\* What is assumed of the constants; the MC module asks TLC.
NameMatchAssumption ==
    /\ IsFiniteSet(Words) /\ Generic \subseteq Words /\ Short \subseteq Words
    /\ Percent \in 1..100 /\ Top \in Nat \ {0} /\ MaxWider \in Nat \ {0}
    /\ \A l \in Lists :
          /\ l.rows \subseteq Row
          /\ l.ofac \in Seq(Entity) /\ \A i \in DOMAIN l.ofac : l.ofac[i] # <<>>

VARIABLES
    query,   \* the words of the name that is screened
    ofac,    \* the OFAC file, primary names and aliases
    rows,    \* the index
    got,     \* the requests that were answered
    answer

vars == <<query, ofac, rows, got, answer>>

Sources == {"sdn", "alt", "exact", "wide"}
Finding == [words : Name, list : {"OFAC", "index"}]
NoAnswer == [status |-> "none"]

TypeOK ==
    /\ query \in SUBSET Words /\ ofac \in Seq(Entity) /\ rows \subseteq Row
    /\ got \subseteq Sources
    /\ \/ answer = NoAnswer
       \/ /\ answer.status \in {"hit", "not_screened", "candidates", "clean", "partial"}
          /\ answer.matches \cup answer.candidates \subseteq Finding

\* Any name against any lists.  Without the names, the aliases are not fetched.
Init ==
    /\ query \in SUBSET Words
    /\ \E l \in Lists : ofac = l.ofac /\ rows = l.rows
    /\ got \in {g \in SUBSET Sources : "alt" \in g => "sdn" \in g}
    /\ answer = NoAnswer

----------------------------------------------------------------------------
(* The score of a listed name: how many of the query's words it has.       *)

Distinctive(name) == name \ Generic

\* The words that count: the distinctive ones, or all if there are none.
Basis(name) == IF Distinctive(name) = {} THEN name ELSE Distinctive(name)

\* One short word alone scores nothing, nor do names of which only one has
\* distinctive words.
Comparable(q, name) ==
    /\ (Distinctive(q) = {}) <=> (Distinctive(name) = {})
    /\ ~(Cardinality(Basis(q)) = 1 /\ Basis(q) \subseteq Short)
Overlap(q, name) ==
    IF Comparable(q, name) THEN Cardinality(Basis(q) \cap Basis(name)) ELSE 0
IsMatch(q, score) == score > 0 /\ 100 * score >= Percent * Cardinality(Basis(q))

\* Can the name carry a finding?  Some word must be long enough, and one must
\* be distinctive.
Weak(q) == Basis(q) \subseteq Short \/ Distinctive(q) = {}
SingleWord(q) == Cardinality(q) = 1

----------------------------------------------------------------------------
(* The OFAC file.                                                          *)

\* The names of an entity that are compared: without the aliases, the first.
Names(entity) == IF "alt" \in got THEN entity ELSE SubSeq(entity, 1, 1)

Scores(i) == {Overlap(query, Names(ofac[i])[k]) : k \in DOMAIN Names(ofac[i])}
Score(i) == CHOOSE n \in Scores(i) : \A m \in Scores(i) : n >= m

\* The name an entity is reported under: the first of its best.
Best(i) ==
    LET names == Names(ofac[i]) IN
    names[CHOOSE k \in DOMAIN names :
            /\ Overlap(query, names[k]) = Score(i)
            /\ \A j \in 1..(k - 1) : Overlap(query, names[j]) < Score(i)]

Matching == {i \in DOMAIN ofac : IsMatch(query, Score(i))}

\* Entities in the order of their scores, and in that of the file.
Before(i) == {j \in Matching : Score(j) > Score(i) \/ (Score(j) = Score(i) /\ j < i)}
OfacMatches ==
    IF "sdn" \in got
    THEN {[words |-> Best(i), list |-> "OFAC"] :
            i \in {j \in Matching : Cardinality(Before(j)) < Top}}
    ELSE {}
OfacScreened == {"sdn", "alt"} \subseteq got

----------------------------------------------------------------------------
(* The index.                                                              *)

ExactRows == {r \in rows : r.words = query /\ ~r.repeats}

\* Longer names: not for one word, not for a weak name, and a page of them.
WideAsked == Cardinality(query) > 1 /\ ~Weak(query)
WideRows == {r \in rows : query \subseteq r.words}
Pages == {page \in SUBSET WideRows :
            \/ page = WideRows /\ Cardinality(page) <= MaxWider
            \/ Cardinality(page) = MaxWider}

\* An index without rows was not screened.
IndexFound(page) ==
    IF "exact" \notin got THEN {}
    ELSE {[words |-> r.words, list |-> "index"] :
            r \in ExactRows \cup (IF WideAsked /\ "wide" \in got THEN page ELSE {})}
IndexScreened ==
    /\ "exact" \in got /\ rows # {}
    /\ WideAsked => "wide" \in got
    /\ ~Weak(query)

----------------------------------------------------------------------------
(* The answer.                                                             *)

\* Of a weak name only exact matches of the OFAC file are kept.
Kept(found) ==
    IF Weak(query) THEN {f \in found : f.list = "OFAC" => f.words = query} ELSE found

\* What is asserted: the same words, and more than one of them.
AssertsAnyMatch(f) == ~SingleWord(query) /\ ~Weak(query)
Asserts(f) == ~SingleWord(query) /\ ~Weak(query) /\ f.words = query

\* A list that did not run is not among those screened; of a weak name none is.
CleanUnlessAllFailed(matches, candidates, screened) ==
    IF matches # {} THEN "hit"
    ELSE IF screened = {} THEN "not_screened"
    ELSE IF candidates # {} THEN "candidates" ELSE "clean"
Status(matches, candidates, screened) ==
    IF matches # {} THEN "hit"
    ELSE IF screened = {} THEN "not_screened"
    ELSE IF candidates # {} THEN "candidates"
    ELSE IF screened = {"OFAC", "index"} THEN "clean" ELSE "partial"

Screened ==
    IF Weak(query) THEN {}
    ELSE (IF OfacScreened THEN {"OFAC"} ELSE {}) \cup (IF IndexScreened THEN {"index"} ELSE {})

\* The answer, complete if no list is reported as unavailable.
Result(page) ==
    LET found == Kept(OfacMatches \cup IndexFound(page))
        matches == {f \in found : Asserts(f)}
        candidates == found \ matches
    IN [status |-> Status(matches, candidates, Screened),
        matches |-> matches, candidates |-> candidates,
        complete |-> Screened = {"OFAC", "index"}]

Screen ==
    /\ answer = NoAnswer
    /\ \E page \in Pages : answer' = Result(page)
    /\ UNCHANGED <<query, ofac, rows, got>>

Next == Screen
Spec == Init /\ [][Next]_vars

----------------------------------------------------------------------------
(* Properties.                                                             *)

OnOfac(name) == \E i \in DOMAIN ofac : \E k \in DOMAIN ofac[i] : ofac[i][k] = name

\* A clean answer means that every list was screened and none has the name,
\* in any order of its words, as a name or as an alias.  Exempt is a name of
\* one word that a row repeats, which the key of the row hides.
CleanMeansUnlisted ==
    answer.status = "clean" =>
        /\ {"sdn", "alt", "exact"} \subseteq got /\ rows # {}
        /\ ~OnOfac(query)
        /\ \A r \in rows : r.words = query => r.repeats /\ SingleWord(query)

\* A hit names somebody who is listed under exactly these words, on a list
\* that was screened, and the words are enough to tell who is meant.
HitsAreExact ==
    answer.status = "hit" =>
        /\ \/ "sdn" \in got /\ OnOfac(query)
           \/ "exact" \in got /\ \E r \in rows : r.words = query
        /\ Cardinality(query) > 1
        /\ \E w \in query : w \notin Generic /\ w \notin Short
==============================================================================
