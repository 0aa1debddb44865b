--------------------------- MODULE ScreeningProofs ---------------------------
(***************************************************************************)
(* Proofs about sanctions screening, for any lists, names and failures:    *)
(* the answers of NameMatch and the verdicts of TradeRestriction, the      *)
(* index of SanctionsIndex and the files of OfacFiles; and, from the       *)
(* proofs of its parts, about Services as a whole.                         *)
(*                                                                         *)
(* Services screens one name (Match), and a shipment's parties             *)
(* (Trade!Screening(p)): two instances of NameMatch.  The lemmas about the *)
(* answer to one name are proved of each, since the prover cites no lemma  *)
(* through an instance with a parameter.                                   *)
(***************************************************************************)
EXTENDS ServicesProofs, SequenceTheorems, WellFoundedInduction

\* Every set of numbers has a smallest one.
LEMMA SmallestOf ==
    ASSUME NEW S \in SUBSET Nat, S # {}
    PROVE  \E x \in S : \A y \in S : x <= y
<1> DEFINE R == {ij \in Nat \X Nat : ij[1] < ij[2]}
<1>1. PICK x \in S : \A y \in S : <<y, x>> \notin R
  <2>1. IsWellFoundedOn(R, Nat)
    BY NatLessThanWellFounded DEF OpToRel
  <2> HIDE DEF R
  <2> QED BY <2>1, WFMin
<1>2. ASSUME NEW y \in S PROVE x <= y
  <2>1. <<y, x>> \in Nat \X Nat /\ <<y, x>>[1] = y /\ <<y, x>>[2] = x
    OBVIOUS
  <2>2. ~(y < x)
    BY <1>1, <2>1
  <2> QED BY <2>2
<1> QED BY <1>2

\* Of numbered things with scores that are bounded, there is a first of the
\* best.
LEMMA TopRank ==
    ASSUME NEW M \in SUBSET Nat, M # {}, NEW sc \in [M -> Nat], NEW b \in Nat,
           \A k \in M : sc[k] <= b
    PROVE  \E j \in M : \A k \in M : sc[k] <= sc[j] /\ (sc[k] = sc[j] => j <= k)
<1> DEFINE short == {b - sc[k] : k \in M}
<1>1. short \in SUBSET Nat /\ short # {}
  <2>1. \A k \in M : b - sc[k] \in Nat
    <3>1. \A k \in M : sc[k] \in Nat
      OBVIOUS
    <3> QED BY <3>1
  <2> QED BY <2>1
<1>2. PICK least \in short : \A y \in short : least <= y
  <2> HIDE DEF short
  <2> QED BY <1>1, SmallestOf
<1>3. PICK i \in M : least = b - sc[i]
  BY <1>2
<1> DEFINE best == {k \in M : sc[k] = sc[i]}
<1>4. PICK j \in best : \A k \in best : j <= k
  <2>1. best \in SUBSET Nat /\ best # {}
    OBVIOUS
  <2> HIDE DEF best
  <2> QED BY <2>1, SmallestOf
<1>5. \A k \in M : sc[k] <= sc[i]
  BY <1>2, <1>3
<1> QED BY <1>4, <1>5

\* A name as the lists have it, and the lists.
ListedName == SUBSET Words \ {{}}
ListsType ==
    /\ ofac \in Seq(Seq(ListedName)) /\ \A i \in DOMAIN ofac : ofac[i] # <<>>
    /\ rows \subseteq [words : ListedName, repeats : BOOLEAN]

-----------------------------------------------------------------------------
(***************************************************************************)
(* What is found under one name: Match.                                    *)
(***************************************************************************)

LEMMA MatchCounts == \A S : Match!Cardinality(S) = Cardinality(S)
BY Zenon DEF Match!Cardinality, Cardinality

\* The words that count of any name.
LEMMA MatchWords ==
    ASSUME IsFiniteSet(Words), Generic \subseteq Words, NEW n \in SUBSET Words
    PROVE  /\ Match!Basis(n) \subseteq Words /\ Match!Basis(n) \subseteq n
           /\ IsFiniteSet(Match!Basis(n)) /\ Cardinality(Match!Basis(n)) \in Nat
           /\ ~Match!Weak(n) => /\ Cardinality(Match!Basis(n)) >= 1
                           /\ \E w \in n : w \notin Generic /\ w \notin Short
<1>1. Match!Basis(n) \subseteq n
  BY DEF Match!Basis, Match!Distinctive
<1>2. IsFiniteSet(Match!Basis(n)) /\ Cardinality(Match!Basis(n)) \in Nat
  BY <1>1, FS_Subset, FS_CardinalityType
<1>3. ASSUME ~Match!Weak(n)
      PROVE  /\ Cardinality(Match!Basis(n)) >= 1
             /\ \E w \in n : w \notin Generic /\ w \notin Short
  <2>1. PICK w \in Match!Basis(n) : w \notin Short
    BY <1>3 DEF Match!Weak
  <2>2. Match!Basis(n) = Match!Distinctive(n)
    BY <1>3 DEF Match!Weak, Match!Basis
  <2>3. Cardinality(Match!Basis(n)) # 0
    BY <1>2, <2>1, FS_EmptySet
  <2> QED BY <1>2, <2>1, <2>2, <2>3 DEF Match!Distinctive
<1> QED BY <1>1, <1>2, <1>3

\* A name has a score, and its own is the number of the words that count.
LEMMA MatchOverlaps ==
    ASSUME IsFiniteSet(Words), Generic \subseteq Words,
           NEW q \in SUBSET Words, NEW n \in SUBSET Words
    PROVE  /\ Match!Overlap(q, n) \in Nat /\ Match!Overlap(q, n) <= Cardinality(Words)
           /\ ~Match!Weak(q) => Match!Overlap(q, q) = Cardinality(Match!Basis(q))
<1>1. /\ IsFiniteSet(Match!Basis(q) \cap Match!Basis(n))
      /\ Cardinality(Match!Basis(q) \cap Match!Basis(n)) \in Nat
      /\ Cardinality(Match!Basis(q) \cap Match!Basis(n)) <= Cardinality(Words)
      /\ Cardinality(Words) \in Nat
  <2>1. Match!Basis(q) \cap Match!Basis(n) \subseteq Words
    BY MatchWords
  <2> QED BY <2>1, FS_Subset, FS_CardinalityType
<1>2. Match!Overlap(q, n) = IF Match!Comparable(q, n) THEN Cardinality(Match!Basis(q) \cap Match!Basis(n)) ELSE 0
  BY MatchCounts DEF Match!Overlap
<1>3. ~Match!Weak(q) => Match!Overlap(q, q) = Cardinality(Match!Basis(q))
  <2>1. ~Match!Weak(q) => Match!Comparable(q, q)
    BY DEF Match!Weak, Match!Comparable
  <2>2. Match!Basis(q) \cap Match!Basis(q) = Match!Basis(q)
    OBVIOUS
  <2> QED BY <2>1, <2>2, MatchCounts DEF Match!Overlap
<1> QED BY <1>1, <1>2, <1>3

\* The names of an entity that are compared are names of the entity.
LEMMA MatchNames ==
    ASSUME ListsType, NEW i \in DOMAIN ofac
    PROVE  /\ Len(Match!Names(ofac[i])) \in Nat \ {0}
           /\ DOMAIN Match!Names(ofac[i]) = 1..Len(Match!Names(ofac[i]))
           /\ \A k \in DOMAIN Match!Names(ofac[i]) :
                 /\ Match!Names(ofac[i])[k] \in SUBSET Words
                 /\ k \in DOMAIN ofac[i] /\ Match!Names(ofac[i])[k] = ofac[i][k]
<1>1. ofac[i] \in Seq(ListedName) /\ ofac[i] # <<>>
  BY DEF ListsType
<1>2. CASE "alt" \in got
  BY <1>1, <1>2 DEF Match!Names, ListedName
<1>3. CASE "alt" \notin got
  <2>1. Len(ofac[i]) \in Nat /\ Len(ofac[i]) >= 1 /\ DOMAIN ofac[i] = 1..Len(ofac[i])
    BY <1>1
  <2>2. ofac[i][1] \in ListedName
    BY <1>1, <2>1
  <2>3. /\ SubSeq(ofac[i], 1, 1) \in Seq(ListedName) /\ Len(SubSeq(ofac[i], 1, 1)) = 1
        /\ SubSeq(ofac[i], 1, 1)[1] = ofac[i][1]
    BY <2>2, SubSeqProperties
  <2>4. Match!Names(ofac[i]) = SubSeq(ofac[i], 1, 1)
    BY <1>3 DEF Match!Names
  <2>5. DOMAIN SubSeq(ofac[i], 1, 1) = 1..1
    BY <2>3
  <2> QED BY <2>1, <2>2, <2>3, <2>4, <2>5 DEF ListedName
<1> QED BY <1>2, <1>3

\* An entity is reported under one of its names, which scores the best.
LEMMA MatchScored ==
    ASSUME IsFiniteSet(Words), Generic \subseteq Words, ListsType, query \in SUBSET Words,
           NEW i \in DOMAIN ofac
    PROVE  /\ Match!Score(i) \in Nat /\ Match!Score(i) <= Cardinality(Words)
           /\ \A k \in DOMAIN Match!Names(ofac[i]) :
                 Match!Overlap(query, Match!Names(ofac[i])[k]) <= Match!Score(i)
           /\ \E k \in DOMAIN ofac[i] : ofac[i][k] = Match!Best(i)
<1> DEFINE names == Match!Names(ofac[i])
           n == Len(names)
           sc == [k \in 1..n |-> Match!Overlap(query, names[k])]
<1>1. /\ n \in Nat \ {0} /\ DOMAIN names = 1..n
      /\ \A k \in 1..n : /\ names[k] \in SUBSET Words
                         /\ k \in DOMAIN ofac[i] /\ names[k] = ofac[i][k]
  BY MatchNames
<1>2. \A k \in 1..n : sc[k] \in Nat /\ sc[k] <= Cardinality(Words)
  BY <1>1, MatchOverlaps
<1>3. Cardinality(Words) \in Nat
  BY FS_CardinalityType
<1>4. PICK j \in 1..n : \A k \in 1..n : sc[k] <= sc[j] /\ (sc[k] = sc[j] => j <= k)
  <2> DEFINE all == 1..n
  <2>1. all \subseteq Nat /\ all # {}
    BY <1>1
  <2>2. sc \in [all -> Nat] /\ \A k \in all : sc[k] <= Cardinality(Words)
    BY <1>2
  <2> HIDE DEF sc
  <2>3. \E j \in all : \A k \in all : sc[k] <= sc[j] /\ (sc[k] = sc[j] => j <= k)
    <3> HIDE DEF all
    <3> QED BY <1>3, <2>1, <2>2, TopRank
  <2> QED BY <2>3
<1>5. Match!Scores(i) = {sc[k] : k \in 1..n}
  BY <1>1 DEF Match!Scores
<1>6. Match!Score(i) = sc[j]
  <2> HIDE DEF sc, n, names
  <2>1. sc[j] \in Match!Scores(i) /\ \A m \in Match!Scores(i) : sc[j] >= m
    BY <1>2, <1>4, <1>5
  <2>2. Match!Scores(i) \subseteq Nat
    BY <1>2, <1>5
  <2>3. \A x \in Match!Scores(i) : (\A m \in Match!Scores(i) : x >= m) => x = sc[j]
    <3> SUFFICES ASSUME NEW x \in Match!Scores(i), \A m \in Match!Scores(i) : x >= m
                 PROVE  x = sc[j]
      OBVIOUS
    <3>1. x >= sc[j] /\ sc[j] >= x /\ x \in Nat /\ sc[j] \in Nat
      BY <2>1, <2>2
    <3> QED BY <3>1
  <2> QED BY <2>1, <2>3 DEF Match!Score
<1>7. \E k \in DOMAIN names : Match!Best(i) = names[k]
  <2>1. /\ j \in DOMAIN names /\ Match!Overlap(query, names[j]) = Match!Score(i)
        /\ \A k \in 1..(j - 1) : Match!Overlap(query, names[k]) < Match!Score(i)
    <3>1. \A k \in 1..(j - 1) : k \in 1..n /\ k < j
      BY <1>1
    <3>2. \A k \in 1..(j - 1) : sc[k] < sc[j]
      <4> HIDE DEF sc, n
      <4> QED BY <1>2, <1>4, <3>1
    <3>3. j \in DOMAIN names /\ Match!Overlap(query, names[j]) = sc[j]
      BY <1>1
    <3>4. \A k \in 1..(j - 1) : Match!Overlap(query, names[k]) = sc[k]
      BY <3>1
    <3> HIDE DEF sc, n, names
    <3> QED BY <1>6, <3>2, <3>3, <3>4
  <2>2. Match!Best(i) = names[CHOOSE k \in DOMAIN names :
            /\ Match!Overlap(query, names[k]) = Match!Score(i)
            /\ \A l \in 1..(k - 1) : Match!Overlap(query, names[l]) < Match!Score(i)]
    BY DEF Match!Best
  <2> HIDE DEF names, n, sc
  <2> QED BY <2>1, <2>2
<1>8. \A k \in DOMAIN names : Match!Overlap(query, names[k]) <= Match!Score(i)
  <2>1. \A k \in 1..n : Match!Overlap(query, names[k]) = sc[k]
    OBVIOUS
  <2> HIDE DEF names, n, sc
  <2> QED BY <1>1, <1>4, <1>6, <2>1
<1> QED BY <1>1, <1>2, <1>6, <1>7, <1>8

\* If an entity matches, some entity is kept among the first.
LEMMA MatchRanked ==
    ASSUME IsFiniteSet(Words), Generic \subseteq Words, ListsType, Top \in Nat \ {0},
           query \in SUBSET Words, "sdn" \in got, Match!Matching # {}
    PROVE  Match!OfacMatches # {}
<1> DEFINE sc == [i \in Match!Matching |-> Match!Score(i)]
<1>1. Match!Matching \subseteq DOMAIN ofac /\ DOMAIN ofac \subseteq Nat
  BY DEF Match!Matching, ListsType
<1>2. \A i \in Match!Matching : Match!Score(i) \in Nat /\ Match!Score(i) <= Cardinality(Words)
  BY <1>1, MatchScored
<1>3. Cardinality(Words) \in Nat
  BY FS_CardinalityType
<1>4. PICK j \in Match!Matching : \A k \in Match!Matching : sc[k] <= sc[j] /\ (sc[k] = sc[j] => j <= k)
  <2>1. Match!Matching \subseteq Nat /\ sc \in [Match!Matching -> Nat]
        /\ \A k \in Match!Matching : sc[k] <= Cardinality(Words)
    BY <1>1, <1>2
  <2> HIDE DEF sc
  <2> QED BY <1>3, <2>1, TopRank
<1>5. \A k \in Match!Matching : Match!Score(k) <= Match!Score(j) /\ (Match!Score(k) = Match!Score(j) => j <= k)
  BY <1>4
<1>6. Match!Before(j) = {}
  BY <1>1, <1>2, <1>5 DEF Match!Before
<1>7. Match!Cardinality(Match!Before(j)) < Top
  BY <1>6, MatchCounts, FS_EmptySet
<1> QED BY <1>7 DEF Match!OfacMatches

\* Who is in the file under the name that is screened matches, unless the
\* name is a weak one.
LEMMA MatchFound ==
    ASSUME IsFiniteSet(Words), Generic \subseteq Words, ListsType, Percent \in 1..100,
           query \in SUBSET Words, ~Match!Weak(query), "alt" \in got, Match!OnOfac(query)
    PROVE  Match!Matching # {}
<1>1. PICK i \in DOMAIN ofac : \E k \in DOMAIN ofac[i] : ofac[i][k] = query
  BY DEF Match!OnOfac
<1>2. PICK k \in DOMAIN ofac[i] : ofac[i][k] = query
  BY <1>1
<1>3. Match!Names(ofac[i]) = ofac[i]
  BY DEF Match!Names
<1> DEFINE most == Cardinality(Match!Basis(query))
           score == Match!Score(i)
<1>4. Match!Overlap(query, query) = most /\ most \in Nat /\ most >= 1
  BY MatchOverlaps, MatchWords
<1>5. Match!Overlap(query, Match!Names(ofac[i])[k]) <= score /\ score \in Nat
  BY <1>2, <1>3, MatchScored
<1>6. score > 0 /\ most <= score
  BY <1>2, <1>3, <1>4, <1>5
<1>7. 100 * score >= Percent * most
  <2> HIDE DEF most, score
  <2>1. Percent * most <= 100 * most
    BY <1>4
  <2>2. 100 * most <= 100 * score
    BY <1>4, <1>5, <1>6
  <2>3. Percent * most \in Int /\ 100 * most \in Int /\ 100 * score \in Int
    BY <1>4, <1>5
  <2> QED BY <2>1, <2>2, <2>3
<1>8. Match!IsMatch(query, Match!Score(i))
  BY <1>6, <1>7, MatchCounts DEF Match!IsMatch
<1> QED BY <1>8 DEF Match!Matching

\* A complete answer shows whoever is listed.
LEMMA MatchShown ==
    ASSUME IsFiniteSet(Words), Generic \subseteq Words, ListsType, Percent \in 1..100,
           Top \in Nat \ {0}, MaxWider \in Nat \ {0}, query \in SUBSET Words,
           Match!Screened = {"OFAC", "index"}, NEW page \in Match!Pages,
           \/ Match!OnOfac(query)
           \/ \E r \in rows : r.words = query /\ ~(r.repeats /\ Cardinality(query) = 1)
    PROVE  Match!Kept(Match!OfacMatches \cup Match!IndexFound(page)) # {}
<1>1. ~Match!Weak(query) /\ Match!OfacScreened /\ Match!IndexScreened
  BY DEF Match!Screened
<1>2. "sdn" \in got /\ "alt" \in got /\ "exact" \in got
  BY <1>1 DEF Match!OfacScreened, Match!IndexScreened
<1>3. Match!Kept(Match!OfacMatches \cup Match!IndexFound(page)) = Match!OfacMatches \cup Match!IndexFound(page)
  BY <1>1 DEF Match!Kept
<1>4. CASE Match!OnOfac(query)
  BY <1>1, <1>2, <1>3, <1>4, MatchFound, MatchRanked
<1>5. ASSUME NEW r \in rows, r.words = query, ~(r.repeats /\ Cardinality(query) = 1)
      PROVE  Match!IndexFound(page) # {}
  <2> DEFINE x == [words |-> r.words, list |-> "index"]
  <2>1. CASE ~r.repeats
    <3>1. r \in Match!ExactRows
      BY <1>5, <2>1 DEF Match!ExactRows
    <3>2. x \in Match!IndexFound(page)
      BY <1>2, <3>1 DEF Match!IndexFound
    <3> QED BY <3>2
  <2>2. CASE r.repeats
    <3>1. IsFiniteSet(query) /\ Cardinality(query) \in Nat /\ Cardinality(query) # 1
      BY <1>5, <2>2, FS_Subset, FS_CardinalityType
    <3>2. Cardinality(query) # 0
      <4>1. query # {}
        BY <1>1, MatchWords
      <4> QED BY <3>1, <4>1, FS_EmptySet
    <3>3. Match!WideAsked
      BY <1>1, <3>1, <3>2, MatchCounts DEF Match!WideAsked
    <3>4. r \in Match!WideRows
      BY <1>5 DEF Match!WideRows
    <3>5. page # {}
      <4>1. page = Match!WideRows \/ Match!Cardinality(page) = MaxWider
        BY DEF Match!Pages
      <4> QED BY <3>4, <4>1, MatchCounts, FS_EmptySet
    <3>6. PICK y \in page : TRUE
      BY <3>5
    <3>7. "wide" \in got
      BY <1>1, <3>3 DEF Match!IndexScreened
    <3>8. [words |-> y.words, list |-> "index"] \in Match!IndexFound(page)
      BY <1>2, <3>3, <3>6, <3>7 DEF Match!IndexFound
    <3> QED BY <3>8
  <2> QED BY <2>1, <2>2
<1> QED BY <1>3, <1>4, <1>5

\* A match is listed under exactly the words of the name, and the name tells
\* who is meant.
LEMMA MatchAsserted ==
    ASSUME IsFiniteSet(Words), Generic \subseteq Words, ListsType, query \in SUBSET Words,
           NEW page \in Match!Pages,
           NEW f \in Match!Kept(Match!OfacMatches \cup Match!IndexFound(page)), Match!Asserts(f)
    PROVE  /\ \/ "sdn" \in got /\ Match!OnOfac(query)
              \/ "exact" \in got /\ \E r \in rows : r.words = query
           /\ Cardinality(query) > 1
           /\ \E w \in query : w \notin Generic /\ w \notin Short
<1>1. f.words = query /\ ~Match!SingleWord(query) /\ ~Match!Weak(query)
  BY DEF Match!Asserts
<1>2. f \in Match!OfacMatches \cup Match!IndexFound(page)
  BY <1>1 DEF Match!Kept
<1>3. ASSUME f \in Match!OfacMatches PROVE "sdn" \in got /\ Match!OnOfac(query)
  <2>1. "sdn" \in got /\ \E i \in Match!Matching : f.words = Match!Best(i)
    BY <1>3 DEF Match!OfacMatches
  <2>2. PICK i \in Match!Matching : f.words = Match!Best(i)
    BY <2>1
  <2>3. i \in DOMAIN ofac
    BY DEF Match!Matching
  <2>4. \E k \in DOMAIN ofac[i] : ofac[i][k] = Match!Best(i)
    BY <2>3, MatchScored
  <2> QED BY <1>1, <2>1, <2>2, <2>3, <2>4 DEF Match!OnOfac
<1>4. ASSUME f \in Match!IndexFound(page)
      PROVE  "exact" \in got /\ \E r \in rows : r.words = query
  <2>1. page \subseteq rows
    BY DEF Match!Pages, Match!WideRows
  <2>2. "exact" \in got /\ \E r \in rows : f.words = r.words
    BY <1>4, <2>1 DEF Match!IndexFound, Match!ExactRows
  <2> QED BY <1>1, <2>2
<1>5. \E w \in query : w \notin Generic /\ w \notin Short
  BY <1>1, MatchWords
<1>6. Cardinality(query) > 1
  <2>1. IsFiniteSet(query) /\ Cardinality(query) \in Nat /\ Cardinality(query) # 1
    BY <1>1, MatchCounts, FS_Subset, FS_CardinalityType DEF Match!SingleWord
  <2>2. Cardinality(query) # 0
    BY <1>5, <2>1, FS_EmptySet
  <2> QED BY <2>1, <2>2
<1> QED BY <1>2, <1>3, <1>4, <1>5, <1>6

\* What is found is a name of one of the two lists.
LEMMA MatchFindings ==
    ASSUME IsFiniteSet(Words), Generic \subseteq Words, ListsType, query \in SUBSET Words,
           NEW page \in Match!Pages
    PROVE  Match!OfacMatches \cup Match!IndexFound(page) \subseteq Match!Finding
<1>1. Match!Finding = [words : ListedName, list : {"OFAC", "index"}]
  BY DEF Match!Finding, Match!Name, ListedName
<1>2. \A i \in Match!Matching : Match!Best(i) \in ListedName
  <2> SUFFICES ASSUME NEW i \in Match!Matching PROVE Match!Best(i) \in ListedName
    OBVIOUS
  <2>1. i \in DOMAIN ofac
    BY DEF Match!Matching
  <2>2. ofac[i] \in Seq(ListedName)
    BY <2>1 DEF ListsType
  <2>3. PICK k \in DOMAIN ofac[i] : ofac[i][k] = Match!Best(i)
    BY <2>1, MatchScored
  <2> QED BY <2>2, <2>3
<1>3. Match!OfacMatches \subseteq Match!Finding
  BY <1>1, <1>2 DEF Match!OfacMatches
<1>4. Match!IndexFound(page) \subseteq Match!Finding
  <2>1. page \subseteq rows
    BY DEF Match!Pages, Match!WideRows
  <2> QED BY <1>1, <2>1 DEF Match!IndexFound, Match!ExactRows, ListsType
<1> QED BY <1>3, <1>4

\* What an answer says.
MatchSays(x) ==
    /\ x.status \in {"hit", "not_screened", "candidates", "clean", "partial"}
    /\ x.matches \cup x.candidates \subseteq Match!Finding
    /\ x.complete \in BOOLEAN
    /\ x.status = "hit" => x.matches # {}
    /\ x.status = "clean" => x.complete = TRUE /\ x.matches \cup x.candidates = {}
    /\ x.complete = TRUE =>
          /\ {"sdn", "alt", "exact"} \subseteq got /\ rows # {}
          /\ \/ Match!OnOfac(query)
             \/ \E r \in rows : r.words = query /\ ~(r.repeats /\ Cardinality(query) = 1)
             => x.matches \cup x.candidates # {}
    /\ x.matches # {} =>
          /\ \/ "sdn" \in got /\ Match!OnOfac(query)
             \/ "exact" \in got /\ \E r \in rows : r.words = query
          /\ Cardinality(query) > 1
          /\ \E w \in query : w \notin Generic /\ w \notin Short

LEMMA MatchResult ==
    ASSUME IsFiniteSet(Words), Generic \subseteq Words, ListsType, Percent \in 1..100,
           Top \in Nat \ {0}, MaxWider \in Nat \ {0}, query \in SUBSET Words,
           NEW page \in Match!Pages, NEW x, x = Match!Result(page)
    PROVE  MatchSays(x)
<1> DEFINE found == Match!Kept(Match!OfacMatches \cup Match!IndexFound(page))
           matched == {f \in found : Match!Asserts(f)}
           weaker == found \ matched
           both == Match!Screened = {"OFAC", "index"}
<1>1. x = [status |-> Match!Status(matched, weaker, Match!Screened), matches |-> matched,
           candidates |-> weaker, complete |-> both]
  BY DEF Match!Result
<1>2. /\ x.status = Match!Status(matched, weaker, Match!Screened)
      /\ x.matches = matched /\ x.candidates = weaker /\ x.complete = both
  BY <1>1
<1>3. matched \cup weaker = found
  OBVIOUS
<1>4. both => /\ {"sdn", "alt", "exact"} \subseteq got /\ rows # {}
              /\ \/ Match!OnOfac(query)
                 \/ \E r \in rows : r.words = query /\ ~(r.repeats /\ Cardinality(query) = 1)
                 => found # {}
  <2>1. both => {"sdn", "alt", "exact"} \subseteq got /\ rows # {}
    BY DEF Match!Screened, Match!OfacScreened, Match!IndexScreened
  <2>2. both /\ (\/ Match!OnOfac(query)
                 \/ \E r \in rows : r.words = query /\ ~(r.repeats /\ Cardinality(query) = 1))
        => found # {}
    BY MatchShown
  <2> QED BY <2>1, <2>2
<1>5. matched # {} =>
         /\ \/ "sdn" \in got /\ Match!OnOfac(query)
            \/ "exact" \in got /\ \E r \in rows : r.words = query
         /\ Cardinality(query) > 1
         /\ \E w \in query : w \notin Generic /\ w \notin Short
  BY MatchAsserted
<1>6. found \subseteq Match!Finding
  BY MatchFindings DEF Match!Kept
<1>7. /\ x.status \in {"hit", "not_screened", "candidates", "clean", "partial"}
      /\ x.status = "hit" => matched # {}
      /\ x.status = "clean" => both /\ matched = {} /\ weaker = {}
  <2> HIDE DEF matched, weaker
  <2> QED BY <1>2 DEF Match!Status
<1> HIDE DEF matched, weaker, both, found
<1>8. x.complete \in BOOLEAN
  BY <1>2 DEF both
<1>9. (x.complete = TRUE) = both
  BY <1>2 DEF both
<1> QED BY <1>2, <1>3, <1>4, <1>5, <1>6, <1>7, <1>8, <1>9 DEF MatchSays


-----------------------------------------------------------------------------
(***************************************************************************)
(* The answer to one name.                                                 *)
(***************************************************************************)

LEMMA MatchBounds ==
    Match!NameMatchAssumption =>
        /\ IsFiniteSet(Words) /\ Generic \subseteq Words /\ Percent \in 1..100
        /\ Top \in Nat \ {0} /\ MaxWider \in Nat \ {0}
        /\ \A l \in Lists :
              /\ l.rows \subseteq Match!Row
              /\ l.ofac \in Seq(Match!Entity) /\ \A i \in DOMAIN l.ofac : l.ofac[i] # <<>>
<1>1. \A S : Match!IsFiniteSet(S) = IsFiniteSet(S)
  BY Zenon DEF Match!IsFiniteSet, IsFiniteSet
<1> QED BY <1>1 DEF Match!NameMatchAssumption

LEMMA MatchLists ==
    /\ Match!Row = [words : ListedName, repeats : BOOLEAN]
    /\ Match!Entity = Seq(ListedName)
BY DEF Match!Row, Match!Entity, Match!Name, ListedName

\* The strengthening of CleanMeansUnlisted and HitsAreExact: the lists are as
\* they were loaded.
MatchInv == ListsType /\ Match!TypeOK /\ CleanMeansUnlisted /\ HitsAreExact

\* The lists are loaded, and nothing was answered.
LEMMA MatchInvStarts ==
    ASSUME ListsType, query \in SUBSET Words, got \subseteq Match!Sources, answer = Match!NoAnswer
    PROVE  MatchInv
<1>1. answer = [status |-> "none"]
  BY DEF Match!NoAnswer
<1>2. CleanMeansUnlisted /\ HitsAreExact
  BY <1>1 DEF CleanMeansUnlisted, HitsAreExact, Match!CleanMeansUnlisted, Match!HitsAreExact
<1>3. Match!TypeOK
  BY MatchLists DEF Match!TypeOK, ListsType
<1> QED BY <1>2, <1>3 DEF MatchInv

LEMMA MatchInvInitially ==
    ASSUME Match!NameMatchAssumption
    PROVE  Match!Init => MatchInv
<1> SUFFICES ASSUME Match!Init PROVE MatchInv
  OBVIOUS
<1>1. ListsType
  BY MatchBounds, MatchLists DEF Match!Init, ListsType
<1>2. query \in SUBSET Words /\ got \subseteq Match!Sources /\ answer = Match!NoAnswer
  BY DEF Match!Init
<1> QED BY <1>1, <1>2, MatchInvStarts

LEMMA MatchInvStep ==
    ASSUME Match!NameMatchAssumption
    PROVE  MatchInv /\ [Match!Next]_Match!vars => MatchInv'
<1> SUFFICES ASSUME MatchInv, [Match!Next]_Match!vars PROVE MatchInv'
  OBVIOUS
<1>1. CASE Match!Screen
  <2>1. UNCHANGED <<query, ofac, rows, got>>
    BY <1>1 DEF Match!Screen
  <2>2. PICK page \in Match!Pages : answer' = Match!Result(page)
    BY <1>1 DEF Match!Screen
  <2>3. ListsType /\ query \in SUBSET Words
    BY DEF MatchInv, Match!TypeOK
  <2> DEFINE x == answer'
  <2>4. MatchSays(x)
    BY <2>2, <2>3, MatchBounds, MatchResult
  <2>5. Match!OnOfac(query)' = Match!OnOfac(query) /\ Match!SingleWord(query)' = Match!SingleWord(query)
        /\ (Match!SingleWord(query) <=> Cardinality(query) = 1)
        /\ Match!Cardinality(query') = Cardinality(query)
    BY <2>1, MatchCounts DEF Match!OnOfac, Match!SingleWord
  <2>6. CleanMeansUnlisted'
    <3> SUFFICES ASSUME answer'.status = "clean"
                 PROVE  /\ {"sdn", "alt", "exact"} \subseteq got /\ rows # {}
                        /\ ~Match!OnOfac(query)
                        /\ \A r \in rows : r.words = query => r.repeats /\ Match!SingleWord(query)
      BY <2>1, <2>5 DEF CleanMeansUnlisted, Match!CleanMeansUnlisted
    <3> QED BY <2>4, <2>5 DEF MatchSays
  <2>7. HitsAreExact'
    <3> SUFFICES ASSUME answer'.status = "hit"
                 PROVE  /\ \/ "sdn" \in got /\ Match!OnOfac(query)
                           \/ "exact" \in got /\ \E r \in rows : r.words = query
                        /\ Cardinality(query) > 1
                        /\ \E w \in query : w \notin Generic /\ w \notin Short
      BY <2>1, <2>5 DEF HitsAreExact, Match!HitsAreExact
    <3> QED BY <2>4 DEF MatchSays
  <2>8. ListsType'
    BY <2>1, <2>3 DEF ListsType
  <2>9. Match!TypeOK'
    BY <2>1, <2>4 DEF MatchSays, MatchInv, Match!TypeOK
  <2> QED BY <2>6, <2>7, <2>8, <2>9 DEF MatchInv
<1>2. CASE UNCHANGED Match!vars
  <2>1. UNCHANGED <<query, ofac, rows, got, answer>>
    BY <1>2 DEF Match!vars
  <2> QED BY <2>1 DEF MatchInv, ListsType, Match!TypeOK, CleanMeansUnlisted, HitsAreExact,
                      Match!CleanMeansUnlisted, Match!HitsAreExact, Match!OnOfac,
                      Match!SingleWord
<1> QED BY <1>1, <1>2 DEF Match!Next

LEMMA MatchInvHolds ==
    ASSUME Match!NameMatchAssumption
    PROVE  Match!Spec => []MatchInv
BY MatchInvInitially, MatchInvStep, PTL DEF Match!Spec

\* Clean means that every list was asked and none has the name, for any lists
\* and any words, however few matches are kept.
THEOREM CleanIsUnlisted ==
    ASSUME Match!NameMatchAssumption
    PROVE  Match!Spec => []CleanMeansUnlisted
<1>1. MatchInv => CleanMeansUnlisted
  BY DEF MatchInv
<1> QED BY <1>1, MatchInvHolds, PTL

\* A hit is listed under exactly the words of the name that was screened.
THEOREM HitsAreListed ==
    ASSUME Match!NameMatchAssumption
    PROVE  Match!Spec => []HitsAreExact
<1>1. MatchInv => HitsAreExact
  BY DEF MatchInv
<1> QED BY <1>1, MatchInvHolds, PTL

-----------------------------------------------------------------------------
(***************************************************************************)
(* What is found under the name of a party: Trade!Screening(p).            *)
(***************************************************************************)

LEMMA PartyCounts == \A p : \A S : Trade!Screening(p)!Cardinality(S) = Cardinality(S)
BY Zenon DEF Trade!Screening!Cardinality, Cardinality

\* The words that count of any name.
LEMMA PartyWords ==
    ASSUME IsFiniteSet(Words), Generic \subseteq Words, NEW p \in Named, NEW n \in SUBSET Words
    PROVE  /\ Trade!Screening(p)!Basis(n) \subseteq Words /\ Trade!Screening(p)!Basis(n) \subseteq n
           /\ IsFiniteSet(Trade!Screening(p)!Basis(n)) /\ Cardinality(Trade!Screening(p)!Basis(n)) \in Nat
           /\ ~Trade!Screening(p)!Weak(n) => /\ Cardinality(Trade!Screening(p)!Basis(n)) >= 1
                           /\ \E w \in n : w \notin Generic /\ w \notin Short
<1>1. Trade!Screening(p)!Basis(n) \subseteq n
  BY DEF Trade!Screening!Basis, Trade!Screening!Distinctive
<1>2. IsFiniteSet(Trade!Screening(p)!Basis(n)) /\ Cardinality(Trade!Screening(p)!Basis(n)) \in Nat
  BY <1>1, FS_Subset, FS_CardinalityType
<1>3. ASSUME ~Trade!Screening(p)!Weak(n)
      PROVE  /\ Cardinality(Trade!Screening(p)!Basis(n)) >= 1
             /\ \E w \in n : w \notin Generic /\ w \notin Short
  <2>1. PICK w \in Trade!Screening(p)!Basis(n) : w \notin Short
    BY <1>3 DEF Trade!Screening!Weak
  <2>2. Trade!Screening(p)!Basis(n) = Trade!Screening(p)!Distinctive(n)
    BY <1>3 DEF Trade!Screening!Weak, Trade!Screening!Basis
  <2>3. Cardinality(Trade!Screening(p)!Basis(n)) # 0
    BY <1>2, <2>1, FS_EmptySet
  <2> QED BY <1>2, <2>1, <2>2, <2>3 DEF Trade!Screening!Distinctive
<1> QED BY <1>1, <1>2, <1>3

\* A name has a score, and its own is the number of the words that count.
LEMMA PartyOverlaps ==
    ASSUME IsFiniteSet(Words), Generic \subseteq Words, NEW p \in Named,
           NEW q \in SUBSET Words, NEW n \in SUBSET Words
    PROVE  /\ Trade!Screening(p)!Overlap(q, n) \in Nat /\ Trade!Screening(p)!Overlap(q, n) <= Cardinality(Words)
           /\ ~Trade!Screening(p)!Weak(q) => Trade!Screening(p)!Overlap(q, q) = Cardinality(Trade!Screening(p)!Basis(q))
<1>1. /\ IsFiniteSet(Trade!Screening(p)!Basis(q) \cap Trade!Screening(p)!Basis(n))
      /\ Cardinality(Trade!Screening(p)!Basis(q) \cap Trade!Screening(p)!Basis(n)) \in Nat
      /\ Cardinality(Trade!Screening(p)!Basis(q) \cap Trade!Screening(p)!Basis(n)) <= Cardinality(Words)
      /\ Cardinality(Words) \in Nat
  <2>1. Trade!Screening(p)!Basis(q) \cap Trade!Screening(p)!Basis(n) \subseteq Words
    BY PartyWords
  <2> QED BY <2>1, FS_Subset, FS_CardinalityType
<1>2. Trade!Screening(p)!Overlap(q, n) = IF Trade!Screening(p)!Comparable(q, n) THEN Cardinality(Trade!Screening(p)!Basis(q) \cap Trade!Screening(p)!Basis(n)) ELSE 0
  BY PartyCounts DEF Trade!Screening!Overlap
<1>3. ~Trade!Screening(p)!Weak(q) => Trade!Screening(p)!Overlap(q, q) = Cardinality(Trade!Screening(p)!Basis(q))
  <2>1. ~Trade!Screening(p)!Weak(q) => Trade!Screening(p)!Comparable(q, q)
    BY DEF Trade!Screening!Weak, Trade!Screening!Comparable
  <2>2. Trade!Screening(p)!Basis(q) \cap Trade!Screening(p)!Basis(q) = Trade!Screening(p)!Basis(q)
    OBVIOUS
  <2> QED BY <2>1, <2>2, PartyCounts DEF Trade!Screening!Overlap
<1> QED BY <1>1, <1>2, <1>3

\* The names of an entity that are compared are names of the entity.
LEMMA PartyNames ==
    ASSUME ListsType, NEW p \in Named, NEW i \in DOMAIN ofac
    PROVE  /\ Len(Trade!Screening(p)!Names(ofac[i])) \in Nat \ {0}
           /\ DOMAIN Trade!Screening(p)!Names(ofac[i]) = 1..Len(Trade!Screening(p)!Names(ofac[i]))
           /\ \A k \in DOMAIN Trade!Screening(p)!Names(ofac[i]) :
                 /\ Trade!Screening(p)!Names(ofac[i])[k] \in SUBSET Words
                 /\ k \in DOMAIN ofac[i] /\ Trade!Screening(p)!Names(ofac[i])[k] = ofac[i][k]
<1>1. ofac[i] \in Seq(ListedName) /\ ofac[i] # <<>>
  BY DEF ListsType
<1>2. CASE "alt" \in reach[p]
  BY <1>1, <1>2 DEF Trade!Screening!Names, ListedName
<1>3. CASE "alt" \notin reach[p]
  <2>1. Len(ofac[i]) \in Nat /\ Len(ofac[i]) >= 1 /\ DOMAIN ofac[i] = 1..Len(ofac[i])
    BY <1>1
  <2>2. ofac[i][1] \in ListedName
    BY <1>1, <2>1
  <2>3. /\ SubSeq(ofac[i], 1, 1) \in Seq(ListedName) /\ Len(SubSeq(ofac[i], 1, 1)) = 1
        /\ SubSeq(ofac[i], 1, 1)[1] = ofac[i][1]
    BY <2>2, SubSeqProperties
  <2>4. Trade!Screening(p)!Names(ofac[i]) = SubSeq(ofac[i], 1, 1)
    BY <1>3 DEF Trade!Screening!Names
  <2>5. DOMAIN SubSeq(ofac[i], 1, 1) = 1..1
    BY <2>3
  <2> QED BY <2>1, <2>2, <2>3, <2>4, <2>5 DEF ListedName
<1> QED BY <1>2, <1>3

\* An entity is reported under one of its names, which scores the best.
LEMMA PartyScored ==
    ASSUME IsFiniteSet(Words), Generic \subseteq Words, ListsType, NEW p \in Named, p \in SUBSET Words,
           NEW i \in DOMAIN ofac
    PROVE  /\ Trade!Screening(p)!Score(i) \in Nat /\ Trade!Screening(p)!Score(i) <= Cardinality(Words)
           /\ \A k \in DOMAIN Trade!Screening(p)!Names(ofac[i]) :
                 Trade!Screening(p)!Overlap(p, Trade!Screening(p)!Names(ofac[i])[k]) <= Trade!Screening(p)!Score(i)
           /\ \E k \in DOMAIN ofac[i] : ofac[i][k] = Trade!Screening(p)!Best(i)
<1> DEFINE names == Trade!Screening(p)!Names(ofac[i])
           n == Len(names)
           sc == [k \in 1..n |-> Trade!Screening(p)!Overlap(p, names[k])]
<1>1. /\ n \in Nat \ {0} /\ DOMAIN names = 1..n
      /\ \A k \in 1..n : /\ names[k] \in SUBSET Words
                         /\ k \in DOMAIN ofac[i] /\ names[k] = ofac[i][k]
  BY PartyNames
<1>2. \A k \in 1..n : sc[k] \in Nat /\ sc[k] <= Cardinality(Words)
  BY <1>1, PartyOverlaps
<1>3. Cardinality(Words) \in Nat
  BY FS_CardinalityType
<1>4. PICK j \in 1..n : \A k \in 1..n : sc[k] <= sc[j] /\ (sc[k] = sc[j] => j <= k)
  <2> DEFINE all == 1..n
  <2>1. all \subseteq Nat /\ all # {}
    BY <1>1
  <2>2. sc \in [all -> Nat] /\ \A k \in all : sc[k] <= Cardinality(Words)
    BY <1>2
  <2> HIDE DEF sc
  <2>3. \E j \in all : \A k \in all : sc[k] <= sc[j] /\ (sc[k] = sc[j] => j <= k)
    <3> HIDE DEF all
    <3> QED BY <1>3, <2>1, <2>2, TopRank
  <2> QED BY <2>3
<1>5. Trade!Screening(p)!Scores(i) = {sc[k] : k \in 1..n}
  BY <1>1 DEF Trade!Screening!Scores
<1>6. Trade!Screening(p)!Score(i) = sc[j]
  <2> HIDE DEF sc, n, names
  <2>1. sc[j] \in Trade!Screening(p)!Scores(i) /\ \A m \in Trade!Screening(p)!Scores(i) : sc[j] >= m
    BY <1>2, <1>4, <1>5
  <2>2. Trade!Screening(p)!Scores(i) \subseteq Nat
    BY <1>2, <1>5
  <2>3. \A x \in Trade!Screening(p)!Scores(i) : (\A m \in Trade!Screening(p)!Scores(i) : x >= m) => x = sc[j]
    <3> SUFFICES ASSUME NEW x \in Trade!Screening(p)!Scores(i), \A m \in Trade!Screening(p)!Scores(i) : x >= m
                 PROVE  x = sc[j]
      OBVIOUS
    <3>1. x >= sc[j] /\ sc[j] >= x /\ x \in Nat /\ sc[j] \in Nat
      BY <2>1, <2>2
    <3> QED BY <3>1
  <2> QED BY <2>1, <2>3 DEF Trade!Screening!Score
<1>7. \E k \in DOMAIN names : Trade!Screening(p)!Best(i) = names[k]
  <2>1. /\ j \in DOMAIN names /\ Trade!Screening(p)!Overlap(p, names[j]) = Trade!Screening(p)!Score(i)
        /\ \A k \in 1..(j - 1) : Trade!Screening(p)!Overlap(p, names[k]) < Trade!Screening(p)!Score(i)
    <3>1. \A k \in 1..(j - 1) : k \in 1..n /\ k < j
      BY <1>1
    <3>2. \A k \in 1..(j - 1) : sc[k] < sc[j]
      <4> HIDE DEF sc, n
      <4> QED BY <1>2, <1>4, <3>1
    <3>3. j \in DOMAIN names /\ Trade!Screening(p)!Overlap(p, names[j]) = sc[j]
      BY <1>1
    <3>4. \A k \in 1..(j - 1) : Trade!Screening(p)!Overlap(p, names[k]) = sc[k]
      BY <3>1
    <3> HIDE DEF sc, n, names
    <3> QED BY <1>6, <3>2, <3>3, <3>4
  <2>2. Trade!Screening(p)!Best(i) = names[CHOOSE k \in DOMAIN names :
            /\ Trade!Screening(p)!Overlap(p, names[k]) = Trade!Screening(p)!Score(i)
            /\ \A l \in 1..(k - 1) : Trade!Screening(p)!Overlap(p, names[l]) < Trade!Screening(p)!Score(i)]
    BY DEF Trade!Screening!Best
  <2> HIDE DEF names, n, sc
  <2> QED BY <2>1, <2>2
<1>8. \A k \in DOMAIN names : Trade!Screening(p)!Overlap(p, names[k]) <= Trade!Screening(p)!Score(i)
  <2>1. \A k \in 1..n : Trade!Screening(p)!Overlap(p, names[k]) = sc[k]
    OBVIOUS
  <2> HIDE DEF names, n, sc
  <2> QED BY <1>1, <1>4, <1>6, <2>1
<1> QED BY <1>1, <1>2, <1>6, <1>7, <1>8

\* If an entity matches, some entity is kept among the first.
LEMMA PartyRanked ==
    ASSUME IsFiniteSet(Words), Generic \subseteq Words, ListsType, Top \in Nat \ {0}, NEW p \in Named,
           p \in SUBSET Words, "sdn" \in reach[p], Trade!Screening(p)!Matching # {}
    PROVE  Trade!Screening(p)!OfacMatches # {}
<1> DEFINE sc == [i \in Trade!Screening(p)!Matching |-> Trade!Screening(p)!Score(i)]
<1>1. Trade!Screening(p)!Matching \subseteq DOMAIN ofac /\ DOMAIN ofac \subseteq Nat
  BY DEF Trade!Screening!Matching, ListsType
<1>2. \A i \in Trade!Screening(p)!Matching : Trade!Screening(p)!Score(i) \in Nat /\ Trade!Screening(p)!Score(i) <= Cardinality(Words)
  BY <1>1, PartyScored
<1>3. Cardinality(Words) \in Nat
  BY FS_CardinalityType
<1>4. PICK j \in Trade!Screening(p)!Matching : \A k \in Trade!Screening(p)!Matching : sc[k] <= sc[j] /\ (sc[k] = sc[j] => j <= k)
  <2>1. Trade!Screening(p)!Matching \subseteq Nat /\ sc \in [Trade!Screening(p)!Matching -> Nat]
        /\ \A k \in Trade!Screening(p)!Matching : sc[k] <= Cardinality(Words)
    BY <1>1, <1>2
  <2> HIDE DEF sc
  <2> QED BY <1>3, <2>1, TopRank
<1>5. \A k \in Trade!Screening(p)!Matching : Trade!Screening(p)!Score(k) <= Trade!Screening(p)!Score(j) /\ (Trade!Screening(p)!Score(k) = Trade!Screening(p)!Score(j) => j <= k)
  BY <1>4
<1>6. Trade!Screening(p)!Before(j) = {}
  BY <1>1, <1>2, <1>5 DEF Trade!Screening!Before
<1>7. Trade!Screening(p)!Cardinality(Trade!Screening(p)!Before(j)) < Top
  BY <1>6, PartyCounts, FS_EmptySet
<1> QED BY <1>7 DEF Trade!Screening!OfacMatches

\* Who is in the file under the name that is screened matches, unless the
\* name is a weak one.
LEMMA PartyFound ==
    ASSUME IsFiniteSet(Words), Generic \subseteq Words, ListsType, Percent \in 1..100, NEW p \in Named,
           p \in SUBSET Words, ~Trade!Screening(p)!Weak(p), "alt" \in reach[p], Trade!Screening(p)!OnOfac(p)
    PROVE  Trade!Screening(p)!Matching # {}
<1>1. PICK i \in DOMAIN ofac : \E k \in DOMAIN ofac[i] : ofac[i][k] = p
  BY DEF Trade!Screening!OnOfac
<1>2. PICK k \in DOMAIN ofac[i] : ofac[i][k] = p
  BY <1>1
<1>3. Trade!Screening(p)!Names(ofac[i]) = ofac[i]
  BY DEF Trade!Screening!Names
<1> DEFINE most == Cardinality(Trade!Screening(p)!Basis(p))
           score == Trade!Screening(p)!Score(i)
<1>4. Trade!Screening(p)!Overlap(p, p) = most /\ most \in Nat /\ most >= 1
  BY PartyOverlaps, PartyWords
<1>5. Trade!Screening(p)!Overlap(p, Trade!Screening(p)!Names(ofac[i])[k]) <= score /\ score \in Nat
  BY <1>2, <1>3, PartyScored
<1>6. score > 0 /\ most <= score
  BY <1>2, <1>3, <1>4, <1>5
<1>7. 100 * score >= Percent * most
  <2> HIDE DEF most, score
  <2>1. Percent * most <= 100 * most
    BY <1>4
  <2>2. 100 * most <= 100 * score
    BY <1>4, <1>5, <1>6
  <2>3. Percent * most \in Int /\ 100 * most \in Int /\ 100 * score \in Int
    BY <1>4, <1>5
  <2> QED BY <2>1, <2>2, <2>3
<1>8. Trade!Screening(p)!IsMatch(p, Trade!Screening(p)!Score(i))
  BY <1>6, <1>7, PartyCounts DEF Trade!Screening!IsMatch
<1> QED BY <1>8 DEF Trade!Screening!Matching

\* A complete answer shows whoever is listed.
LEMMA PartyShown ==
    ASSUME IsFiniteSet(Words), Generic \subseteq Words, ListsType, Percent \in 1..100,
           Top \in Nat \ {0}, MaxWider \in Nat \ {0}, NEW p \in Named, p \in SUBSET Words,
           Trade!Screening(p)!Screened = {"OFAC", "index"}, NEW page \in Trade!Screening(p)!Pages,
           \/ Trade!Screening(p)!OnOfac(p)
           \/ \E r \in rows : r.words = p /\ ~(r.repeats /\ Cardinality(p) = 1)
    PROVE  Trade!Screening(p)!Kept(Trade!Screening(p)!OfacMatches \cup Trade!Screening(p)!IndexFound(page)) # {}
<1>1. ~Trade!Screening(p)!Weak(p) /\ Trade!Screening(p)!OfacScreened /\ Trade!Screening(p)!IndexScreened
  BY DEF Trade!Screening!Screened
<1>2. "sdn" \in reach[p] /\ "alt" \in reach[p] /\ "exact" \in reach[p]
  BY <1>1 DEF Trade!Screening!OfacScreened, Trade!Screening!IndexScreened
<1>3. Trade!Screening(p)!Kept(Trade!Screening(p)!OfacMatches \cup Trade!Screening(p)!IndexFound(page)) = Trade!Screening(p)!OfacMatches \cup Trade!Screening(p)!IndexFound(page)
  BY <1>1 DEF Trade!Screening!Kept
<1>4. CASE Trade!Screening(p)!OnOfac(p)
  BY <1>1, <1>2, <1>3, <1>4, PartyFound, PartyRanked
<1>5. ASSUME NEW r \in rows, r.words = p, ~(r.repeats /\ Cardinality(p) = 1)
      PROVE  Trade!Screening(p)!IndexFound(page) # {}
  <2> DEFINE x == [words |-> r.words, list |-> "index"]
  <2>1. CASE ~r.repeats
    <3>1. r \in Trade!Screening(p)!ExactRows
      BY <1>5, <2>1 DEF Trade!Screening!ExactRows
    <3>2. x \in Trade!Screening(p)!IndexFound(page)
      BY <1>2, <3>1 DEF Trade!Screening!IndexFound
    <3> QED BY <3>2
  <2>2. CASE r.repeats
    <3>1. IsFiniteSet(p) /\ Cardinality(p) \in Nat /\ Cardinality(p) # 1
      BY <1>5, <2>2, FS_Subset, FS_CardinalityType
    <3>2. Cardinality(p) # 0
      <4>1. p # {}
        BY <1>1, PartyWords
      <4> QED BY <3>1, <4>1, FS_EmptySet
    <3>3. Trade!Screening(p)!WideAsked
      BY <1>1, <3>1, <3>2, PartyCounts DEF Trade!Screening!WideAsked
    <3>4. r \in Trade!Screening(p)!WideRows
      BY <1>5 DEF Trade!Screening!WideRows
    <3>5. page # {}
      <4>1. page = Trade!Screening(p)!WideRows \/ Trade!Screening(p)!Cardinality(page) = MaxWider
        BY DEF Trade!Screening!Pages
      <4> QED BY <3>4, <4>1, PartyCounts, FS_EmptySet
    <3>6. PICK y \in page : TRUE
      BY <3>5
    <3>7. "wide" \in reach[p]
      BY <1>1, <3>3 DEF Trade!Screening!IndexScreened
    <3>8. [words |-> y.words, list |-> "index"] \in Trade!Screening(p)!IndexFound(page)
      BY <1>2, <3>3, <3>6, <3>7 DEF Trade!Screening!IndexFound
    <3> QED BY <3>8
  <2> QED BY <2>1, <2>2
<1> QED BY <1>3, <1>4, <1>5

\* A match is listed under exactly the words of the name, and the name tells
\* who is meant.
LEMMA PartyAsserted ==
    ASSUME IsFiniteSet(Words), Generic \subseteq Words, ListsType, NEW p \in Named, p \in SUBSET Words,
           NEW page \in Trade!Screening(p)!Pages,
           NEW f \in Trade!Screening(p)!Kept(Trade!Screening(p)!OfacMatches \cup Trade!Screening(p)!IndexFound(page)), Trade!Screening(p)!Asserts(f)
    PROVE  /\ \/ "sdn" \in reach[p] /\ Trade!Screening(p)!OnOfac(p)
              \/ "exact" \in reach[p] /\ \E r \in rows : r.words = p
           /\ Cardinality(p) > 1
           /\ \E w \in p : w \notin Generic /\ w \notin Short
<1>1. f.words = p /\ ~Trade!Screening(p)!SingleWord(p) /\ ~Trade!Screening(p)!Weak(p)
  BY DEF Trade!Screening!Asserts
<1>2. f \in Trade!Screening(p)!OfacMatches \cup Trade!Screening(p)!IndexFound(page)
  BY <1>1 DEF Trade!Screening!Kept
<1>3. ASSUME f \in Trade!Screening(p)!OfacMatches PROVE "sdn" \in reach[p] /\ Trade!Screening(p)!OnOfac(p)
  <2>1. "sdn" \in reach[p] /\ \E i \in Trade!Screening(p)!Matching : f.words = Trade!Screening(p)!Best(i)
    BY <1>3 DEF Trade!Screening!OfacMatches
  <2>2. PICK i \in Trade!Screening(p)!Matching : f.words = Trade!Screening(p)!Best(i)
    BY <2>1
  <2>3. i \in DOMAIN ofac
    BY DEF Trade!Screening!Matching
  <2>4. \E k \in DOMAIN ofac[i] : ofac[i][k] = Trade!Screening(p)!Best(i)
    BY <2>3, PartyScored
  <2> QED BY <1>1, <2>1, <2>2, <2>3, <2>4 DEF Trade!Screening!OnOfac
<1>4. ASSUME f \in Trade!Screening(p)!IndexFound(page)
      PROVE  "exact" \in reach[p] /\ \E r \in rows : r.words = p
  <2>1. page \subseteq rows
    BY DEF Trade!Screening!Pages, Trade!Screening!WideRows
  <2>2. "exact" \in reach[p] /\ \E r \in rows : f.words = r.words
    BY <1>4, <2>1 DEF Trade!Screening!IndexFound, Trade!Screening!ExactRows
  <2> QED BY <1>1, <2>2
<1>5. \E w \in p : w \notin Generic /\ w \notin Short
  BY <1>1, PartyWords
<1>6. Cardinality(p) > 1
  <2>1. IsFiniteSet(p) /\ Cardinality(p) \in Nat /\ Cardinality(p) # 1
    BY <1>1, PartyCounts, FS_Subset, FS_CardinalityType DEF Trade!Screening!SingleWord
  <2>2. Cardinality(p) # 0
    BY <1>5, <2>1, FS_EmptySet
  <2> QED BY <2>1, <2>2
<1> QED BY <1>2, <1>3, <1>4, <1>5, <1>6

\* What is found is a name of one of the two lists.
LEMMA PartyFindings ==
    ASSUME IsFiniteSet(Words), Generic \subseteq Words, ListsType, NEW p \in Named, p \in SUBSET Words,
           NEW page \in Trade!Screening(p)!Pages
    PROVE  Trade!Screening(p)!OfacMatches \cup Trade!Screening(p)!IndexFound(page) \subseteq Trade!Screening(p)!Finding
<1>1. Trade!Screening(p)!Finding = [words : ListedName, list : {"OFAC", "index"}]
  BY DEF Trade!Screening!Finding, Trade!Screening!Name, ListedName
<1>2. \A i \in Trade!Screening(p)!Matching : Trade!Screening(p)!Best(i) \in ListedName
  <2> SUFFICES ASSUME NEW i \in Trade!Screening(p)!Matching PROVE Trade!Screening(p)!Best(i) \in ListedName
    OBVIOUS
  <2>1. i \in DOMAIN ofac
    BY DEF Trade!Screening!Matching
  <2>2. ofac[i] \in Seq(ListedName)
    BY <2>1 DEF ListsType
  <2>3. PICK k \in DOMAIN ofac[i] : ofac[i][k] = Trade!Screening(p)!Best(i)
    BY <2>1, PartyScored
  <2> QED BY <2>2, <2>3
<1>3. Trade!Screening(p)!OfacMatches \subseteq Trade!Screening(p)!Finding
  BY <1>1, <1>2 DEF Trade!Screening!OfacMatches
<1>4. Trade!Screening(p)!IndexFound(page) \subseteq Trade!Screening(p)!Finding
  <2>1. page \subseteq rows
    BY DEF Trade!Screening!Pages, Trade!Screening!WideRows
  <2> QED BY <1>1, <2>1 DEF Trade!Screening!IndexFound, Trade!Screening!ExactRows, ListsType
<1> QED BY <1>3, <1>4

\* What an answer says.
PartySays(p, x) ==
    /\ x.status \in {"hit", "not_screened", "candidates", "clean", "partial"}
    /\ x.matches \cup x.candidates \subseteq Trade!Screening(p)!Finding
    /\ x.complete \in BOOLEAN
    /\ x.status = "hit" => x.matches # {}
    /\ x.status = "clean" => x.complete = TRUE /\ x.matches \cup x.candidates = {}
    /\ x.complete = TRUE =>
          /\ {"sdn", "alt", "exact"} \subseteq reach[p] /\ rows # {}
          /\ \/ Trade!Screening(p)!OnOfac(p)
             \/ \E r \in rows : r.words = p /\ ~(r.repeats /\ Cardinality(p) = 1)
             => x.matches \cup x.candidates # {}
    /\ x.matches # {} =>
          /\ \/ "sdn" \in reach[p] /\ Trade!Screening(p)!OnOfac(p)
             \/ "exact" \in reach[p] /\ \E r \in rows : r.words = p
          /\ Cardinality(p) > 1
          /\ \E w \in p : w \notin Generic /\ w \notin Short

LEMMA PartyResult ==
    ASSUME IsFiniteSet(Words), Generic \subseteq Words, ListsType, Percent \in 1..100,
           Top \in Nat \ {0}, MaxWider \in Nat \ {0}, NEW p \in Named, p \in SUBSET Words,
           NEW page \in Trade!Screening(p)!Pages, NEW x, x = Trade!Screening(p)!Result(page)
    PROVE  PartySays(p, x)
<1> DEFINE found == Trade!Screening(p)!Kept(Trade!Screening(p)!OfacMatches \cup Trade!Screening(p)!IndexFound(page))
           matched == {f \in found : Trade!Screening(p)!Asserts(f)}
           weaker == found \ matched
           both == Trade!Screening(p)!Screened = {"OFAC", "index"}
<1>1. x = [status |-> Trade!Screening(p)!Status(matched, weaker, Trade!Screening(p)!Screened), matches |-> matched,
           candidates |-> weaker, complete |-> both]
  BY DEF Trade!Screening!Result
<1>2. /\ x.status = Trade!Screening(p)!Status(matched, weaker, Trade!Screening(p)!Screened)
      /\ x.matches = matched /\ x.candidates = weaker /\ x.complete = both
  BY <1>1
<1>3. matched \cup weaker = found
  OBVIOUS
<1>4. both => /\ {"sdn", "alt", "exact"} \subseteq reach[p] /\ rows # {}
              /\ \/ Trade!Screening(p)!OnOfac(p)
                 \/ \E r \in rows : r.words = p /\ ~(r.repeats /\ Cardinality(p) = 1)
                 => found # {}
  <2>1. both => {"sdn", "alt", "exact"} \subseteq reach[p] /\ rows # {}
    BY DEF Trade!Screening!Screened, Trade!Screening!OfacScreened, Trade!Screening!IndexScreened
  <2>2. both /\ (\/ Trade!Screening(p)!OnOfac(p)
                 \/ \E r \in rows : r.words = p /\ ~(r.repeats /\ Cardinality(p) = 1))
        => found # {}
    BY PartyShown
  <2> QED BY <2>1, <2>2
<1>5. matched # {} =>
         /\ \/ "sdn" \in reach[p] /\ Trade!Screening(p)!OnOfac(p)
            \/ "exact" \in reach[p] /\ \E r \in rows : r.words = p
         /\ Cardinality(p) > 1
         /\ \E w \in p : w \notin Generic /\ w \notin Short
  BY PartyAsserted
<1>6. found \subseteq Trade!Screening(p)!Finding
  BY PartyFindings DEF Trade!Screening!Kept
<1>7. /\ x.status \in {"hit", "not_screened", "candidates", "clean", "partial"}
      /\ x.status = "hit" => matched # {}
      /\ x.status = "clean" => both /\ matched = {} /\ weaker = {}
  <2> HIDE DEF matched, weaker
  <2> QED BY <1>2 DEF Trade!Screening!Status
<1> HIDE DEF matched, weaker, both, found
<1>8. x.complete \in BOOLEAN
  BY <1>2 DEF both
<1>9. (x.complete = TRUE) = both
  BY <1>2 DEF both
<1> QED BY <1>2, <1>3, <1>4, <1>5, <1>6, <1>7, <1>8, <1>9 DEF PartySays


-----------------------------------------------------------------------------
(***************************************************************************)
(* The verdict on a shipment.                                              *)
(***************************************************************************)

LEMMA TradeBounds ==
    Trade!TradeRestrictionAssumption =>
        /\ Named \subseteq SUBSET Words
        /\ IsFiniteSet(Words) /\ Generic \subseteq Words /\ Percent \in 1..100
        /\ Top \in Nat \ {0} /\ MaxWider \in Nat \ {0}
        /\ \A l \in ShipmentLists :
              /\ l.rows \subseteq [words : ListedName, repeats : BOOLEAN]
              /\ l.ofac \in Seq(Seq(ListedName)) /\ \A i \in DOMAIN l.ofac : l.ofac[i] # <<>>
<1>1. \A p, S : Trade!Screening(p)!IsFiniteSet(S) = IsFiniteSet(S)
  BY Zenon DEF Trade!Screening!IsFiniteSet, IsFiniteSet
<1>2. /\ Trade!Screening({})!Row = [words : ListedName, repeats : BOOLEAN]
      /\ Trade!Screening({})!Entity = Seq(ListedName)
  BY DEF Trade!Screening!Row, Trade!Screening!Entity, Trade!Screening!Name, ListedName
<1> QED BY <1>1, <1>2 DEF Trade!TradeRestrictionAssumption, Trade!Screening!NameMatchAssumption

\* What the screen of a party says of the lists.
PartyAnswer(p, x) ==
    /\ x.status \in {"hit", "not_screened", "candidates", "clean", "partial"}
    /\ x.matches \cup x.candidates \subseteq Trade!Screening(p)!Finding
    /\ x.complete \in BOOLEAN
    /\ x.complete = TRUE =>
          /\ {"sdn", "alt", "exact"} \subseteq reach[p] /\ rows # {}
          /\ Trade!Listed(p) => x.matches \cup x.candidates # {}
    /\ x.matches # {} => Trade!Listed(p)

\* The strengthening of VerdictIsTrue: what every screen says is true, and a
\* verdict is given when all have answered.
VerdictInv ==
    /\ ListsType /\ Named \subseteq SUBSET Words
    /\ parties \subseteq Named /\ destination \in Trade!Destination
    /\ reach \in [Named -> SUBSET {"sdn", "alt", "exact", "wide"}]
    /\ answers = [p \in Named |-> answers[p]]
    /\ \A p \in Named : answers[p] # Trade!NoAnswer => PartyAnswer(p, answers[p])
    /\ VerdictIsTrue
    /\ verdict \notin {Trade!NoVerdict, Trade!Refusal} =>
          /\ \A p \in parties : answers[p] # Trade!NoAnswer
          /\ verdict.reason \in {"restricted", "advisory", "partial"}
          /\ verdict.restricted \in BOOLEAN /\ verdict.fullyScreened \in BOOLEAN

LEMMA FailureAnswers == \A p : PartyAnswer(p, Trade!Failure)
BY DEF PartyAnswer, Trade!Failure

LEMMA ScreenAnswers ==
    ASSUME Trade!TradeRestrictionAssumption, ListsType, NEW p \in Named,
           NEW page \in Trade!Screening(p)!Pages
    PROVE  PartyAnswer(p, Trade!Screening(p)!Result(page))
<1>1. PICK x : x = Trade!Screening(p)!Result(page)
  OBVIOUS
<1>2. p \in SUBSET Words
  BY TradeBounds
<1>3. Trade!Listed(p) <=>
        \/ Trade!Screening(p)!OnOfac(p)
        \/ \E r \in rows : r.words = p /\ ~(r.repeats /\ Cardinality(p) = 1)
  <2>1. Trade!Cardinality(p) = Cardinality(p)
    BY Zenon DEF Trade!Cardinality, Cardinality
  <2> QED BY <2>1 DEF Trade!Listed
<1>4. PartySays(p, x)
  <2>1. /\ IsFiniteSet(Words) /\ Generic \subseteq Words /\ Percent \in 1..100
        /\ Top \in Nat \ {0} /\ MaxWider \in Nat \ {0}
    BY TradeBounds
  <2> QED BY <1>1, <1>2, <2>1, PartyResult
<1>5. x.matches # {} => Trade!Listed(p)
  <2> SUFFICES ASSUME x.matches # {} PROVE Trade!Listed(p)
    OBVIOUS
  <2>1. Cardinality(p) # 1
    <3>1. IsFiniteSet(p) /\ Cardinality(p) \in Nat
      BY <1>2, TradeBounds, FS_Subset, FS_CardinalityType
    <3>2. Cardinality(p) > 1
      BY <1>4 DEF PartySays
    <3> QED BY <3>1, <3>2
  <2> QED BY <1>3, <1>4, <2>1 DEF PartySays
<1> QED BY <1>1, <1>3, <1>4, <1>5 DEF PartyAnswer, PartySays

\* The lists are loaded, and no party was screened.
LEMMA VerdictInvStarts ==
    ASSUME ListsType, Named \subseteq SUBSET Words, parties \subseteq Named,
           destination \in Trade!Destination,
           reach \in [Named -> SUBSET {"sdn", "alt", "exact", "wide"}],
           answers = [p \in Named |-> Trade!NoAnswer], verdict = Trade!NoVerdict
    PROVE  VerdictInv
<1>1. VerdictIsTrue
  BY DEF VerdictIsTrue, Trade!VerdictIsTrue
<1> QED BY <1>1 DEF VerdictInv

LEMMA VerdictInvInitially ==
    ASSUME Trade!TradeRestrictionAssumption
    PROVE  Trade!Init => VerdictInv
<1> SUFFICES ASSUME Trade!Init PROVE VerdictInv
  OBVIOUS
<1>1. ListsType /\ Named \subseteq SUBSET Words
  BY TradeBounds DEF Trade!Init, ListsType
<1>2. /\ parties \subseteq Named /\ destination \in Trade!Destination
      /\ reach \in [Named -> SUBSET {"sdn", "alt", "exact", "wide"}]
      /\ answers = [p \in Named |-> Trade!NoAnswer] /\ verdict = Trade!NoVerdict
  BY DEF Trade!Init
<1> QED BY <1>1, <1>2, VerdictInvStarts

LEMMA VerdictInvStep ==
    ASSUME Trade!TradeRestrictionAssumption
    PROVE  VerdictInv /\ [Trade!Next]_Trade!vars => VerdictInv'
<1> SUFFICES ASSUME VerdictInv, [Trade!Next]_Trade!vars PROVE VerdictInv'
  OBVIOUS
<1>0. ASSUME UNCHANGED <<ofac, rows, reach>>
      PROVE  /\ ListsType' /\ \A p : Trade!Listed(p)' = Trade!Listed(p)
             /\ \A p, x : PartyAnswer(p, x) => PartyAnswer(p, x)'
  <2>1. ListsType'
    BY <1>0 DEF VerdictInv, ListsType
  <2>2. \A p : Trade!Listed(p)' = Trade!Listed(p)
    BY <1>0 DEF Trade!Listed, Trade!Screening!OnOfac
  <2> QED BY <1>0, <2>1, <2>2 DEF PartyAnswer
<1>1. CASE Trade!Refuse
  <2>1. /\ UNCHANGED <<ofac, rows, parties, destination, reach, answers>>
        /\ verdict' = Trade!Refusal
    BY <1>1 DEF Trade!Refuse
  <2>2. VerdictIsTrue'
    BY <2>1 DEF VerdictIsTrue, Trade!VerdictIsTrue
  <2>3. \A p \in Named : answers[p] # Trade!NoAnswer => PartyAnswer(p, answers[p])'
    BY <1>0, <2>1 DEF VerdictInv, PartyAnswer
  <2> QED BY <1>0, <2>1, <2>2, <2>3 DEF VerdictInv, PartyAnswer
<1>2. CASE Trade!Answer
  <2>1. /\ UNCHANGED <<ofac, rows, parties, destination, reach, answers>>
        /\ \A p \in parties : answers[p] # Trade!NoAnswer
        /\ verdict' = [reason |-> Trade!Reason, restricted |-> Trade!Restricted,
                       fullyScreened |-> Trade!Gaps = {}]
    BY <1>2 DEF Trade!Answer
  <2>2. \A p \in parties : PartyAnswer(p, answers[p])
    BY <2>1 DEF VerdictInv
  <2>3. ASSUME Trade!Gaps = {}, NEW p \in parties
        PROVE  /\ {"sdn", "alt", "exact"} \subseteq reach[p] /\ rows # {}
               /\ Trade!Listed(p) => answers[p].matches \cup answers[p].candidates # {}
    <3>1. answers[p].complete
      BY <2>3 DEF Trade!Gaps
    <3> QED BY <2>2, <3>1 DEF PartyAnswer
  <2>4. ASSUME Trade!Restricted, destination # "comprehensive_embargo"
        PROVE  \E p \in parties : Trade!Listed(p)
    <3>1. PICK p \in parties : answers[p].matches # {}
      BY <2>4 DEF Trade!Restricted, Trade!Matched
    <3> QED BY <2>2, <3>1 DEF PartyAnswer
  <2>5. VerdictIsTrue'
    <3>1. verdict'.fullyScreened = (Trade!Gaps = {}) /\ verdict'.restricted = Trade!Restricted
      BY <2>1
    <3> QED BY <1>0, <2>1, <2>3, <2>4, <3>1 DEF VerdictIsTrue, Trade!VerdictIsTrue
  <2>6. /\ verdict'.reason \in {"restricted", "advisory", "partial"}
        /\ verdict'.restricted \in BOOLEAN /\ verdict'.fullyScreened \in BOOLEAN
    <3>1. verdict'.reason = Trade!Reason /\ verdict'.restricted = Trade!Restricted
          /\ verdict'.fullyScreened = (Trade!Gaps = {})
      BY <2>1
    <3>2. Trade!Reason \in {"restricted", "advisory", "partial"}
      BY DEF Trade!Reason
    <3>3. Trade!Restricted \in BOOLEAN
      BY DEF Trade!Restricted
    <3> QED BY <3>1, <3>2, <3>3
  <2>7. \A p \in Named : answers[p] # Trade!NoAnswer => PartyAnswer(p, answers[p])'
    BY <1>0, <2>1 DEF VerdictInv, PartyAnswer
  <2>8. ListsType'
    BY <1>0, <2>1
  <2>9. \A p \in parties' : answers'[p] # Trade!NoAnswer
    BY <2>1
  <2> QED BY <2>1, <2>5, <2>6, <2>7, <2>8, <2>9 DEF VerdictInv
<1>3. ASSUME NEW p \in Named, Trade!ScreenParty(p) PROVE VerdictInv'
  <2>1. /\ UNCHANGED <<ofac, rows, parties, destination, reach, verdict>>
        /\ p \in parties /\ answers[p] = Trade!NoAnswer
    BY <1>3 DEF Trade!ScreenParty
  <2>2. PICK x \in {Trade!Screening(p)!Result(page) : page \in Trade!Screening(p)!Pages}
                   \cup {Trade!Failure} :
           answers' = [answers EXCEPT ![p] = x]
    BY <1>3 DEF Trade!ScreenParty
  <2>3. PartyAnswer(p, x)
    BY <2>2, ScreenAnswers, FailureAnswers DEF VerdictInv
  <2>4. \A q \in Named : answers'[q] = IF q = p THEN x ELSE answers[q]
    BY <2>2 DEF VerdictInv
  <2>5. \A q \in Named : answers'[q] # Trade!NoAnswer => PartyAnswer(q, answers[q])'
    <3> SUFFICES ASSUME NEW q \in Named, answers'[q] # Trade!NoAnswer
                 PROVE  PartyAnswer(q, answers[q])'
      OBVIOUS
    <3>1. PICK y : y = answers'[q]
      OBVIOUS
    <3>2. PartyAnswer(q, y)
      BY <2>3, <2>4, <3>1 DEF VerdictInv
    <3>3. PartyAnswer(q, y)'
      BY <1>0, <2>1, <3>2
    <3> QED BY <3>1, <3>3 DEF PartyAnswer
  <2>6. verdict \in {Trade!NoVerdict, Trade!Refusal}
    BY <2>1 DEF VerdictInv
  <2>7. VerdictIsTrue'
    BY <2>1, <2>6 DEF VerdictIsTrue, Trade!VerdictIsTrue
  <2>8. answers' = [q \in Named |-> answers'[q]]
    BY <2>2 DEF VerdictInv
  <2> QED BY <1>0, <2>1, <2>5, <2>6, <2>7, <2>8 DEF VerdictInv, Trade!NoVerdict, Trade!Refusal
<1>4. CASE UNCHANGED Trade!vars
  <2>1. UNCHANGED <<ofac, rows, parties, destination, reach, answers, verdict>>
    BY <1>4 DEF Trade!vars
  <2>2. VerdictIsTrue'
    BY <1>0, <2>1 DEF VerdictInv, VerdictIsTrue, Trade!VerdictIsTrue
  <2> QED BY <1>0, <2>1, <2>2 DEF VerdictInv, PartyAnswer
<1> QED BY <1>1, <1>2, <1>3, <1>4 DEF Trade!Next

LEMMA VerdictInvHolds ==
    ASSUME Trade!TradeRestrictionAssumption
    PROVE  Trade!Spec => []VerdictInv
BY VerdictInvInitially, VerdictInvStep, PTL DEF Trade!Spec

\* The type invariant of TradeRestriction.
LEMMA TradeTypes == VerdictInv => Trade!TypeOK
<1> SUFFICES ASSUME VerdictInv PROVE Trade!TypeOK
  OBVIOUS
<1>1. ASSUME NEW p \in Named PROVE Trade!Screening(p)!TypeOK
  <2>1. /\ Trade!Screening(p)!Row = [words : ListedName, repeats : BOOLEAN]
        /\ Trade!Screening(p)!Entity = Seq(ListedName)
    BY DEF Trade!Screening!Row, Trade!Screening!Entity, Trade!Screening!Name, ListedName
  <2>2. ListsType /\ p \in SUBSET Words /\ reach[p] \subseteq {"sdn", "alt", "exact", "wide"}
    BY DEF VerdictInv
  <2>3. \/ answers[p] = [status |-> "none"]
        \/ /\ answers[p].status \in {"hit", "not_screened", "candidates", "clean", "partial"}
           /\ answers[p].matches \cup answers[p].candidates \subseteq Trade!Screening(p)!Finding
    BY DEF VerdictInv, PartyAnswer, Trade!NoAnswer
  <2> QED BY <2>1, <2>2, <2>3
          DEF Trade!Screening!TypeOK, Trade!Screening!Sources, Trade!Screening!NoAnswer, ListsType
<1> QED BY <1>1 DEF VerdictInv, Trade!TypeOK

\* A verdict is true of every party, for any parties, lists and failures: who
\* is cleared was screened everywhere, and who restricts is listed.
THEOREM VerdictHolds ==
    ASSUME Trade!TradeRestrictionAssumption
    PROVE  Trade!Spec => []VerdictIsTrue
<1>1. VerdictInv => VerdictIsTrue
  BY DEF VerdictInv
<1> QED BY <1>1, VerdictInvHolds, PTL


-----------------------------------------------------------------------------
(***************************************************************************)
(* SanctionsIndex, for any parties, screens, limit and number of runs.     *)
(***************************************************************************)

LEMMA IndexBounds ==
    Local!SanctionsIndexAssumption =>
        MaxDay \in Nat /\ MaxRuns \in Nat /\ StaleAfterDays \in Nat /\ StaleAfterDays < MaxDay
BY DEF Local!SanctionsIndexAssumption

LEMMA PartiesAreFinite == Local!SanctionsIndexAssumption => IsFiniteSet(Parties)
BY Zenon DEF Local!SanctionsIndexAssumption, Local!IsFiniteSet, IsFiniteSet

LEMMA LocalCounts == \A S : Local!Cardinality(S) = Cardinality(S)
BY Zenon DEF Local!Cardinality, Cardinality

IndexType ==
    /\ Local!TypeOK /\ began \in Seq(Nat)
    /\ day >= 1 /\ \A p \in Parties : changed[p] <= day

LEMMA IndexTypes ==
    ASSUME Local!SanctionsIndexAssumption, IndexType
    PROVE  /\ Len(began) \in Nat /\ day \in Nat /\ listed \subseteq Parties
           /\ changed \in [Parties -> Nat] /\ index \in [Parties -> Nat]
           /\ \A p \in Parties : index[p] <= Len(began)
           /\ \A r \in Nat : 1 <= r /\ r <= Len(began) => began[r] \in Nat /\ began[r] <= day /\ began[r] >= 1
           /\ \A p \in Local!Rows : index[p] \in Nat /\ 1 <= index[p] /\ index[p] <= Len(began)
<1>1. Len(began) \in Nat /\ day \in Nat /\ listed \subseteq Parties
  BY IndexBounds DEF IndexType, Local!TypeOK
<1>2. changed \in [Parties -> Nat] /\ index \in [Parties -> Nat]
  BY <1>1, IndexBounds DEF IndexType, Local!TypeOK
<1>3. \A p \in Parties : index[p] <= Len(began)
  BY <1>1 DEF IndexType, Local!TypeOK
<1>4. \A r \in Nat : 1 <= r /\ r <= Len(began) => began[r] \in Nat /\ began[r] <= day /\ began[r] >= 1
  BY <1>1 DEF IndexType, Local!TypeOK, Local!Runs
<1>5. \A p \in Local!Rows : index[p] \in Nat /\ 1 <= index[p] /\ index[p] <= Len(began)
  BY <1>1, <1>2, <1>3 DEF Local!Rows
<1> QED BY <1>1, <1>2, <1>3, <1>4, <1>5

\* The oldest row is one of the rows, and no row is older.
LEMMA OldestStamp ==
    ASSUME Local!SanctionsIndexAssumption, IndexType, Local!Rows # {}
    PROVE  \E q \in Local!Rows :
              /\ Local!Oldest = began[index[q]]
              /\ \A p \in Local!Rows : index[q] <= index[p]
<1> DEFINE S == {index[p] : p \in Local!Rows}
<1>1. S \in SUBSET Nat
  BY IndexTypes
<1>2. S # {}
  OBVIOUS
<1>3. \E x \in S : \A y \in S : x <= y
  <2> HIDE DEF S
  <2> QED BY <1>1, <1>2, SmallestOf
<1>4. Local!Min(S) \in S /\ \A y \in S : Local!Min(S) <= y
  <2> HIDE DEF S
  <2> QED BY <1>3 DEF Local!Min
<1>5. Local!Oldest = began[Local!Min(S)]
  BY DEF Local!Oldest
<1>6. PICK q \in Local!Rows : Local!Min(S) = index[q]
  BY <1>4
<1> QED BY <1>4, <1>5, <1>6

\* Where a screen can be.
LEMMA ScreenTypes ==
    ASSUME NEW p \in Parties, NEW start \in Nat, NEW missed \in BOOLEAN
    PROVE  /\ [phase |-> "unscreened"] \in Local!Screen
           /\ \A at \in {"age", "exact", "probe", "hit", "clean"} :
                 [phase |-> at, party |-> p, start |-> start, missed |-> missed] \in Local!Screen
BY DEF Local!Screen

LEMMA ScreenParty ==
    ASSUME IndexType, NEW s \in Screens,
           screen[s].phase \in {"age", "exact", "probe", "hit", "clean"}
    PROVE  /\ screen[s].party \in Parties /\ screen[s].start \in Nat
           /\ screen[s].missed \in BOOLEAN
           /\ screen[s] = [phase |-> screen[s].phase, party |-> screen[s].party,
                           start |-> screen[s].start, missed |-> screen[s].missed]
<1>1. screen[s] \in Local!Screen
  BY DEF IndexType, Local!TypeOK
<1> QED BY <1>1 DEF Local!Screen

LEMMA RecordUpdate ==
    ASSUME NEW A, NEW B, NEW C, NEW D, NEW r \in [phase : A, party : B, start : C, missed : D],
           NEW x
    PROVE  /\ [r EXCEPT !.phase = x] =
                 [phase |-> x, party |-> r.party, start |-> r.start, missed |-> r.missed]
           /\ [r EXCEPT !.missed = x] =
                 [phase |-> r.phase, party |-> r.party, start |-> r.start, missed |-> x]
OBVIOUS

LEMMA ScreenUpdate ==
    ASSUME IndexType, NEW s \in Screens,
           screen[s].phase \in {"age", "exact", "probe", "hit", "clean"},
           NEW at, NEW missed
    PROVE  /\ [screen EXCEPT ![s].phase = at] = [screen EXCEPT ![s] =
                 [phase |-> at, party |-> screen[s].party, start |-> screen[s].start,
                  missed |-> screen[s].missed]]
           /\ [screen EXCEPT ![s].phase = at, ![s].missed = missed] = [screen EXCEPT ![s] =
                 [phase |-> at, party |-> screen[s].party, start |-> screen[s].start,
                  missed |-> missed]]
<1>1. screen \in [Screens -> Local!Screen]
  BY DEF IndexType, Local!TypeOK
<1>2. screen[s] \in [phase : {"age", "exact", "probe", "hit", "clean"},
                     party : Parties, start : Nat, missed : BOOLEAN]
  BY <1>1 DEF Local!Screen
<1> DEFINE r == [phase |-> at, party |-> screen[s].party, start |-> screen[s].start,
                 missed |-> screen[s].missed]
<1>3. [screen[s] EXCEPT !.phase = at] = r
  BY <1>2, RecordUpdate
<1>4. r \in [phase : {at}, party : Parties, start : Nat, missed : BOOLEAN]
  BY <1>2
<1>5. [r EXCEPT !.missed = missed] = [phase |-> at, party |-> screen[s].party,
                                      start |-> screen[s].start, missed |-> missed]
  <2>1. r.phase = at /\ r.party = screen[s].party /\ r.start = screen[s].start
    OBVIOUS
  <2> HIDE DEF r
  <2> QED BY <1>4, <2>1, RecordUpdate
<1>6. /\ [screen EXCEPT ![s].phase = at] = [screen EXCEPT ![s] = [screen[s] EXCEPT !.phase = at]]
      /\ [screen EXCEPT ![s].phase = at, ![s].missed = missed] =
            [screen EXCEPT ![s] = [[screen[s] EXCEPT !.phase = at] EXCEPT !.missed = missed]]
  BY <1>1
<1> HIDE DEF r
<1> QED BY <1>3, <1>5, <1>6 DEF r

LEMMA RefreshTypes ==
    ASSUME IndexType
    PROVE  /\ refresh.phase \in {"idle", "download", "upsert", "sweep"}
           /\ refresh.phase \in {"upsert", "sweep"} =>
                 /\ refresh.rows \in Nat /\ refresh.left \subseteq Parties
                 /\ refresh = [phase |-> refresh.phase, rows |-> refresh.rows,
                               left |-> refresh.left]
           /\ \A at \in {"idle", "download"} : [phase |-> at] \in Local!Refresh
           /\ \A at \in {"upsert", "sweep"}, n \in Nat, left \in SUBSET Parties :
                 [phase |-> at, rows |-> n, left |-> left] \in Local!Refresh
<1>1. refresh \in Local!Refresh
  BY DEF IndexType, Local!TypeOK
<1> QED BY <1>1 DEF Local!Refresh

\* The parts of the type that one group of steps changes.
PublisherType ==
    /\ day \in 0..MaxDay /\ listed \subseteq Parties /\ changed \in [Parties -> 0..MaxDay]
    /\ day >= 1 /\ \A p \in Parties : changed[p] <= day
LoaderType ==
    /\ began \in Seq(Nat) /\ Len(began) \in 0..MaxRuns
    /\ \A r \in Local!Runs : began[r] \in 1..day
    /\ index \in [Parties -> 0..Len(began)]
    /\ refresh \in Local!Refresh /\ torn \subseteq Parties
CacheType == ageCache \in {Local!Unread} \cup [read : {TRUE}, oldest : 0..MaxDay]
ScreenType == screen \in [Screens -> Local!Screen]

LEMMA IndexTypeParts ==
    IndexType <=> PublisherType /\ LoaderType /\ CacheType /\ ScreenType
BY DEF IndexType, Local!TypeOK, PublisherType, LoaderType, CacheType, ScreenType

\* Every variable of SanctionsIndex stays within its type.
LEMMA IndexTypeCorrect ==
    ASSUME Local!SanctionsIndexAssumption
    PROVE  Local!Spec => []IndexType
<1>1. Local!Init => IndexType
  <2> SUFFICES ASSUME Local!Init PROVE IndexType
    OBVIOUS
  <2>1. PublisherType
    BY IndexBounds DEF Local!Init, PublisherType
  <2>2. LoaderType
    BY IndexBounds DEF Local!Init, LoaderType, Local!Runs, Local!Refresh
  <2>3. CacheType /\ ScreenType
    BY DEF Local!Init, CacheType, ScreenType, Local!Screen
  <2> QED BY <2>1, <2>2, <2>3, IndexTypeParts
<1>2. IndexType /\ [Local!Next]_Local!vars => IndexType'
  <2> SUFFICES ASSUME IndexType, [Local!Next]_Local!vars PROVE IndexType'
    OBVIOUS
  <2> USE DEF Local!publisher, Local!loader
  <2>0. PublisherType /\ LoaderType /\ CacheType /\ ScreenType
    BY IndexTypeParts
  <2>a. PublisherType' /\ LoaderType' /\ CacheType' /\ ScreenType' => IndexType'
    BY IndexTypeParts, PTL
  <2>1. ASSUME NEW p \in Parties, Local!Publish(p) PROVE IndexType'
    <3>1. PublisherType'
      BY <2>0, <2>1 DEF Local!Publish, PublisherType
    <3>2. UNCHANGED <<day, index, began, refresh, torn, ageCache, screen>>
      BY <2>1 DEF Local!Publish
    <3>3. LoaderType' /\ CacheType' /\ ScreenType'
      BY <2>0, <3>2 DEF LoaderType, CacheType, ScreenType, Local!Runs
    <3> QED BY <3>1, <3>3, <2>a
  <2>2. CASE Local!Midnight
    <3>1. day' \in 0..MaxDay /\ day' = day + 1 /\ day \in Nat
      BY <2>0, <2>2, IndexBounds DEF Local!Midnight, PublisherType
    <3>2. PublisherType'
      BY <2>0, <2>2, <3>1 DEF Local!Midnight, PublisherType
    <3>3. UNCHANGED <<index, began, refresh, torn, ageCache, screen>>
      BY <2>2 DEF Local!Midnight
    <3>4. \A r \in Local!Runs' : began'[r] \in 1..day'
      BY <2>0, <3>1, <3>3 DEF LoaderType, Local!Runs
    <3>5. LoaderType' /\ CacheType' /\ ScreenType'
      BY <2>0, <3>3, <3>4 DEF LoaderType, CacheType, ScreenType
    <3> QED BY <3>2, <3>5, <2>a
  <2>3. CASE Local!Begin
    <3>1. /\ PublisherType' /\ CacheType' /\ ScreenType'
          /\ began' = Append(began, day) /\ index' = index /\ torn' = torn
          /\ refresh' = [phase |-> "download"] /\ Len(began) < MaxRuns /\ day' = day
      BY <2>0, <2>3 DEF Local!Begin, PublisherType, CacheType, ScreenType
    <3>2. day \in Nat /\ day >= 1
      BY <2>0, IndexBounds DEF PublisherType
    <3>3. began' \in Seq(Nat) /\ Len(began') = Len(began) + 1 /\ Len(began) \in Nat
      BY <2>0, <3>1, <3>2 DEF LoaderType
    <3>4. Len(began') \in 0..MaxRuns
      BY <3>1, <3>3, IndexBounds
    <3>5. \A r \in Local!Runs' : began'[r] \in 1..day
      <4> SUFFICES ASSUME NEW r \in 1..(Len(began) + 1) PROVE began'[r] \in 1..day
        BY <3>3 DEF Local!Runs
      <4>1. CASE r = Len(began) + 1
        BY <2>0, <3>1, <3>2, <4>1 DEF LoaderType
      <4>2. CASE r # Len(began) + 1
        <5>1. r \in 1..Len(began)
          BY <3>3, <4>2
        <5>2. began'[r] = began[r]
          BY <2>0, <3>1, <5>1 DEF LoaderType
        <5> QED BY <2>0, <5>1, <5>2 DEF LoaderType, Local!Runs
      <4> QED BY <4>1, <4>2
    <3>6. index' \in [Parties -> 0..Len(began')]
      BY <2>0, <3>1, <3>3 DEF LoaderType
    <3>7. refresh' \in Local!Refresh /\ torn' \subseteq Parties
      BY <2>0, <3>1, RefreshTypes DEF LoaderType
    <3>8. LoaderType'
      BY <3>1, <3>3, <3>4, <3>5, <3>6, <3>7 DEF LoaderType
    <3> QED BY <3>1, <3>8, <2>a
  <2>4. ASSUME Local!Download \/ Local!Upsert \/ Local!UpsertFails \/ Local!Sweep \/ Local!JobDies
        PROVE  IndexType'
    <3>1. /\ PublisherType' /\ CacheType' /\ ScreenType'
          /\ began' = began /\ day' = day
      BY <2>0, <2>4 DEF Local!Download, Local!Upsert, Local!UpsertFails, Local!Sweep,
                        Local!JobDies, PublisherType, CacheType, ScreenType
    <3>2. SUFFICES index' \in [Parties -> 0..Len(began)] /\ refresh' \in Local!Refresh
                   /\ torn' \subseteq Parties
      <4>1. ASSUME index' \in [Parties -> 0..Len(began)], refresh' \in Local!Refresh,
                   torn' \subseteq Parties
            PROVE  LoaderType'
        BY <2>0, <3>1, <4>1 DEF LoaderType, Local!Runs
      <4> QED BY <3>1, <4>1, <2>a
    <3>3. Local!This \in 0..Len(began) /\ 0 \in 0..Len(began)
      BY <2>0 DEF LoaderType, Local!This
    <3>4. index \in [Parties -> 0..Len(began)] /\ torn \subseteq Parties
      BY <2>0 DEF LoaderType
    <3>5. CASE Local!Download
      <4>1. Local!Cardinality(listed) \in Nat
        BY <2>0, PartiesAreFinite, LocalCounts, FS_Subset, FS_CardinalityType DEF PublisherType
      <4> QED BY <2>0, <3>4, <3>5, <4>1, RefreshTypes DEF Local!Download, PublisherType
    <3>6. CASE Local!Upsert
      <4>1. PICK p \in refresh.left :
               /\ index' = [index EXCEPT ![p] = Local!This]
               /\ torn' = torn \ {p}
               /\ refresh' = [refresh EXCEPT !.left = @ \ {p},
                                 !.phase = IF refresh.left = {p} THEN "sweep" ELSE "upsert"]
        BY <3>6 DEF Local!Upsert
      <4>2. refresh' \in Local!Refresh
        <5> DEFINE at == IF refresh.left = {p} THEN "sweep" ELSE "upsert"
        <5>1. refresh' = [phase |-> at, rows |-> refresh.rows, left |-> refresh.left \ {p}]
          BY <3>6, <4>1, RefreshTypes DEF Local!Upsert
        <5>2. refresh.left \ {p} \in SUBSET Parties /\ refresh.rows \in Nat
          BY <3>6, RefreshTypes DEF Local!Upsert
        <5> QED BY <5>1, <5>2, RefreshTypes
      <4> QED BY <3>3, <3>4, <4>1, <4>2
    <3>7. CASE Local!UpsertFails
      <4>1. refresh.left \subseteq Parties
        BY <3>7, RefreshTypes DEF Local!UpsertFails
      <4> QED BY <3>3, <3>4, <3>7, <4>1, RefreshTypes DEF Local!UpsertFails
    <3>8. CASE Local!Sweep
      BY <3>3, <3>4, <3>8, RefreshTypes DEF Local!Sweep
    <3>9. CASE Local!JobDies
      BY <3>4, <3>9, RefreshTypes DEF Local!JobDies
    <3> QED BY <2>4, <3>5, <3>6, <3>7, <3>8, <3>9
  <2>5. ASSUME NEW s \in Screens, Local!Start(s) \/ Local!ListRefreshedAt(s)
                                  \/ Local!Exact(s) \/ Local!Probe(s)
        PROVE  IndexType'
    <3>1. UNCHANGED <<day, listed, changed, index, began, refresh, torn>>
      BY <2>5 DEF Local!Start, Local!ListRefreshedAt, Local!Exact, Local!Probe
    <3>2. PublisherType' /\ LoaderType'
      BY <2>0, <3>1 DEF PublisherType, LoaderType, Local!Runs
    <3>3. SUFFICES CacheType' /\ ScreenType'
      BY <3>2, <2>a
    <3>4. CASE Local!Start(s)
      <4>1. PICK p \in Parties :
               \/ Local!Enter(s, p, day, ageCache.oldest)
               \/ screen' = [screen EXCEPT ![s] =
                     [phase |-> "age", party |-> p, start |-> day, missed |-> FALSE]]
        BY <3>4 DEF Local!Start
      <4>2. day \in Nat
        BY <2>0, IndexBounds DEF PublisherType
      <4>3. CacheType'
        BY <2>0, <3>4 DEF Local!Start, CacheType
      <4> QED BY <2>0, <4>1, <4>2, <4>3, ScreenTypes DEF Local!Enter, ScreenType
    <3>5. CASE Local!ListRefreshedAt(s)
      <4>1. Local!Oldest \in 0..MaxDay
        <5>1. CASE Local!Rows = {}
          BY <5>1, IndexBounds DEF Local!Oldest, Local!NoAge
        <5>2. CASE Local!Rows # {}
          BY <2>0, <5>2, OldestStamp, IndexTypes, IndexBounds DEF PublisherType
        <5> QED BY <5>1, <5>2
      <4>2. CacheType'
        <5>1. \/ ageCache' = ageCache
              \/ ageCache' = [read |-> TRUE, oldest |-> Local!Oldest]
          BY <3>5 DEF Local!ListRefreshedAt
        <5>2. [read |-> TRUE, oldest |-> Local!Oldest] \in [read : {TRUE}, oldest : 0..MaxDay]
          BY <4>1
        <5> QED BY <2>0, <5>1, <5>2 DEF CacheType
      <4>3. screen[s].party \in Parties /\ screen[s].start \in Nat
        BY <3>5, ScreenParty DEF Local!ListRefreshedAt
      <4>4. \/ Local!Enter(s, screen[s].party, screen[s].start, Local!Oldest)
            \/ Local!Unscreened(s)
        BY <3>5 DEF Local!ListRefreshedAt
      <4> QED BY <2>0, <4>2, <4>3, <4>4, ScreenTypes DEF Local!Enter, Local!Unscreened, ScreenType
    <3>6. CASE Local!Exact(s) \/ Local!Probe(s)
      <4>1. CacheType'
        BY <2>0, <3>6 DEF Local!Exact, Local!Probe, CacheType
      <4>2. /\ screen[s].party \in Parties /\ screen[s].start \in Nat
            /\ screen[s].missed \in BOOLEAN
            /\ screen[s] = [phase |-> screen[s].phase, party |-> screen[s].party,
                            start |-> screen[s].start, missed |-> screen[s].missed]
        BY <3>6, ScreenParty DEF Local!Exact, Local!Probe
      <4>3. screen[s].phase \in {"exact", "probe"}
        BY <3>6 DEF Local!Exact, Local!Probe
      <4>4. \/ screen' = [screen EXCEPT ![s] = [phase |-> "unscreened"]]
            \/ screen' = [screen EXCEPT ![s].phase = "clean"]
            \/ screen' = [screen EXCEPT
                  ![s].phase = IF screen[s].party \in Local!Rows THEN "hit" ELSE "probe",
                  ![s].missed = screen[s].party \in Local!Missing]
        BY <3>6 DEF Local!Exact, Local!Probe, Local!Failure, Local!Unscreened, Local!Goto
      <4>5. \E x \in Local!Screen : screen' = [screen EXCEPT ![s] = x]
        <5> DEFINE at == IF screen[s].party \in Local!Rows THEN "hit" ELSE "probe"
                   missed == screen[s].party \in Local!Missing
        <5>1. at \in {"hit", "probe"} /\ missed \in BOOLEAN
          OBVIOUS
        <5> HIDE DEF at, missed
        <5>2. CASE screen' = [screen EXCEPT ![s].phase = at, ![s].missed = missed]
          <6>1. screen' = [screen EXCEPT ![s] =
                  [phase |-> at, party |-> screen[s].party, start |-> screen[s].start,
                   missed |-> missed]]
            BY <4>3, <5>2, ScreenUpdate
          <6> QED BY <4>2, <5>1, <6>1, ScreenTypes
        <5>3. CASE screen' = [screen EXCEPT ![s].phase = "clean"]
          <6>1. screen' = [screen EXCEPT ![s] =
                  [phase |-> "clean", party |-> screen[s].party, start |-> screen[s].start,
                   missed |-> screen[s].missed]]
            BY <4>3, <5>3, ScreenUpdate
          <6> QED BY <4>2, <6>1, ScreenTypes
        <5>4. CASE screen' = [screen EXCEPT ![s] = [phase |-> "unscreened"]]
          BY <4>2, <5>4, ScreenTypes
        <5> QED BY <4>4, <5>2, <5>3, <5>4 DEF at, missed
      <4> QED BY <2>0, <4>1, <4>5 DEF ScreenType
    <3> QED BY <2>5, <3>4, <3>5, <3>6
  <2>6. CASE Local!AgeLapses
    <3>1. UNCHANGED <<day, listed, changed, index, began, refresh, torn, screen>>
      BY <2>6 DEF Local!AgeLapses
    <3>2. PublisherType' /\ LoaderType' /\ ScreenType'
      BY <2>0, <3>1 DEF PublisherType, LoaderType, ScreenType, Local!Runs
    <3>3. CacheType'
      BY <2>6 DEF Local!AgeLapses, CacheType
    <3> QED BY <3>2, <3>3, <2>a
  <2>7. CASE UNCHANGED Local!vars
    <3>1. UNCHANGED <<day, listed, changed, index, began, refresh, torn, ageCache, screen>>
      BY <2>7 DEF Local!vars
    <3> QED BY <2>0, <2>a, <3>1
            DEF PublisherType, LoaderType, CacheType, ScreenType, Local!Runs
  <2> QED BY <2>1, <2>2, <2>3, <2>4, <2>5, <2>6, <2>7 DEF Local!Next
<1> QED BY <1>1, <1>2, PTL DEF Local!Spec

-----------------------------------------------------------------------------
\* The day of the run that wrote the row of p, and the parties of which the
\* index knows: they have a row, or a refresh stopped short of them.
Stamp(p) == began[index[p]]
Known == Local!Rows \cup Local!Missing
LastRun == began[Len(began)]

\* The index speaks for day d and after: who has a row was listed since d,
\* and of who has none it is known that they were not, at some moment since.
SpeaksFor(d) ==
    /\ Len(began) > 0 /\ d <= LastRun
    /\ \A p \in Local!Rows : d <= Stamp(p)
    /\ \A p \in Parties \ Known : d <= Local!LastUnlisted(p)

\* What holds of the rows, and of a run that is writing: whoever was not in
\* its feed was not listed when the feed arrived.
RowsInv ==
    /\ \A i, j \in 1..Len(began) : i <= j => began[i] <= began[j]
    /\ \A p \in Local!Rows : Stamp(p) <= Local!LastListed(p)
    /\ \A p \in Parties \ Known, q \in Local!Rows : Stamp(q) <= Local!LastUnlisted(p)
    /\ refresh.phase # "idle" => Len(began) > 0
    /\ refresh.phase = "sweep" => refresh.left = {}
    /\ refresh.phase \in {"upsert", "sweep"} =>
          \A p \in Parties :
             /\ index[p] = Len(began) \/ p \in refresh.left \/ LastRun <= Local!LastUnlisted(p)
             /\ p \in refresh.left => LastRun <= Local!LastListed(p)

AgeInv == ageCache.read /\ ageCache.oldest # Local!NoAge => SpeaksFor(ageCache.oldest)

ScreenInv(s) ==
    /\ screen[s].phase = "age" => screen[s].start <= day
    /\ screen[s].phase = "exact" => SpeaksFor(screen[s].start - StaleAfterDays)
    /\ screen[s].phase \in {"probe", "clean"} /\ ~screen[s].missed =>
          Local!LastUnlisted(screen[s].party) + StaleAfterDays >= screen[s].start
    /\ screen[s].phase = "hit" =>
          Local!LastListed(screen[s].party) + StaleAfterDays >= screen[s].start

\* The strengthening of CleanIsCurrent and HitsAreCurrent.
IndexInv == RowsInv /\ AgeInv /\ \A s \in Screens : ScreenInv(s)

LEMMA LastTypes ==
    Local!SanctionsIndexAssumption /\ IndexType =>
        \A p \in Parties :
            /\ Local!LastListed(p) \in Nat /\ Local!LastListed(p) <= day
            /\ Local!LastUnlisted(p) \in Nat /\ Local!LastUnlisted(p) <= day
BY IndexTypes DEF Local!LastListed, Local!LastUnlisted, IndexType

LEMMA AgeType ==
    ASSUME Local!SanctionsIndexAssumption, IndexType, ageCache.read
    PROVE  ageCache.oldest \in Nat
<1>1. \/ ageCache = [read |-> FALSE]
      \/ ageCache \in [read : {TRUE}, oldest : 0..MaxDay]
  BY DEF IndexType, Local!TypeOK, Local!Unread
<1>2. ageCache # [read |-> FALSE]
  OBVIOUS
<1>3. ageCache.oldest \in 0..MaxDay
  BY <1>1, <1>2
<1> QED BY <1>3, IndexBounds

LEMMA RunTypes ==
    ASSUME Local!SanctionsIndexAssumption, IndexType
    PROVE  /\ Len(began) > 0 => LastRun \in Nat /\ LastRun <= day
           /\ \A p \in Local!Rows : Stamp(p) \in Nat /\ Len(began) > 0
BY IndexTypes DEF LastRun, Stamp

\* Later runs stamp later days.
LEMMA StampsGrow ==
    ASSUME Local!SanctionsIndexAssumption, IndexType, RowsInv
    PROVE  \A p \in Local!Rows :
              /\ Stamp(p) <= LastRun
              /\ \A q \in Local!Rows : index[p] <= index[q] => Stamp(p) <= Stamp(q)
<1>1. \A p \in Local!Rows : index[p] \in 1..Len(began) /\ index[p] <= Len(began)
  BY IndexTypes
<1>2. Local!Rows # {} => Len(began) \in 1..Len(began)
  BY <1>1, IndexTypes
<1> QED BY <1>1, <1>2 DEF RowsInv, Stamp, LastRun

LEMMA LastTypesNext ==
    ASSUME Local!SanctionsIndexAssumption, IndexType'
    PROVE  \A p \in Parties : Local!LastListed(p)' \in Nat /\ Local!LastUnlisted(p)' \in Nat
<1>1. (Local!SanctionsIndexAssumption /\ IndexType =>
        \A p \in Parties :
            /\ Local!LastListed(p) \in Nat /\ Local!LastListed(p) <= day
            /\ Local!LastUnlisted(p) \in Nat /\ Local!LastUnlisted(p) <= day)'
  BY LastTypes, PTL
<1>2. Local!SanctionsIndexAssumption'
  BY DEF Local!SanctionsIndexAssumption
<1> QED BY <1>1, <1>2

\* What was said of the age and to the screens stays true while the index
\* goes on speaking for each day it spoke for.
LEMMA StillSpeaks ==
    ASSUME Local!SanctionsIndexAssumption, IndexType, IndexInv, IndexType',
           UNCHANGED <<ageCache, screen>>, day' >= day,
           \A p \in Parties : /\ Local!LastListed(p)' >= Local!LastListed(p)
                              /\ Local!LastUnlisted(p)' >= Local!LastUnlisted(p),
           \A d \in Int : SpeaksFor(d) => SpeaksFor(d)'
    PROVE  AgeInv' /\ \A s \in Screens : ScreenInv(s)'
<1>1. \A p \in Parties : /\ Local!LastListed(p) \in Nat /\ Local!LastListed(p)' \in Nat
                         /\ Local!LastUnlisted(p) \in Nat /\ Local!LastUnlisted(p)' \in Nat
  BY LastTypes, LastTypesNext
<1>2. AgeInv'
  <2> SUFFICES ASSUME ageCache.read, ageCache.oldest # 0 PROVE SpeaksFor(ageCache.oldest)'
    BY DEF AgeInv, Local!NoAge
  <2>1. PICK d \in Int : d = ageCache.oldest
    BY AgeType
  <2>2. SpeaksFor(d)'
    BY <2>1 DEF IndexInv, AgeInv, Local!NoAge
  <2> QED BY <2>1, <2>2 DEF SpeaksFor
<1>3. ASSUME NEW s \in Screens PROVE ScreenInv(s)'
  <2>1. screen[s].phase = "exact" => SpeaksFor(screen[s].start - StaleAfterDays)'
    <3> SUFFICES ASSUME screen[s].phase = "exact"
                 PROVE  SpeaksFor(screen[s].start - StaleAfterDays)'
      OBVIOUS
    <3>1. PICK d \in Int : d = screen[s].start - StaleAfterDays
      <4>1. screen[s].start \in Nat
        BY ScreenParty
      <4> QED BY <4>1, IndexBounds
    <3>2. SpeaksFor(d)'
      BY <3>1 DEF IndexInv, ScreenInv
    <3> QED BY <3>1, <3>2 DEF SpeaksFor
  <2>2. screen[s].phase \in {"age", "probe", "clean", "hit"} =>
            screen[s].party \in Parties /\ screen[s].start \in Nat
    BY ScreenParty
  <2>3. day \in Nat /\ day' \in Nat
    BY IndexBounds DEF IndexType, Local!TypeOK
  <2> QED BY <1>1, <2>1, <2>2, <2>3, IndexBounds DEF IndexInv, ScreenInv
<1> QED BY <1>2, <1>3

\* A step of the publisher.
LEMMA PublisherStep ==
    ASSUME Local!SanctionsIndexAssumption, IndexType, IndexInv, IndexType',
           UNCHANGED <<index, began, refresh, torn, ageCache, screen>>, day' >= day,
           \A p \in Parties : /\ Local!LastListed(p)' >= Local!LastListed(p)
                              /\ Local!LastUnlisted(p)' >= Local!LastUnlisted(p)
    PROVE  IndexInv'
<1>1. /\ Local!Rows' = Local!Rows /\ Local!Missing' = Local!Missing /\ Known' = Known
      /\ LastRun' = LastRun
      /\ \A p : Stamp(p)' = Stamp(p)
  BY DEF Local!Rows, Local!Missing, Known, LastRun, Stamp
<1>2. \A p \in Parties : /\ Local!LastListed(p) \in Nat /\ Local!LastListed(p)' \in Nat
                         /\ Local!LastUnlisted(p) \in Nat /\ Local!LastUnlisted(p)' \in Nat
  BY LastTypes, LastTypesNext
<1>3. \A d \in Int : SpeaksFor(d) => SpeaksFor(d)'
  BY <1>1, <1>2, RunTypes DEF SpeaksFor
<1>4. RowsInv'
  <2>1. Local!Rows \subseteq Parties
    BY DEF Local!Rows
  <2>2. \A p \in Local!Rows : Stamp(p) <= Local!LastListed(p)'
    BY <1>2, <2>1, RunTypes DEF IndexInv, RowsInv
  <2>3. \A p \in Parties \ Known, q \in Local!Rows : Stamp(q) <= Local!LastUnlisted(p)'
    BY <1>2, RunTypes DEF IndexInv, RowsInv
  <2>4. refresh.phase \in {"upsert", "sweep"} =>
          \A p \in Parties :
             /\ \/ index[p] = Len(began) \/ p \in refresh.left
                \/ LastRun <= Local!LastUnlisted(p)'
             /\ p \in refresh.left => LastRun <= Local!LastListed(p)'
    BY <1>2, RunTypes DEF IndexInv, RowsInv
  <2> QED BY <1>1, <2>2, <2>3, <2>4 DEF IndexInv, RowsInv
<1> QED BY <1>3, <1>4, StillSpeaks DEF IndexInv

\* What RowsInv says of the rows, whatever the refresh is doing.
StampsInv ==
    /\ \A i, j \in 1..Len(began) : i <= j => began[i] <= began[j]
    /\ \A p \in Local!Rows : Stamp(p) <= Local!LastListed(p)
    /\ \A p \in Parties \ Known, q \in Local!Rows : Stamp(q) <= Local!LastUnlisted(p)

\* A step of a refresh that stamps rows of those who were listed when its
\* feed arrived, and removes or stamps rows only when the feed has spoken of
\* everybody.
LEMMA LoaderStep ==
    ASSUME Local!SanctionsIndexAssumption, IndexType, IndexInv, IndexType',
           UNCHANGED <<day, listed, changed, began, ageCache, screen>>, Len(began) > 0,
           NEW Stamped \in SUBSET Parties,
           \A p \in Local!Rows' : \/ p \in Local!Rows /\ index'[p] = index[p]
                                  \/ p \in Stamped,
           \A p \in Stamped : index'[p] = Len(began) /\ LastRun <= Local!LastListed(p),
           \A p \in Parties \ Known' : \/ p \notin Known /\ Stamped = {}
                                       \/ LastRun <= Local!LastUnlisted(p)
    PROVE  StampsInv' /\ AgeInv' /\ \A s \in Screens : ScreenInv(s)'
<1>1. /\ LastRun' = LastRun /\ LastRun \in Nat
      /\ \A p : /\ Local!LastListed(p)' = Local!LastListed(p)
                /\ Local!LastUnlisted(p)' = Local!LastUnlisted(p)
  BY RunTypes DEF LastRun, Local!LastListed, Local!LastUnlisted
<1>2. \A p \in Parties : Local!LastListed(p) \in Nat /\ Local!LastUnlisted(p) \in Nat
  BY LastTypes
<1>3. \A p \in Local!Rows' :
        \/ p \in Local!Rows /\ Stamp(p)' = Stamp(p) /\ Stamp(p) \in Nat
        \/ p \in Stamped /\ Stamp(p)' = LastRun
  BY RunTypes DEF Stamp, LastRun
<1>4. \A p \in Local!Rows : Stamp(p) <= LastRun
  BY StampsGrow DEF IndexInv
<1>5. Local!Rows \subseteq Parties /\ Local!Rows' \subseteq Parties
  BY DEF Local!Rows
<1>6. \A d \in Int : SpeaksFor(d) => SpeaksFor(d)'
  BY <1>1, <1>2, <1>3, <1>5 DEF SpeaksFor
<1>7. StampsInv'
  <2>1. \A p \in Local!Rows' : Stamp(p)' <= Local!LastListed(p)
    BY <1>3 DEF IndexInv, RowsInv
  <2>2. \A p \in Parties \ Known', q \in Local!Rows' : Stamp(q)' <= Local!LastUnlisted(p)
    BY <1>1, <1>2, <1>3, <1>4 DEF IndexInv, RowsInv
  <2>3. \A i, j \in 1..Len(began) : i <= j => began[i] <= began[j]
    BY DEF IndexInv, RowsInv
  <2> QED BY <1>1, <2>1, <2>2, <2>3 DEF StampsInv
<1>8. day' >= day
  BY IndexTypes
<1>9. \A p \in Parties : /\ Local!LastListed(p)' >= Local!LastListed(p)
                         /\ Local!LastUnlisted(p)' >= Local!LastUnlisted(p)
  BY <1>1, <1>2
<1>10. UNCHANGED <<ageCache, screen>>
  OBVIOUS
<1> QED BY <1>6, <1>7, <1>8, <1>9, <1>10, StillSpeaks

\* A step of a refresh that stamps no row.
LEMMA QuietStep ==
    ASSUME Local!SanctionsIndexAssumption, IndexType, IndexInv, IndexType',
           UNCHANGED <<day, listed, changed, began, ageCache, screen>>, Len(began) > 0,
           \A p \in Local!Rows' : p \in Local!Rows /\ index'[p] = index[p],
           \A p \in Parties \ Known' : p \notin Known \/ LastRun <= Local!LastUnlisted(p)
    PROVE  StampsInv' /\ AgeInv' /\ \A s \in Screens : ScreenInv(s)'
<1> DEFINE Stamped == {}
<1>1. Stamped \in SUBSET Parties
  OBVIOUS
<1>2. \A p \in Local!Rows' : (p \in Local!Rows /\ index'[p] = index[p]) \/ p \in Stamped
  OBVIOUS
<1>3. \A p \in Stamped : index'[p] = Len(began) /\ LastRun <= Local!LastListed(p)
  OBVIOUS
<1>4. \A p \in Parties \ Known' : \/ p \notin Known /\ Stamped = {}
                                  \/ LastRun <= Local!LastUnlisted(p)
  OBVIOUS
<1> HIDE DEF Stamped
<1> QED BY <1>1, <1>2, <1>3, <1>4, LoaderStep

LEMMA BeginStep ==
    ASSUME Local!SanctionsIndexAssumption, IndexType, IndexInv, IndexType', Local!Begin
    PROVE  IndexInv'
<1>1. /\ began' = Append(began, day) /\ refresh' = [phase |-> "download"]
      /\ refresh.phase = "idle"
      /\ UNCHANGED <<day, listed, changed, index, torn, ageCache, screen>>
  BY DEF Local!Begin, Local!publisher
<1>2. began \in Seq(Nat) /\ day \in Nat /\ Len(began) \in Nat
  BY IndexTypes DEF IndexType
<1>3. /\ Len(began') = Len(began) + 1 /\ began'[Len(began) + 1] = day
      /\ \A r \in 1..Len(began) : began'[r] = began[r]
  BY <1>1, <1>2
<1>4. /\ Local!Rows' = Local!Rows /\ Local!Missing' = Local!Missing /\ Known' = Known
      /\ LastRun' = day
      /\ \A p \in Local!Rows : Stamp(p)' = Stamp(p)
      /\ \A p : /\ Local!LastListed(p)' = Local!LastListed(p)
                /\ Local!LastUnlisted(p)' = Local!LastUnlisted(p)
  <2>1. Local!Rows' = Local!Rows /\ Local!Missing' = Local!Missing
    BY <1>1 DEF Local!Rows, Local!Missing
  <2>2. \A p \in Local!Rows : Stamp(p)' = Stamp(p)
    BY <1>1, <1>3, IndexTypes DEF Stamp
  <2>3. LastRun' = day
    BY <1>3 DEF LastRun
  <2>4. \A p : /\ Local!LastListed(p)' = Local!LastListed(p)
               /\ Local!LastUnlisted(p)' = Local!LastUnlisted(p)
    BY <1>1 DEF Local!LastListed, Local!LastUnlisted
  <2> QED BY <2>1, <2>2, <2>3, <2>4 DEF Known
<1>5. \A d \in Int : SpeaksFor(d) => SpeaksFor(d)'
  <2>1. Len(began) > 0 => LastRun \in Nat /\ LastRun <= day
    BY RunTypes
  <2> QED BY <1>2, <1>3, <1>4, <2>1 DEF SpeaksFor
<1>6. RowsInv'
  <2>1. ASSUME NEW i \in 1..(Len(began) + 1), NEW j \in 1..(Len(began) + 1), i <= j
        PROVE  began'[i] <= began'[j]
    <3>1. CASE j \in 1..Len(began)
      BY <1>2, <1>3, <2>1, <3>1 DEF IndexInv, RowsInv
    <3>2. CASE j = Len(began) + 1
      <4>1. began'[i] <= day
        <5>1. i = Len(began) + 1 \/ i \in 1..Len(began)
          BY <1>2
        <5>2. \A r \in 1..Len(began) : began[r] <= day
          BY IndexTypes
        <5> QED BY <1>2, <1>3, <5>1, <5>2
      <4> QED BY <1>3, <3>2, <4>1
    <3> QED BY <1>2, <2>1, <3>1, <3>2
  <2>2. /\ \A p \in Local!Rows : Stamp(p) <= Local!LastListed(p)
        /\ \A p \in Parties \ Known, q \in Local!Rows : Stamp(q) <= Local!LastUnlisted(p)
    BY DEF IndexInv, RowsInv
  <2> QED BY <1>1, <1>2, <1>3, <1>4, <2>1, <2>2 DEF RowsInv
<1>7. \A p \in Parties : /\ Local!LastListed(p)' >= Local!LastListed(p)
                         /\ Local!LastUnlisted(p)' >= Local!LastUnlisted(p)
  BY <1>4, LastTypes
<1>8. UNCHANGED <<ageCache, screen>> /\ day' >= day
  BY <1>1, <1>2
<1> QED BY <1>5, <1>6, <1>7, <1>8, StillSpeaks DEF IndexInv

LEMMA DownloadStep ==
    ASSUME Local!SanctionsIndexAssumption, IndexType, IndexInv, IndexType', Local!Download
    PROVE  IndexInv'
<1>1. /\ UNCHANGED <<day, listed, changed, index, began, torn, ageCache, screen>>
      /\ refresh.phase = "download"
      /\ \/ refresh' = [phase |-> "idle"]
         \/ refresh' = [phase |-> "upsert", rows |-> Local!Cardinality(listed), left |-> listed]
  BY DEF Local!Download, Local!publisher
<1>2. UNCHANGED <<day, listed, changed, began, ageCache, screen>>
  BY <1>1
<1>3. Len(began) > 0
  BY <1>1 DEF IndexInv, RowsInv
<1>4. Local!Rows' = Local!Rows /\ Known \subseteq Known'
  BY <1>1 DEF Local!Rows, Known, Local!Missing
<1>5. StampsInv' /\ AgeInv' /\ \A s \in Screens : ScreenInv(s)'
  <2>1. \A p \in Local!Rows' : p \in Local!Rows /\ index'[p] = index[p]
    BY <1>1, <1>4
  <2>2. \A p \in Parties \ Known' : p \notin Known
    BY <1>4
  <2> QED BY <1>2, <1>3, <2>1, <2>2, QuietStep
<1>6. refresh'.phase \in {"upsert", "sweep"} =>
        \A p \in Parties : /\ p \in refresh'.left \/ LastRun <= Local!LastUnlisted(p)
                           /\ p \in refresh'.left => LastRun <= Local!LastListed(p)
  BY <1>1, <1>3, RunTypes DEF Local!LastListed, Local!LastUnlisted
<1>7. LastRun' = LastRun /\ \A p : /\ Local!LastListed(p)' = Local!LastListed(p)
                                   /\ Local!LastUnlisted(p)' = Local!LastUnlisted(p)
  BY <1>1 DEF LastRun, Local!LastListed, Local!LastUnlisted
<1>8. refresh'.phase # "sweep" /\ began' = began
  BY <1>1
<1>9. RowsInv'
  BY <1>3, <1>5, <1>6, <1>7, <1>8 DEF RowsInv, StampsInv
<1> QED BY <1>5, <1>9 DEF IndexInv

LEMMA UpsertStep ==
    ASSUME Local!SanctionsIndexAssumption, IndexType, IndexInv, IndexType', Local!Upsert
    PROVE  IndexInv'
<1>1. /\ UNCHANGED <<day, listed, changed, began, ageCache, screen>>
      /\ refresh.phase = "upsert"
  BY DEF Local!Upsert, Local!publisher
<1>2. PICK p \in refresh.left :
         /\ index' = [index EXCEPT ![p] = Local!This]
         /\ torn' = torn \ {p}
         /\ refresh' = [refresh EXCEPT !.left = @ \ {p},
                           !.phase = IF refresh.left = {p} THEN "sweep" ELSE "upsert"]
  BY DEF Local!Upsert
<1>3. Len(began) > 0 /\ Local!This = Len(began) /\ Len(began) \in Nat
  BY <1>1, IndexTypes DEF IndexInv, RowsInv, Local!This
<1>4. /\ refresh'.left = refresh.left \ {p} /\ refresh.left \subseteq Parties
      /\ refresh'.phase = IF refresh.left = {p} THEN "sweep" ELSE "upsert"
  BY <1>1, <1>2, RefreshTypes
<1>5. /\ p \in Parties /\ index'[p] = Len(began)
      /\ \A q \in Parties \ {p} : index'[q] = index[q]
  BY <1>2, <1>3, <1>4, IndexTypes
<1>6. \A q \in Parties :
         /\ index[q] = Len(began) \/ q \in refresh.left \/ LastRun <= Local!LastUnlisted(q)
         /\ q \in refresh.left => LastRun <= Local!LastListed(q)
  BY <1>1 DEF IndexInv, RowsInv
<1>7. StampsInv' /\ AgeInv' /\ \A s \in Screens : ScreenInv(s)'
  <2>1. \A q \in Local!Rows' : (q \in Local!Rows /\ index'[q] = index[q]) \/ q \in {p}
    BY <1>5 DEF Local!Rows
  <2>2. \A q \in {p} : index'[q] = Len(began) /\ LastRun <= Local!LastListed(q)
    BY <1>5, <1>6
  <2>3. ASSUME NEW q \in Parties \ Known' PROVE LastRun <= Local!LastUnlisted(q)
    <3>1. q \in Parties /\ index'[q] = 0
      BY DEF Known, Local!Rows
    <3>2. q # p
      BY <1>3, <1>5, <3>1
    <3>3. index[q] # Len(began)
      BY <1>3, <1>5, <3>1, <3>2
    <3>4. q \notin refresh.left
      <4>1. CASE refresh.left = {p}
        BY <3>2, <4>1
      <4>2. CASE refresh.left # {p}
        BY <1>4, <3>2, <4>2 DEF Known, Local!Missing
      <4> QED BY <4>1, <4>2
    <3> QED BY <1>6, <3>1, <3>3, <3>4
  <2>4. {p} \in SUBSET Parties
    BY <1>5
  <2> QED BY <1>1, <1>3, <2>1, <2>2, <2>3, <2>4, LoaderStep
<1>8. LastRun' = LastRun /\ \A q : /\ Local!LastListed(q)' = Local!LastListed(q)
                                   /\ Local!LastUnlisted(q)' = Local!LastUnlisted(q)
  BY <1>1 DEF LastRun, Local!LastListed, Local!LastUnlisted
<1>9. \A q \in Parties :
         /\ index'[q] = Len(began) \/ q \in refresh'.left \/ LastRun <= Local!LastUnlisted(q)
         /\ q \in refresh'.left => LastRun <= Local!LastListed(q)
  BY <1>4, <1>5, <1>6
<1>10. refresh'.phase = "sweep" => refresh'.left = {}
  BY <1>4
<1>11. RowsInv'
  BY <1>1, <1>3, <1>7, <1>8, <1>9, <1>10 DEF RowsInv, StampsInv
<1> QED BY <1>7, <1>11 DEF IndexInv

\* A refresh that ends, with or without a last change to the rows, and that
\* remembers who it stopped short of.
LEMMA EndStep ==
    ASSUME Local!SanctionsIndexAssumption, IndexType, IndexInv, IndexType',
           Local!UpsertFails \/ Local!Sweep \/ Local!JobDies
    PROVE  IndexInv'
<1>1. /\ UNCHANGED <<day, listed, changed, began, ageCache, screen>>
      /\ refresh' = [phase |-> "idle"] /\ refresh.phase # "idle"
  BY DEF Local!UpsertFails, Local!Sweep, Local!JobDies, Local!publisher
<1>2. Len(began) > 0 /\ Local!This = Len(began) /\ Len(began) \in Nat
  BY <1>1, IndexTypes DEF IndexInv, RowsInv, Local!This
<1>3. refresh.phase \in {"upsert", "sweep"} =>
        \A q \in Parties :
         /\ index[q] = Len(began) \/ q \in refresh.left \/ LastRun <= Local!LastUnlisted(q)
         /\ q \in refresh.left => LastRun <= Local!LastListed(q)
  BY DEF IndexInv, RowsInv
<1>4. Local!Missing' = torn'
  BY <1>1 DEF Local!Missing
<1>5. StampsInv' /\ AgeInv' /\ \A s \in Screens : ScreenInv(s)'
  <2>1. CASE Local!UpsertFails
    <3>1. PICK written \in {{}} \cup {{p} : p \in refresh.left} :
             /\ index' = [p \in Parties |-> IF p \in written THEN Local!This ELSE index[p]]
             /\ torn' = (torn \ written) \cup {p \in refresh.left \ written : index[p] = 0}
      BY <2>1 DEF Local!UpsertFails
    <3>2. refresh.phase = "upsert"
      BY <2>1 DEF Local!UpsertFails
    <3>3. written \subseteq refresh.left /\ written \in SUBSET Parties
      BY <3>2, RefreshTypes
    <3>4. \A q \in Local!Rows' : (q \in Local!Rows /\ index'[q] = index[q]) \/ q \in written
      BY <3>1 DEF Local!Rows
    <3>5. \A q \in written : index'[q] = Len(began) /\ LastRun <= Local!LastListed(q)
      BY <1>2, <1>3, <3>1, <3>2, <3>3
    <3>6. ASSUME NEW q \in Parties \ Known' PROVE LastRun <= Local!LastUnlisted(q)
      <4>1. q \in Parties /\ index'[q] = 0 /\ q \notin torn'
        BY <1>4 DEF Known, Local!Rows
      <4>2. q \notin written /\ index[q] = 0
        BY <1>2, <3>1, <4>1
      <4>3. q \notin refresh.left
        BY <3>1, <4>1, <4>2
      <4> QED BY <1>2, <1>3, <3>2, <4>1, <4>2, <4>3
    <3> QED BY <1>1, <1>2, <3>3, <3>4, <3>5, <3>6, LoaderStep
  <2>2. CASE Local!Sweep
    <3>1. refresh.phase = "sweep" /\ refresh.left = {} /\ torn' = torn
      BY <2>2 DEF Local!Sweep, IndexInv, RowsInv
    <3>2. \/ index' = index
          \/ index' = [p \in Parties |-> IF Local!Delisted(p) THEN 0 ELSE index[p]]
      BY <2>2 DEF Local!Sweep
    <3>3. index \in [Parties -> Nat]
      BY IndexTypes
    <3>4. \A q \in Local!Rows' : q \in Local!Rows /\ index'[q] = index[q]
      BY <3>2, <3>3 DEF Local!Rows
    <3>5. ASSUME NEW q \in Parties \ Known' PROVE LastRun <= Local!LastUnlisted(q)
      <4>1. q \in Parties /\ index'[q] = 0
        BY DEF Known, Local!Rows
      <4>2. index[q] # Len(began)
        BY <1>2, <3>2, <3>3, <4>1 DEF Local!Delisted
      <4> QED BY <1>3, <3>1, <4>1, <4>2
    <3> QED BY <1>1, <1>2, <3>4, <3>5, QuietStep
  <2>3. CASE Local!JobDies
    <3>1. /\ index' = index
          /\ torn' = IF refresh.phase = "upsert"
                     THEN torn \cup {p \in refresh.left : index[p] = 0} ELSE torn
      BY <2>3 DEF Local!JobDies
    <3>2. Local!Rows' = Local!Rows
      BY <3>1 DEF Local!Rows
    <3>3. Known \subseteq Known'
      <4>1. refresh.phase = "upsert" => refresh.left \subseteq Parties
        BY RefreshTypes
      <4> QED BY <1>4, <3>1, <3>2, <4>1 DEF Known, Local!Missing, Local!Rows
    <3>4. \A q \in Local!Rows' : q \in Local!Rows /\ index'[q] = index[q]
      BY <3>1, <3>2
    <3>5. \A q \in Parties \ Known' : q \notin Known
      BY <3>3
    <3> QED BY <1>1, <1>2, <3>4, <3>5, QuietStep
  <2> QED BY <2>1, <2>2, <2>3
<1>6. RowsInv'
  BY <1>1, <1>2, <1>5 DEF RowsInv, StampsInv
<1> QED BY <1>5, <1>6 DEF IndexInv

\* An index that speaks for a day speaks for the days before it.
LEMMA SpeaksForEarlier ==
    ASSUME Local!SanctionsIndexAssumption, IndexType,
           NEW d \in Int, NEW e \in Int, d <= e, SpeaksFor(e)
    PROVE  SpeaksFor(d)
<1>1. Local!Rows \subseteq Parties
  BY DEF Local!Rows
<1> QED BY <1>1, RunTypes, LastTypes DEF SpeaksFor

\* The index speaks for the day of its oldest row.
LEMMA OldestSpeaks ==
    ASSUME Local!SanctionsIndexAssumption, IndexType, RowsInv, Local!Oldest # Local!NoAge
    PROVE  Local!Oldest \in Nat /\ SpeaksFor(Local!Oldest)
<1>1. Local!Rows # {}
  BY DEF Local!Oldest
<1>2. PICK q \in Local!Rows : /\ Local!Oldest = began[index[q]]
                              /\ \A p \in Local!Rows : index[q] <= index[p]
  BY <1>1, OldestStamp
<1>3. Local!Oldest = Stamp(q) /\ Stamp(q) \in Nat /\ Len(began) > 0
  BY <1>2, RunTypes DEF Stamp
<1>4. Stamp(q) <= LastRun /\ \A p \in Local!Rows : Stamp(q) <= Stamp(p)
  BY <1>2, StampsGrow
<1>5. \A p \in Parties \ Known : Stamp(q) <= Local!LastUnlisted(p)
  BY DEF RowsInv
<1> QED BY <1>3, <1>4, <1>5 DEF SpeaksFor

\* A screen goes on only with an index that speaks for its earliest day.
LEMMA UsableSpeaks ==
    ASSUME Local!SanctionsIndexAssumption, IndexType, NEW start \in Nat, start <= day,
           NEW oldest \in Nat, oldest # Local!NoAge => SpeaksFor(oldest), Local!Usable(oldest)
    PROVE  SpeaksFor(start - StaleAfterDays)
<1>1. day \in Nat /\ StaleAfterDays \in Nat
  BY IndexTypes, IndexBounds
<1>2. start - StaleAfterDays \in Int /\ start - StaleAfterDays <= oldest /\ oldest \in Int
  BY <1>1 DEF Local!Usable
<1>3. SpeaksFor(oldest)
  BY DEF Local!Usable
<1> QED BY <1>2, <1>3, SpeaksForEarlier

\* A step of one screen.
LEMMA OneScreen ==
    ASSUME Local!SanctionsIndexAssumption, IndexType, IndexInv, NEW s \in Screens, NEW to,
           UNCHANGED <<day, listed, changed, index, began, refresh, torn>>,
           screen' = [screen EXCEPT ![s] = to], AgeInv',
           to.phase = "age" => to.start <= day,
           to.phase = "exact" => SpeaksFor(to.start - StaleAfterDays),
           to.phase \in {"probe", "clean"} /\ ~to.missed =>
              Local!LastUnlisted(to.party) + StaleAfterDays >= to.start,
           to.phase = "hit" => Local!LastListed(to.party) + StaleAfterDays >= to.start
    PROVE  IndexInv'
<1>1. /\ Local!Rows' = Local!Rows /\ Local!Missing' = Local!Missing /\ Known' = Known
      /\ LastRun' = LastRun
      /\ \A p : Stamp(p)' = Stamp(p)
      /\ \A p : /\ Local!LastListed(p)' = Local!LastListed(p)
                /\ Local!LastUnlisted(p)' = Local!LastUnlisted(p)
  BY DEF Local!Rows, Local!Missing, Known, LastRun, Stamp,
         Local!LastListed, Local!LastUnlisted
<1>2. RowsInv'
  BY <1>1 DEF IndexInv, RowsInv
<1>3. \A d : SpeaksFor(d) = SpeaksFor(d)'
  BY <1>1 DEF SpeaksFor
<1>4. ASSUME NEW t \in Screens PROVE ScreenInv(t)'
  <2>1. screen'[t] = IF t = s THEN to ELSE screen[t]
    BY DEF IndexType, Local!TypeOK
  <2>2. ScreenInv(t)
    BY DEF IndexInv
  <2>3. SpeaksFor(screen'[t].start - StaleAfterDays)
            = SpeaksFor(screen[t].start - StaleAfterDays)'
    BY <1>1 DEF SpeaksFor
  <2>4. CASE t = s
    BY <1>1, <2>1, <2>3, <2>4 DEF ScreenInv
  <2>5. CASE t # s
    BY <1>1, <2>1, <2>2, <2>3, <2>5 DEF ScreenInv
  <2> QED BY <2>4, <2>5
<1> QED BY <1>2, <1>4 DEF IndexInv

LEMMA ScreenStep ==
    ASSUME Local!SanctionsIndexAssumption, IndexType, IndexInv, NEW s \in Screens,
           Local!Start(s) \/ Local!ListRefreshedAt(s) \/ Local!Exact(s) \/ Local!Probe(s)
    PROVE  IndexInv'
<1> USE DEF Local!publisher, Local!loader
<1>1. UNCHANGED <<day, listed, changed, index, began, refresh, torn>>
  BY DEF Local!Start, Local!ListRefreshedAt, Local!Exact, Local!Probe
<1>2. \A d : SpeaksFor(d) => SpeaksFor(d)'
  BY <1>1 DEF SpeaksFor, Known, Local!Rows, Local!Missing, LastRun, Stamp, Local!LastUnlisted
<1>3. ageCache' = ageCache => AgeInv'
  <2> SUFFICES ASSUME ageCache' = ageCache, ageCache.read, ageCache.oldest # Local!NoAge
               PROVE  SpeaksFor(ageCache.oldest)'
    BY DEF AgeInv
  <2>1. PICK d : d = ageCache.oldest
    OBVIOUS
  <2>2. SpeaksFor(d)'
    BY <1>2, <2>1 DEF IndexInv, AgeInv
  <2> QED BY <1>1, <2>1, <2>2 DEF SpeaksFor
<1>4. day \in Nat
  BY IndexTypes
<1>5. ASSUME screen' = [screen EXCEPT ![s] = [phase |-> "unscreened"]], AgeInv'
      PROVE  IndexInv'
  BY <1>1, <1>5, OneScreen
<1>6. ASSUME NEW p \in Parties, NEW start \in Nat, start <= day,
             NEW oldest \in Nat, oldest # Local!NoAge => SpeaksFor(oldest),
             Local!Enter(s, p, start, oldest), AgeInv'
      PROVE  IndexInv'
  <2>1. CASE Local!Usable(oldest)
    <3> DEFINE to == [phase |-> "exact", party |-> p, start |-> start, missed |-> FALSE]
    <3>1. SpeaksFor(to.start - StaleAfterDays)
      <4>1. SpeaksFor(start - StaleAfterDays)
        BY <1>6, <2>1, UsableSpeaks
      <4> QED BY <4>1
    <3>2. screen' = [screen EXCEPT ![s] = to] /\ to.phase = "exact"
      BY <1>6, <2>1 DEF Local!Enter
    <3> HIDE DEF to
    <3> QED BY <1>1, <1>6, <3>1, <3>2, OneScreen
  <2>2. CASE ~Local!Usable(oldest)
    BY <1>5, <1>6, <2>2 DEF Local!Enter
  <2> QED BY <2>1, <2>2
<1>7. CASE Local!Start(s)
  <2>1. ageCache' = ageCache
    BY <1>7 DEF Local!Start
  <2>2. PICK p \in Parties :
           IF ageCache.read THEN Local!Enter(s, p, day, ageCache.oldest)
           ELSE screen' = [screen EXCEPT ![s] =
                             [phase |-> "age", party |-> p, start |-> day, missed |-> FALSE]]
    BY <1>7 DEF Local!Start
  <2>3. CASE ageCache.read
    <3>1. PICK oldest \in Nat : oldest = ageCache.oldest
      BY <2>3, AgeType
    <3>2. oldest # Local!NoAge => SpeaksFor(oldest)
      BY <2>3, <3>1 DEF IndexInv, AgeInv
    <3>3. Local!Enter(s, p, day, oldest) /\ day <= day
      BY <1>4, <2>2, <2>3, <3>1
    <3> QED BY <1>3, <1>4, <1>6, <2>1, <3>2, <3>3
  <2>4. CASE ~ageCache.read
    <3> DEFINE to == [phase |-> "age", party |-> p, start |-> day, missed |-> FALSE]
    <3>1. screen' = [screen EXCEPT ![s] = to] /\ to.phase = "age" /\ to.start <= day
      BY <1>4, <2>2, <2>4
    <3> HIDE DEF to
    <3> QED BY <1>1, <1>3, <2>1, <3>1, OneScreen
  <2> QED BY <2>3, <2>4
<1>8. CASE Local!ListRefreshedAt(s)
  <2>0. screen[s].phase = "age"
    BY <1>8 DEF Local!ListRefreshedAt
  <2>1. CASE /\ ageCache' = [read |-> TRUE, oldest |-> Local!Oldest]
             /\ Local!Enter(s, screen[s].party, screen[s].start, Local!Oldest)
    <3>1. screen[s].party \in Parties /\ screen[s].start \in Nat /\ screen[s].start <= day
      BY <2>0, ScreenParty DEF IndexInv, ScreenInv
    <3>2. Local!Oldest \in Nat
      BY OldestSpeaks DEF IndexInv, Local!NoAge
    <3>3. Local!Oldest # Local!NoAge => SpeaksFor(Local!Oldest)
      BY OldestSpeaks DEF IndexInv
    <3>4. AgeInv'
      <4> SUFFICES ASSUME Local!Oldest # Local!NoAge PROVE SpeaksFor(ageCache.oldest)'
        BY <2>1 DEF AgeInv
      <4>1. PICK d : d = Local!Oldest
        OBVIOUS
      <4>2. SpeaksFor(d)'
        BY <1>2, <3>3, <4>1
      <4>3. ageCache'.oldest = d
        BY <2>1, <4>1
      <4> QED BY <1>1, <4>2, <4>3 DEF SpeaksFor
    <3> QED BY <1>6, <2>1, <3>1, <3>2, <3>3, <3>4
  <2>2. CASE ageCache' = ageCache /\ Local!Unscreened(s)
    BY <1>3, <1>5, <2>2 DEF Local!Unscreened
  <2> QED BY <1>8, <2>1, <2>2 DEF Local!ListRefreshedAt
<1>9. CASE Local!Exact(s)
  <2>1. ageCache' = ageCache /\ screen[s].phase = "exact"
    BY <1>9 DEF Local!Exact
  <2>2. CASE Local!Unscreened(s)
    BY <1>3, <1>5, <2>1, <2>2 DEF Local!Unscreened
  <2>3. CASE screen' = [screen EXCEPT
               ![s].phase = IF screen[s].party \in Local!Rows THEN "hit" ELSE "probe",
               ![s].missed = screen[s].party \in Local!Missing]
    <3>1. PICK at, missed : /\ at = IF screen[s].party \in Local!Rows THEN "hit" ELSE "probe"
                            /\ missed = (screen[s].party \in Local!Missing)
      OBVIOUS
    <3> DEFINE to == [phase |-> at, party |-> screen[s].party, start |-> screen[s].start,
                      missed |-> missed]
    <3>2. screen' = [screen EXCEPT ![s] = to]
      <4>1. screen' = [screen EXCEPT ![s].phase = at, ![s].missed = missed]
        BY <2>3, <3>1
      <4> QED BY <2>1, <4>1, ScreenUpdate
    <3>3. PICK p \in Parties, start \in Nat : p = screen[s].party /\ start = screen[s].start
      BY <2>1, ScreenParty
    <3>4. /\ p \in Local!Rows => start - StaleAfterDays <= Stamp(p)
          /\ p \notin Known => start - StaleAfterDays <= Local!LastUnlisted(p)
      BY <2>1, <3>3 DEF IndexInv, ScreenInv, SpeaksFor
    <3>5. p \in Local!Rows =>
             Stamp(p) \in Nat /\ Stamp(p) <= Local!LastListed(p)
      BY RunTypes DEF IndexInv, RowsInv
    <3>6. Local!LastListed(p) \in Nat /\ Local!LastUnlisted(p) \in Nat /\ StaleAfterDays \in Nat
      BY LastTypes, IndexBounds
    <3>7. /\ p \in Local!Rows => Local!LastListed(p) + StaleAfterDays >= start
          /\ p \notin Known => Local!LastUnlisted(p) + StaleAfterDays >= start
      BY <3>4, <3>5, <3>6
    <3>8. /\ to.phase \in {"hit", "probe"} /\ to.party = p /\ to.start = start
          /\ to.phase = "hit" => p \in Local!Rows
          /\ to.phase = "probe" /\ ~to.missed => p \notin Known
      BY <3>1, <3>3 DEF Known
    <3>9. /\ to.phase = "hit" => Local!LastListed(to.party) + StaleAfterDays >= to.start
          /\ to.phase = "probe" /\ ~to.missed =>
                Local!LastUnlisted(to.party) + StaleAfterDays >= to.start
      BY <3>7, <3>8
    <3> HIDE DEF to
    <3> QED BY <1>1, <1>3, <2>1, <3>2, <3>8, <3>9, OneScreen
  <2> QED BY <1>9, <2>2, <2>3 DEF Local!Exact, Local!Failure
<1>10. CASE Local!Probe(s)
  <2>1. ageCache' = ageCache /\ screen[s].phase = "probe"
    BY <1>10 DEF Local!Probe
  <2>2. CASE Local!Unscreened(s)
    BY <1>3, <1>5, <2>1, <2>2 DEF Local!Unscreened
  <2>3. CASE Local!Goto(s, "clean")
    <3> DEFINE to == [phase |-> "clean", party |-> screen[s].party, start |-> screen[s].start,
                      missed |-> screen[s].missed]
    <3>1. screen' = [screen EXCEPT ![s] = to]
      BY <2>1, <2>3, ScreenUpdate DEF Local!Goto
    <3>2. /\ to.phase = "clean"
          /\ ~to.missed => Local!LastUnlisted(to.party) + StaleAfterDays >= to.start
      BY <2>1 DEF IndexInv, ScreenInv
    <3> HIDE DEF to
    <3> QED BY <1>1, <1>3, <2>1, <3>1, <3>2, OneScreen
  <2> QED BY <1>10, <2>2, <2>3 DEF Local!Probe
<1> QED BY <1>7, <1>8, <1>9, <1>10

LEMMA IndexInvHolds ==
    ASSUME Local!SanctionsIndexAssumption
    PROVE  Local!Spec => []IndexInv
<1> USE DEF Local!publisher, Local!loader
<1>1. Local!Init => IndexInv
  BY DEF Local!Init, IndexInv, RowsInv, AgeInv, ScreenInv, Local!Unread, Local!Rows
<1>2. IndexInv /\ IndexType /\ IndexType' /\ [Local!Next]_Local!vars => IndexInv'
  <2> SUFFICES ASSUME IndexInv, IndexType, IndexType', [Local!Next]_Local!vars
               PROVE  IndexInv'
    OBVIOUS
  <2>1. ASSUME NEW p \in Parties, Local!Publish(p) PROVE IndexInv'
    <3>1. UNCHANGED <<index, began, refresh, torn, ageCache, screen>> /\ day' >= day
      BY <2>1, IndexTypes DEF Local!Publish
    <3>2. \A q \in Parties : /\ Local!LastListed(q)' >= Local!LastListed(q)
                             /\ Local!LastUnlisted(q)' >= Local!LastUnlisted(q)
      BY <2>1, IndexTypes DEF Local!Publish, Local!LastListed, Local!LastUnlisted, IndexType
    <3> QED BY <3>1, <3>2, PublisherStep
  <2>2. CASE Local!Midnight
    <3>1. UNCHANGED <<index, began, refresh, torn, ageCache, screen>> /\ day' >= day
      BY <2>2, IndexTypes DEF Local!Midnight
    <3>2. \A q \in Parties : /\ Local!LastListed(q)' >= Local!LastListed(q)
                             /\ Local!LastUnlisted(q)' >= Local!LastUnlisted(q)
      BY <2>2, IndexTypes DEF Local!Midnight, Local!LastListed, Local!LastUnlisted, IndexType
    <3> QED BY <3>1, <3>2, PublisherStep
  <2>3. CASE Local!AgeLapses
    <3>1. UNCHANGED <<day, listed, changed, index, began, refresh, torn, screen>>
      BY <2>3 DEF Local!AgeLapses
    <3>2. AgeInv'
      BY <2>3 DEF Local!AgeLapses, AgeInv, Local!Unread
    <3>3. RowsInv'
      BY <3>1 DEF IndexInv, RowsInv, Known, Stamp, LastRun, Local!Rows, Local!Missing,
                  Local!LastListed, Local!LastUnlisted
    <3>4. \A s \in Screens : ScreenInv(s)'
      BY <3>1 DEF IndexInv, ScreenInv, SpeaksFor, Known, Stamp, LastRun, Local!Rows,
                  Local!Missing, Local!LastListed, Local!LastUnlisted
    <3> QED BY <3>2, <3>3, <3>4 DEF IndexInv
  <2>4. CASE UNCHANGED Local!vars
    <3>1. UNCHANGED <<day, listed, changed, index, began, refresh, torn, ageCache, screen>>
      BY <2>4 DEF Local!vars
    <3> QED BY <3>1 DEF IndexInv, RowsInv, AgeInv, ScreenInv, SpeaksFor, Known, Stamp, LastRun,
                        Local!Rows, Local!Missing, Local!LastListed, Local!LastUnlisted
  <2> QED BY <2>1, <2>2, <2>3, <2>4, BeginStep, DownloadStep, UpsertStep, EndStep, ScreenStep
          DEF Local!Next
<1> QED BY <1>1, <1>2, IndexTypeCorrect, PTL DEF Local!Spec

\* A clean answer is about a list of no more than StaleAfterDays days before
\* the screen began, whatever refreshes fail, lapse or overlap with it.
THEOREM CleanHolds ==
    ASSUME Local!SanctionsIndexAssumption
    PROVE  Local!Spec => []CleanIsCurrent
<1>1. IndexInv => CleanIsCurrent
  BY DEF IndexInv, ScreenInv, CleanIsCurrent, Local!CleanIsCurrent
<1> QED BY <1>1, IndexInvHolds, PTL

\* Nor does a hit speak of an older list.
THEOREM HitsHold ==
    ASSUME Local!SanctionsIndexAssumption
    PROVE  Local!Spec => []HitsAreCurrent
<1>1. IndexInv => HitsAreCurrent
  BY DEF IndexInv, ScreenInv, HitsAreCurrent, Local!HitsAreCurrent
<1> QED BY <1>1, IndexInvHolds, PTL

-----------------------------------------------------------------------------
(***************************************************************************)
(* OfacFiles, for any lookups, times to live and bound on the clock.       *)
(***************************************************************************)

Held == Treasury!Copy \cup {Treasury!None}
Phases == Treasury!Files \cup {"merge", "fresh", "stale"}
Busy == [phase : Phases, start : Nat, now : Nat, held : Held, used : [Treasury!Files -> Held]]

\* A call before it asks for the names.
Asking == Busy \cup [phase : {"idle"}, start : Nat, now : Nat, held : Held,
                    used : [Treasury!Files -> Held]]

LEMMA FileBounds ==
    Treasury!OfacFilesAssumption =>
        /\ TTL \in Nat /\ MaxAge \in Nat /\ MaxTime \in Nat
        /\ 1 < TTL /\ TTL <= MaxAge
BY DEF Treasury!OfacFilesAssumption

LEMMA HeldTypes ==
    ASSUME NEW k \in Held, k.got
    PROVE  k.at \in Nat /\ k.asOf \in Nat
<1>1. k = [got |-> FALSE] \/ k \in [got : {TRUE}, at : Nat, asOf : Nat]
  BY DEF Held, Treasury!Copy, Treasury!None
<1>2. k # [got |-> FALSE]
  OBVIOUS
<1> QED BY <1>1, <1>2

LEMMA LookupTypes == Treasury!Lookup = [phase : {"idle", "unscreened"}] \cup Busy
BY DEF Treasury!Lookup, Busy, Phases, Held

LEMMA BusyRecord ==
    ASSUME NEW at \in Phases, NEW start \in Nat, NEW now \in Nat, NEW held \in Held,
           NEW used \in [Treasury!Files -> Held]
    PROVE  [phase |-> at, start |-> start, now |-> now, held |-> held, used |-> used] \in Busy
BY DEF Busy

\* A call that is under way, or that has an answer.
LEMMA BusyLookup ==
    ASSUME Treasury!TypeOK, NEW c \in Lookups, lookup[c].phase \in Phases
    PROVE  /\ lookup[c] \in Busy
           /\ lookup[c] = [phase |-> lookup[c].phase, start |-> lookup[c].start,
                           now |-> lookup[c].now, held |-> lookup[c].held,
                           used |-> lookup[c].used]
<1>1. lookup[c] \in Treasury!Lookup
  BY DEF Treasury!TypeOK
<1>2. lookup[c] \in Busy
  BY <1>1, LookupTypes DEF Phases, Treasury!Files
<1> QED BY <1>2 DEF Busy

\* What a copy that a call used says of the lists of the day it began: it is
\* not too old, and if it was past its time to live that is marked, or the
\* process has a newer one.
UsedInv(u, g, start, k, cs, ms) ==
    u.got =>
        /\ u.asOf + MaxAge >= start
        /\ \/ u.at + TTL > start
           \/ u.at + TTL <= k /\ (g \in ms \/ (cs[g].got /\ cs[g].at > u.at))

\* What holds of a call at time k, with copies cs and marks ms.
CallInv(r, k, cs, ms) ==
    /\ r.start <= r.now /\ r.now <= k
    /\ r.phase \in Treasury!Files =>
          /\ k <= r.now + 1
          /\ r.held.got => r.held.at <= r.held.asOf /\ r.held.at + TTL <= r.now
    /\ \A g \in Treasury!Files :
          UsedInv(r.used[g], g, r.start, k, cs, IF r.phase = "fresh" THEN {} ELSE ms)
    /\ r.phase \in {"fresh", "stale"} => \A g \in Treasury!Files : r.used[g].got

\* The strengthening of CopiesAreCurrent and AgeIsTold.
FilesInv ==
    /\ Treasury!TypeOK
    /\ \A f \in Treasury!Files : copies[f].got => copies[f].at <= copies[f].asOf
    /\ \A c \in Lookups : lookup[c].phase \in Phases => CallInv(lookup[c], clock, copies, marked)

LEMMA CallUpdate ==
    ASSUME NEW A, NEW B, NEW C, NEW D, NEW E, NEW x,
           NEW r \in [phase : A, start : B, now : C, held : D, used : E]
    PROVE  /\ [r EXCEPT !.phase = x] = [phase |-> x, start |-> r.start, now |-> r.now,
                                        held |-> r.held, used |-> r.used]
           /\ [r EXCEPT !.now = x] = [phase |-> r.phase, start |-> r.start, now |-> x,
                                      held |-> r.held, used |-> r.used]
           /\ [r EXCEPT !.held = x] = [phase |-> r.phase, start |-> r.start, now |-> r.now,
                                       held |-> x, used |-> r.used]
           /\ [r EXCEPT !.used = x] = [phase |-> r.phase, start |-> r.start, now |-> r.now,
                                       held |-> r.held, used |-> x]
OBVIOUS

\* What a call does that asks for a file.
LEMMA AskIs ==
    ASSUME Treasury!TypeOK, NEW r \in Asking, NEW f \in Treasury!Files
    PROVE  /\ Treasury!Cached(f) => Treasury!Ask(r, f) =
                 [phase |-> "merge", start |-> r.start, now |-> r.now, held |-> r.held,
                  used |-> [r.used EXCEPT ![f] = copies[f]]]
           /\ ~Treasury!Cached(f) => Treasury!Ask(r, f) =
                 [phase |-> f, start |-> r.start, now |-> clock, held |-> copies[f],
                  used |-> r.used]
<1>1. /\ r \in [phase : Phases \cup {"idle"}, start : Nat, now : Nat, held : Held,
                used : [Treasury!Files -> Held]]
      /\ r.used \in [Treasury!Files -> Held]
  BY DEF Busy, Asking
<1>2. Treasury!Cached(f) => Treasury!Ask(r, f) =
         [phase |-> "merge", start |-> r.start, now |-> r.now, held |-> r.held,
          used |-> [r.used EXCEPT ![f] = copies[f]]]
  <2> DEFINE u == [r.used EXCEPT ![f] = copies[f]]
             a == [phase |-> r.phase, start |-> r.start, now |-> r.now, held |-> r.held,
                   used |-> u]
  <2>1. [r EXCEPT !.used = u] = a
    <3> HIDE DEF u
    <3> QED BY <1>1, CallUpdate
  <2>2. [r EXCEPT !.used[f] = copies[f]] = [r EXCEPT !.used = u]
    BY <1>1
  <2>3. a \in [phase : {a.phase}, start : {a.start}, now : {a.now}, held : {a.held}, used : {a.used}]
    OBVIOUS
  <2>4. [a EXCEPT !.phase = "merge"] =
           [phase |-> "merge", start |-> a.start, now |-> a.now, held |-> a.held, used |-> a.used]
    <3> HIDE DEF a
    <3> QED BY <2>3, CallUpdate
  <2>5. [r EXCEPT !.used[f] = copies[f], !.phase = "merge"] =
           [[r EXCEPT !.used[f] = copies[f]] EXCEPT !.phase = "merge"]
    OBVIOUS
  <2>6. a.start = r.start /\ a.now = r.now /\ a.held = r.held /\ a.used = u
    OBVIOUS
  <2> HIDE DEF a
  <2>7. Treasury!Cached(f) =>
          Treasury!Ask(r, f) = [r EXCEPT !.used[f] = copies[f], !.phase = "merge"]
    BY DEF Treasury!Ask
  <2> QED BY <2>1, <2>2, <2>4, <2>5, <2>6, <2>7
<1>3. ~Treasury!Cached(f) => Treasury!Ask(r, f) =
         [phase |-> f, start |-> r.start, now |-> clock, held |-> copies[f], used |-> r.used]
  <2> DEFINE a == [phase |-> r.phase, start |-> r.start, now |-> clock, held |-> r.held,
                   used |-> r.used]
             b == [phase |-> r.phase, start |-> r.start, now |-> clock, held |-> copies[f],
                   used |-> r.used]
  <2>1. [r EXCEPT !.now = clock] = a
    BY <1>1, CallUpdate
  <2>2. a \in [phase : {a.phase}, start : {a.start}, now : {a.now}, held : {a.held}, used : {a.used}]
    OBVIOUS
  <2>3. [a EXCEPT !.held = copies[f]] =
          [phase |-> a.phase, start |-> a.start, now |-> a.now, held |-> copies[f], used |-> a.used]
    <3> HIDE DEF a
    <3> QED BY <2>2, CallUpdate
  <2>4. b \in [phase : {b.phase}, start : {b.start}, now : {b.now}, held : {b.held}, used : {b.used}]
    OBVIOUS
  <2>5. [b EXCEPT !.phase = f] =
          [phase |-> f, start |-> b.start, now |-> b.now, held |-> b.held, used |-> b.used]
    <3> HIDE DEF b
    <3> QED BY <2>4, CallUpdate
  <2>6. [r EXCEPT !.now = clock, !.held = copies[f], !.phase = f] =
          [[[r EXCEPT !.now = clock] EXCEPT !.held = copies[f]] EXCEPT !.phase = f]
    OBVIOUS
  <2>7. /\ b = [phase |-> a.phase, start |-> a.start, now |-> a.now, held |-> copies[f],
                used |-> a.used]
        /\ b.start = r.start /\ b.now = clock /\ b.held = copies[f] /\ b.used = r.used
    OBVIOUS
  <2> HIDE DEF a, b
  <2>8. ~Treasury!Cached(f) =>
          Treasury!Ask(r, f) = [r EXCEPT !.now = clock, !.held = copies[f], !.phase = f]
    BY DEF Treasury!Ask
  <2> QED BY <2>1, <2>3, <2>5, <2>6, <2>7, <2>8
<1> QED BY <1>2, <1>3

LEMMA AskType ==
    ASSUME Treasury!OfacFilesAssumption, Treasury!TypeOK, NEW r \in Asking, NEW f \in Treasury!Files
    PROVE  Treasury!Ask(r, f) \in Busy
<1>1. copies[f] \in Held /\ clock \in Nat
  BY FileBounds DEF Treasury!TypeOK, Held
<1>2. /\ r.start \in Nat /\ r.now \in Nat /\ r.held \in Held
      /\ r.used \in [Treasury!Files -> Held]
  BY DEF Asking, Busy
<1>3. "merge" \in Phases /\ f \in Phases
  BY DEF Phases
<1>4. [r.used EXCEPT ![f] = copies[f]] \in [Treasury!Files -> Held]
  BY <1>1, <1>2
<1> QED BY <1>1, <1>2, <1>3, <1>4, AskIs, BusyRecord

\* A call under way may ask for a file, whatever becomes of the other one and
\* of the marks in the same step.
LEMMA AskInv ==
    ASSUME Treasury!OfacFilesAssumption, FilesInv, NEW r \in Asking, NEW f \in Treasury!Files,
           NEW cs, NEW ms, CallInv(r, clock, cs, ms), r.phase # "fresh"
    PROVE  CallInv(Treasury!Ask(r, f), clock, cs, ms)
<1>1. copies[f] \in Held /\ clock \in Nat /\ TTL \in Nat /\ MaxAge \in Nat /\ TTL <= MaxAge
  BY FileBounds DEF FilesInv, Treasury!TypeOK, Held
<1>2. r.start \in Nat /\ r.now \in Nat /\ r.used \in [Treasury!Files -> Held]
  BY DEF Asking, Busy
<1>3. copies[f].got => copies[f].at <= copies[f].asOf
  BY DEF FilesInv
<1>4. copies[f].got => copies[f].at \in Nat /\ copies[f].asOf \in Nat
  BY <1>1, HeldTypes
<1>5. r.start <= r.now /\ r.now <= clock
  BY DEF CallInv
<1>6. \A g \in Treasury!Files : UsedInv(r.used[g], g, r.start, clock, cs, ms)
  BY DEF CallInv
<1>7. f # "fresh" /\ f \notin {"merge", "fresh", "stale"}
  BY DEF Treasury!Files
<1>8. CASE Treasury!Cached(f)
  <2> DEFINE u == [r.used EXCEPT ![f] = copies[f]]
             a == [phase |-> "merge", start |-> r.start, now |-> r.now, held |-> r.held,
                   used |-> u]
  <2>1. UsedInv(copies[f], f, r.start, clock, cs, ms)
    BY <1>1, <1>2, <1>3, <1>4, <1>5, <1>8 DEF UsedInv, Treasury!Cached
  <2>2. \A g \in Treasury!Files : UsedInv(u[g], g, r.start, clock, cs, ms)
    <3> SUFFICES ASSUME NEW g \in Treasury!Files
                 PROVE  UsedInv(u[g], g, r.start, clock, cs, ms)
      OBVIOUS
    <3>1. u[g] = IF g = f THEN copies[f] ELSE r.used[g]
      BY <1>2
    <3> HIDE DEF u
    <3>2. CASE g = f
      BY <2>1, <3>1, <3>2
    <3>3. CASE g # f
      BY <1>6, <3>1, <3>3
    <3> QED BY <3>2, <3>3
  <2>3. "merge" \notin Treasury!Files
    BY DEF Treasury!Files
  <2>4. Treasury!Ask(r, f) = a
    BY <1>8, AskIs DEF FilesInv
  <2>5. a.phase = "merge" /\ a.start = r.start /\ a.now = r.now /\ a.used = u
    OBVIOUS
  <2> HIDE DEF a, u
  <2> QED BY <1>5, <2>2, <2>3, <2>4, <2>5 DEF CallInv
<1>9. CASE ~Treasury!Cached(f)
  <2> DEFINE a == [phase |-> f, start |-> r.start, now |-> clock, held |-> copies[f],
                   used |-> r.used]
  <2>1. Treasury!Ask(r, f) = a
    BY <1>9, AskIs DEF FilesInv
  <2>2. copies[f].got => copies[f].at + TTL <= clock
    BY <1>1, <1>4, <1>9 DEF Treasury!Cached
  <2>3. /\ a.phase = f /\ a.start = r.start /\ a.now = clock /\ a.used = r.used
        /\ a.held = copies[f]
    OBVIOUS
  <2> HIDE DEF a
  <2>4. a.start <= a.now /\ a.now <= clock /\ clock <= a.now + 1
    BY <1>1, <1>2, <1>5, <2>3
  <2> QED BY <1>3, <1>6, <1>7, <2>1, <2>2, <2>3, <2>4 DEF CallInv
<1> QED BY <1>8, <1>9

\* A call that has a copy of file f, or none, and goes on.
LEMMA ReceiveIs ==
    ASSUME Treasury!TypeOK, NEW c \in Lookups, NEW f \in Treasury!Files, NEW copy \in Held,
           lookup[c].phase = f, Treasury!Receive(c, f, copy)
    PROVE  \E b \in Busy :
              /\ b = [phase |-> "merge", start |-> lookup[c].start, now |-> lookup[c].now,
                      held |-> Treasury!None, used |-> [lookup[c].used EXCEPT ![f] = copy]]
              /\ \/ lookup' = [lookup EXCEPT ![c] = b]
                 \/ lookup' = [lookup EXCEPT ![c] = Treasury!Ask(b, "alt")]
<1> DEFINE r == lookup[c]
           u == [r.used EXCEPT ![f] = copy]
<1>1. r \in Busy
  BY BusyLookup DEF Phases
<1>2. /\ r.start \in Nat /\ r.now \in Nat /\ r.held \in Held
      /\ r.used \in [Treasury!Files -> Held] /\ r.phase \in Phases
  BY <1>1 DEF Busy
<1>3. u \in [Treasury!Files -> Held]
  BY <1>2
<1>4. Treasury!None \in Held /\ "merge" \in Phases
  BY DEF Held, Phases
<1> DEFINE x == [phase |-> r.phase, start |-> r.start, now |-> r.now, held |-> r.held,
                 used |-> u]
           y == [phase |-> r.phase, start |-> r.start, now |-> r.now,
                 held |-> Treasury!None, used |-> u]
           b == [phase |-> "merge", start |-> r.start, now |-> r.now,
                 held |-> Treasury!None, used |-> u]
<1>5. x \in Busy /\ y \in Busy /\ b \in Busy
  BY <1>2, <1>3, <1>4, BusyRecord
<1>6. [r EXCEPT !.used[f] = copy] = [r EXCEPT !.used = u]
  BY <1>1 DEF Busy
<1>7. [r EXCEPT !.used = u] = x
  <2> HIDE DEF r, u
  <2> QED BY <1>1, CallUpdate DEF Busy
<1>8. [x EXCEPT !.held = Treasury!None] = y
  <2>1. /\ x.phase = r.phase /\ x.start = r.start /\ x.now = r.now /\ x.used = u
    OBVIOUS
  <2> HIDE DEF x, r, u
  <2> QED BY <1>5, <2>1, CallUpdate DEF Busy
<1>9. [y EXCEPT !.phase = "merge"] = b
  <2>1. /\ y.held = Treasury!None /\ y.start = r.start /\ y.now = r.now /\ y.used = u
    OBVIOUS
  <2> HIDE DEF y, r, u
  <2> QED BY <1>5, <2>1, CallUpdate DEF Busy
<1>10. [r EXCEPT !.used[f] = copy, !.held = Treasury!None, !.phase = "merge"] =
         [[[r EXCEPT !.used[f] = copy] EXCEPT !.held = Treasury!None] EXCEPT !.phase = "merge"]
  OBVIOUS
<1>11. [r EXCEPT !.used[f] = copy, !.held = Treasury!None, !.phase = "merge"] = b
  BY <1>6, <1>7, <1>8, <1>9, <1>10
<1>12. \/ lookup' = [lookup EXCEPT ![c] = b]
       \/ lookup' = [lookup EXCEPT ![c] = Treasury!Ask(b, "alt")]
  BY <1>11 DEF Treasury!Receive, Treasury!WithNames
<1> QED BY <1>5, <1>12

\* A step of call c alone to where it stands next.
LEMMA OneCall ==
    ASSUME Treasury!OfacFilesAssumption, FilesInv, NEW c \in Lookups, NEW to \in Treasury!Lookup,
           lookup' = [lookup EXCEPT ![c] = to], clock' \in 0..MaxTime,
           copies' \in [Treasury!Files -> Held], marked' \subseteq Treasury!Files,
           \A f \in Treasury!Files : copies'[f].got => copies'[f].at <= copies'[f].asOf,
           to.phase \in Phases => CallInv(to, clock', copies', marked'),
           \A d \in Lookups : lookup[d].phase \in Phases =>
                                 CallInv(lookup[d], clock', copies', marked')
    PROVE  FilesInv'
<1>1. \A d \in Lookups : lookup'[d] = IF d = c THEN to ELSE lookup[d]
  BY DEF FilesInv, Treasury!TypeOK
<1>2. Treasury!TypeOK'
  BY DEF FilesInv, Treasury!TypeOK, Held
<1>3. ASSUME NEW d \in Lookups, lookup'[d].phase \in Phases
      PROVE  CallInv(lookup'[d], clock', copies', marked')
  <2>1. CASE d = c
    <3>1. lookup'[d] = to
      BY <1>1, <2>1
    <3>2. to.phase \in Phases
      BY <1>3, <3>1
    <3>3. CallInv(to, clock', copies', marked')
      BY <3>2
    <3> QED BY <3>1, <3>3
  <2>2. CASE d # c
    <3>1. lookup'[d] = lookup[d]
      BY <1>1, <2>2
    <3>2. lookup[d].phase \in Phases
      BY <1>3, <3>1
    <3>3. CallInv(lookup[d], clock', copies', marked')
      BY <3>2
    <3> QED BY <3>1, <3>3
  <2> QED BY <2>1, <2>2
<1> QED BY <1>2, <1>3 DEF FilesInv

\* A fetch that succeeds takes a mark away and leaves a newer copy: no older
\* by more than a tick than the moment.
LEMMA CallsOutliveFetch ==
    ASSUME Treasury!OfacFilesAssumption, FilesInv, NEW r \in Busy,
           CallInv(r, clock, copies, marked),
           NEW f \in Treasury!Files, NEW copy \in Treasury!Copy, clock <= copy.at + 1
    PROVE  CallInv(r, clock, [copies EXCEPT ![f] = copy], marked \ {f})
<1> DEFINE cs == [copies EXCEPT ![f] = copy]
           ms(phase) == IF phase = "fresh" THEN {} ELSE marked
           ns(phase) == IF phase = "fresh" THEN {} ELSE marked \ {f}
<1>1. clock \in Nat /\ TTL \in Nat /\ 1 < TTL /\ copy.at \in Nat /\ copy.got
  <2>1. copy.got = TRUE /\ copy.at \in Nat
    BY DEF Treasury!Copy
  <2> QED BY <2>1, FileBounds DEF FilesInv, Treasury!TypeOK
<1>2. \A g \in Treasury!Files : cs[g] = IF g = f THEN copy ELSE copies[g]
  BY DEF FilesInv, Treasury!TypeOK
<1>3. r.used \in [Treasury!Files -> Held] /\ r.start \in Nat
  BY DEF Busy
<1>4. ASSUME NEW g \in Treasury!Files
      PROVE  UsedInv(r.used[g], g, r.start, clock, cs, ns(r.phase))
  <2>1. UsedInv(r.used[g], g, r.start, clock, copies, ms(r.phase))
    BY DEF CallInv
  <2> DEFINE u == r.used[g]
  <2>2. u \in Held
    BY <1>3
  <2> HIDE DEF u, cs
  <2>3. u.got => u.at \in Nat /\ u.asOf \in Nat
    BY <2>2, HeldTypes
  <2>4. UsedInv(u, g, r.start, clock, copies, ms(r.phase))
    BY <2>1 DEF u
  <2>5. UsedInv(u, g, r.start, clock, cs, ns(r.phase))
    BY <1>1, <1>2, <2>3, <2>4 DEF UsedInv
  <2> QED BY <2>5 DEF u
<1> HIDE DEF cs
<1> QED BY <1>4 DEF CallInv, cs

LEMMA CallsOutliveMarks ==
    ASSUME NEW r, CallInv(r, clock, copies, marked), NEW ms, marked \subseteq ms
    PROVE  CallInv(r, clock, copies, ms)
BY DEF CallInv, UsedInv

LEMMA CallsOutliveTicks ==
    ASSUME Treasury!OfacFilesAssumption, FilesInv, NEW r \in Busy,
           CallInv(r, clock, copies, marked), r.phase \in Treasury!Files => r.now = clock
    PROVE  CallInv(r, clock + 1, copies, marked)
<1>1. clock \in Nat /\ TTL \in Nat
  BY FileBounds DEF FilesInv, Treasury!TypeOK
<1>2. r.used \in [Treasury!Files -> Held] /\ r.now \in Nat
  BY DEF Busy
<1> DEFINE ms == IF r.phase = "fresh" THEN {} ELSE marked
<1>3. ASSUME NEW g \in Treasury!Files, NEW m,
             UsedInv(r.used[g], g, r.start, clock, copies, m)
      PROVE  UsedInv(r.used[g], g, r.start, clock + 1, copies, m)
  <2>1. r.used[g].got => r.used[g].at \in Nat
    BY <1>2, HeldTypes
  <2> QED BY <1>1, <1>3, <2>1 DEF UsedInv
<1>4. \A g \in Treasury!Files : UsedInv(r.used[g], g, r.start, clock + 1, copies, ms)
  BY <1>3 DEF CallInv
<1> QED BY <1>1, <1>2, <1>4 DEF CallInv

LEMMA FilesInvHolds ==
    ASSUME Treasury!OfacFilesAssumption
    PROVE  Treasury!Spec => []FilesInv
<1>1. Treasury!Init => FilesInv
  <2> SUFFICES ASSUME Treasury!Init PROVE FilesInv
    OBVIOUS
  <2>1. Treasury!TypeOK
    BY FileBounds DEF Treasury!Init, Treasury!TypeOK, Treasury!Lookup
  <2>2. \A f \in Treasury!Files : ~copies[f].got
    BY DEF Treasury!Init, Treasury!None
  <2>3. \A c \in Lookups : lookup[c].phase \notin Phases
    BY DEF Treasury!Init, Phases, Treasury!Files
  <2> QED BY <2>1, <2>2, <2>3 DEF FilesInv
<1>2. FilesInv /\ [Treasury!Next]_Treasury!vars => FilesInv'
  <2> SUFFICES ASSUME FilesInv, [Treasury!Next]_Treasury!vars PROVE FilesInv'
    OBVIOUS
  <2>0. /\ Treasury!TypeOK /\ clock \in Nat /\ clock \in 0..MaxTime
        /\ copies \in [Treasury!Files -> Held] /\ marked \subseteq Treasury!Files
        /\ \A f \in Treasury!Files : copies[f].got => copies[f].at <= copies[f].asOf
    BY FileBounds DEF FilesInv, Treasury!TypeOK, Held
  <2>a. \A c \in Lookups : lookup[c].phase \in Phases =>
           /\ lookup[c] \in Busy
           /\ CallInv(lookup[c], clock, copies, marked)
    BY <2>0, BusyLookup DEF FilesInv
  <2>b. Busy \subseteq Treasury!Lookup /\ Busy \subseteq Asking
    BY LookupTypes DEF Asking
  <2>c. "sdn" \in Treasury!Files /\ "alt" \in Treasury!Files
    BY DEF Treasury!Files
  <2>1. ASSUME NEW c \in Lookups, Treasury!Start(c) PROVE FilesInv'
    <3> DEFINE r == [phase |-> "idle", start |-> clock, now |-> clock, held |-> Treasury!None,
                     used |-> [f \in Treasury!Files |-> Treasury!None]]
               a == Treasury!Ask(r, "sdn")
    <3>1. /\ lookup' = [lookup EXCEPT ![c] = Treasury!WithNames(a)]
          /\ UNCHANGED <<clock, copies, marked>>
      BY <2>1 DEF Treasury!Start
    <3>2. r \in Asking /\ r.phase # "fresh"
      BY <2>0 DEF Asking, Held
    <3>3. CallInv(r, clock, copies, marked)
      <4>1. \A f \in Treasury!Files : ~r.used[f].got
        BY DEF Treasury!None
      <4>2. r.start <= r.now /\ r.now <= clock /\ r.phase = "idle"
        BY <2>0
      <4>3. "idle" \notin Treasury!Files
        BY DEF Treasury!Files
      <4> HIDE DEF r
      <4> QED BY <4>1, <4>2, <4>3 DEF CallInv, UsedInv
    <3> HIDE DEF r
    <3>4. a \in Busy /\ CallInv(a, clock, copies, marked)
      BY <2>0, <2>c, <3>2, <3>3, AskType, AskInv
    <3>5. a.phase = "merge" => Treasury!Ask(a, "alt") \in Busy
                               /\ CallInv(Treasury!Ask(a, "alt"), clock, copies, marked)
      <4> HIDE DEF a
      <4> QED BY <2>0, <2>b, <2>c, <3>4, AskType, AskInv
    <3> HIDE DEF a
    <3>6. PICK to \in Busy : /\ lookup' = [lookup EXCEPT ![c] = to]
                             /\ CallInv(to, clock, copies, marked)
      BY <3>1, <3>4, <3>5 DEF Treasury!WithNames
    <3>7. CallInv(to, clock', copies', marked')
          /\ \A d \in Lookups : lookup[d].phase \in Phases =>
                                   CallInv(lookup[d], clock', copies', marked')
      BY <2>a, <3>1, <3>6
    <3> QED BY <2>0, <2>b, <3>1, <3>6, <3>7, OneCall
  <2>2. ASSUME NEW c \in Lookups, Treasury!Answer(c) PROVE FilesInv'
    <3>1. /\ UNCHANGED <<clock, copies, marked>> /\ lookup[c].phase = "merge"
          /\ lookup' = [lookup EXCEPT ![c] =
               IF \E f \in Treasury!Files : ~lookup[c].used[f].got THEN [phase |-> "unscreened"]
               ELSE [lookup[c] EXCEPT !.phase = IF marked = {} THEN "fresh" ELSE "stale"]]
      BY <2>2 DEF Treasury!Answer
    <3>2. lookup[c] \in Busy /\ CallInv(lookup[c], clock, copies, marked)
      BY <2>a, <3>1 DEF Phases
    <3>3. \A d \in Lookups : lookup[d].phase \in Phases =>
                                CallInv(lookup[d], clock', copies', marked')
      BY <2>a, <3>1
    <3>4. CASE \E f \in Treasury!Files : ~lookup[c].used[f].got
      <4> DEFINE to == [phase |-> "unscreened"]
      <4>1. to \in Treasury!Lookup /\ to.phase \notin Phases
        BY DEF Treasury!Lookup, Phases, Treasury!Files
      <4>2. lookup' = [lookup EXCEPT ![c] = to]
        BY <3>1, <3>4
      <4> HIDE DEF to
      <4> QED BY <2>0, <3>1, <3>3, <4>1, <4>2, OneCall
    <3>5. CASE \A f \in Treasury!Files : lookup[c].used[f].got
      <4> DEFINE at == IF marked = {} THEN "fresh" ELSE "stale"
                 r == lookup[c]
                 to == [phase |-> at, start |-> r.start, now |-> r.now, held |-> r.held,
                        used |-> r.used]
      <4>1. [r EXCEPT !.phase = at] = to
        <5> HIDE DEF at, r
        <5> QED BY <3>2, CallUpdate DEF Busy, r
      <4>2. lookup' = [lookup EXCEPT ![c] = to]
        BY <3>1, <3>5, <4>1
      <4>3. at \in {"fresh", "stale"} /\ (at = "fresh" => marked = {})
        OBVIOUS
      <4>4. to \in Busy
        <5> HIDE DEF at
        <5>1. at \in Phases
          BY <4>3 DEF Phases
        <5> QED BY <3>2, <5>1 DEF Busy
      <4>5. /\ to.phase = at /\ to.start = r.start /\ to.now = r.now /\ to.used = r.used
        OBVIOUS
      <4>6. at \notin Treasury!Files /\ r.phase # "fresh"
        BY <3>1, <4>3 DEF Treasury!Files
      <4>7. CallInv(to, clock, copies, marked)
        <5>1. CallInv(r, clock, copies, marked) /\ \A f \in Treasury!Files : r.used[f].got
          BY <3>2, <3>5
        <5> HIDE DEF to, r, at
        <5> QED BY <4>3, <4>5, <4>6, <5>1 DEF CallInv
      <4>8. CallInv(to, clock', copies', marked')
        <5> HIDE DEF to
        <5> QED BY <3>1, <4>7
      <4> HIDE DEF to
      <4> QED BY <2>0, <2>b, <3>1, <3>3, <4>2, <4>4, <4>8, OneCall
    <3> QED BY <3>4, <3>5
  <2>3. ASSUME NEW c \in Lookups, NEW f \in Treasury!Files, NEW copy \in Held,
               Treasury!Receive(c, f, copy), lookup[c].phase = f, clock' = clock,
               copies' \in [Treasury!Files -> Held], marked' \subseteq Treasury!Files,
               \A g \in Treasury!Files : copies'[g].got => copies'[g].at <= copies'[g].asOf,
               \A d \in Lookups : lookup[d].phase \in Phases =>
                                     CallInv(lookup[d], clock, copies', marked'),
               UsedInv(copy, f, lookup[c].start, clock, copies', marked')
        PROVE  FilesInv'
    <3>1. lookup[c] \in Busy /\ CallInv(lookup[c], clock, copies', marked')
      BY <2>a, <2>3 DEF Phases
    <3>2. PICK b \in Busy :
            /\ b = [phase |-> "merge", start |-> lookup[c].start, now |-> lookup[c].now,
                    held |-> Treasury!None, used |-> [lookup[c].used EXCEPT ![f] = copy]]
            /\ \/ lookup' = [lookup EXCEPT ![c] = b]
               \/ lookup' = [lookup EXCEPT ![c] = Treasury!Ask(b, "alt")]
      BY <2>0, <2>3, ReceiveIs
    <3>3. /\ b.phase = "merge" /\ b.start = lookup[c].start /\ b.now = lookup[c].now
          /\ b.used = [lookup[c].used EXCEPT ![f] = copy]
      BY <3>2
    <3>4. lookup[c].used \in [Treasury!Files -> Held]
      BY <3>1 DEF Busy
    <3>5. \A g \in Treasury!Files : b.used[g] = IF g = f THEN copy ELSE lookup[c].used[g]
      BY <3>3, <3>4
    <3>6. f # "fresh" /\ "merge" \notin Treasury!Files
      BY DEF Treasury!Files
    <3>7. ASSUME NEW g \in Treasury!Files
          PROVE  UsedInv(b.used[g], g, b.start, clock, copies', marked')
      <4>1. UsedInv(lookup[c].used[g], g, lookup[c].start, clock, copies', marked')
        BY <2>3, <3>1, <3>6 DEF CallInv
      <4>2. CASE g = f
        BY <2>3, <3>3, <3>5, <4>2
      <4>3. CASE g # f
        BY <3>3, <3>5, <4>1, <4>3
      <4> QED BY <4>2, <4>3
    <3>8. CallInv(b, clock, copies', marked')
      BY <3>1, <3>3, <3>6, <3>7 DEF CallInv
    <3>9. b.phase # "fresh"
      BY <3>3
    <3>10. Treasury!Ask(b, "alt") \in Busy /\ CallInv(Treasury!Ask(b, "alt"), clock, copies', marked')
      BY <2>0, <2>b, <2>c, <3>8, <3>9, AskType, AskInv
    <3>11. PICK to \in Busy : /\ lookup' = [lookup EXCEPT ![c] = to]
                              /\ CallInv(to, clock, copies', marked')
      BY <3>2, <3>8, <3>10
    <3>12. clock' \in 0..MaxTime /\ CallInv(to, clock', copies', marked')
           /\ \A d \in Lookups : lookup[d].phase \in Phases =>
                                    CallInv(lookup[d], clock', copies', marked')
      BY <2>0, <2>3, <3>11
    <3>13. to \in Treasury!Lookup
      BY <2>b
    <3> QED BY <2>3, <3>11, <3>12, <3>13, OneCall
  <2>4. ASSUME NEW c \in Lookups, NEW f \in Treasury!Files, Treasury!FetchSucceeds(c, f)
        PROVE  FilesInv'
    <3>1. PICK t \in lookup[c].now..clock :
             LET copy == [got |-> TRUE, at |-> lookup[c].now, asOf |-> t] IN
             /\ copies' = [copies EXCEPT ![f] = copy]
             /\ Treasury!Receive(c, f, copy)
      BY <2>4 DEF Treasury!FetchSucceeds
    <3>2. lookup[c].phase = f /\ marked' = marked \ {f} /\ clock' = clock
      BY <2>4 DEF Treasury!FetchSucceeds, Treasury!Unmark
    <3>3. lookup[c] \in Busy /\ CallInv(lookup[c], clock, copies, marked)
      BY <2>a, <3>2 DEF Phases
    <3>4. lookup[c].now \in Nat /\ lookup[c].start \in Nat
      BY <3>3 DEF Busy
    <3>5. lookup[c].start <= lookup[c].now /\ clock <= lookup[c].now + 1
      BY <3>2, <3>3 DEF CallInv
    <3> DEFINE copy == [got |-> TRUE, at |-> lookup[c].now, asOf |-> t]
    <3>6. /\ copy \in Treasury!Copy /\ copy.at = lookup[c].now /\ copy.asOf = t
          /\ t \in Nat /\ lookup[c].now <= t
      BY <2>0, <3>4 DEF Treasury!Copy
    <3>7. copies' = [copies EXCEPT ![f] = copy] /\ Treasury!Receive(c, f, copy)
      BY <3>1
    <3> HIDE DEF copy
    <3>8. copy \in Held
      BY <3>6 DEF Held
    <3>9. /\ copies' \in [Treasury!Files -> Held] /\ marked' \subseteq Treasury!Files
          /\ \A g \in Treasury!Files : copies'[g].got => copies'[g].at <= copies'[g].asOf
      BY <2>0, <3>2, <3>6, <3>7, <3>8
    <3>10. \A d \in Lookups : lookup[d].phase \in Phases =>
                                 CallInv(lookup[d], clock, copies', marked')
      BY <2>a, <3>2, <3>5, <3>6, <3>7, CallsOutliveFetch
    <3>11. UsedInv(copy, f, lookup[c].start, clock, copies', marked')
      BY <3>4, <3>5, <3>6, FileBounds DEF UsedInv
    <3> QED BY <2>3, <3>2, <3>7, <3>8, <3>9, <3>10, <3>11
  <2>5. ASSUME NEW c \in Lookups, NEW f \in Treasury!Files, Treasury!FetchFails(c, f)
        PROVE  FilesInv'
    <3>1. lookup[c].phase = f /\ clock' = clock /\ copies' = copies
      BY <2>5 DEF Treasury!FetchFails
    <3>2. lookup[c] \in Busy /\ CallInv(lookup[c], clock, copies, marked)
      BY <2>a, <3>1 DEF Phases
    <3>3. CASE /\ Treasury!Servable(c) /\ marked' = marked \cup {f}
               /\ Treasury!Receive(c, f, lookup[c].held)
      <4> DEFINE copy == lookup[c].held
      <4>1. copy \in Held /\ lookup[c].now \in Nat /\ lookup[c].start \in Nat
        BY <3>2 DEF Busy
      <4>2. copy.got /\ lookup[c].now - copy.at <= MaxAge
        BY <3>3 DEF Treasury!Servable
      <4>3. copy.at \in Nat /\ copy.asOf \in Nat
        BY <4>1, <4>2, HeldTypes
      <4>4. /\ copy.at <= copy.asOf /\ copy.at + TTL <= lookup[c].now
            /\ lookup[c].start <= lookup[c].now /\ lookup[c].now <= clock
        BY <3>1, <3>2, <4>2 DEF CallInv
      <4>5. UsedInv(copy, f, lookup[c].start, clock, copies', marked')
        <5> HIDE DEF copy
        <5> QED BY <2>0, <3>3, <4>1, <4>2, <4>3, <4>4, FileBounds DEF UsedInv
      <4>6. \A d \in Lookups : lookup[d].phase \in Phases =>
                                  CallInv(lookup[d], clock, copies', marked')
        BY <2>a, <3>1, <3>3, CallsOutliveMarks
      <4>7. Treasury!Receive(c, f, copy) /\ marked' \subseteq Treasury!Files
        BY <2>0, <3>3
      <4> HIDE DEF copy
      <4> QED BY <2>0, <2>3, <3>1, <4>1, <4>5, <4>6, <4>7
    <3>4. CASE marked' = marked /\ Treasury!Receive(c, f, Treasury!None)
      <4>1. Treasury!None \in Held /\ ~Treasury!None.got
        BY DEF Held, Treasury!None
      <4>2. UsedInv(Treasury!None, f, lookup[c].start, clock, copies', marked')
        BY <4>1 DEF UsedInv
      <4>3. \A d \in Lookups : lookup[d].phase \in Phases =>
                                  CallInv(lookup[d], clock, copies', marked')
        BY <2>a, <3>1, <3>4
      <4> QED BY <2>0, <2>3, <3>1, <3>4, <4>1, <4>2, <4>3
    <3> QED BY <2>5, <3>3, <3>4 DEF Treasury!FetchFails
  <2>6. CASE Treasury!Tick
    <3>1. /\ clock < MaxTime /\ clock' = clock + 1
          /\ UNCHANGED <<copies, marked, lookup>>
          /\ \A c \in Lookups : lookup[c].phase \in Treasury!Files => lookup[c].now = clock
      BY <2>6 DEF Treasury!Tick
    <3>2. Treasury!TypeOK'
      BY <2>0, <3>1, FileBounds DEF Treasury!TypeOK
    <3>3. \A c \in Lookups : lookup[c].phase \in Phases =>
                                CallInv(lookup[c], clock + 1, copies, marked)
      BY <2>a, <3>1, CallsOutliveTicks
    <3> QED BY <2>0, <3>1, <3>2, <3>3 DEF FilesInv
  <2>7. CASE UNCHANGED Treasury!vars
    BY <2>7 DEF Treasury!vars, FilesInv, Treasury!TypeOK
  <2> QED BY <2>1, <2>2, <2>4, <2>5, <2>6, <2>7 DEF Treasury!Next
<1> QED BY <1>1, <1>2, PTL DEF Treasury!Spec

\* A screen that counts the OFAC list used names and aliases as published no
\* more than MaxAge before it began, whoever fetched them.
THEOREM CopiesHold ==
    ASSUME Treasury!OfacFilesAssumption
    PROVE  Treasury!Spec => []CopiesAreCurrent
<1>1. FilesInv => CopiesAreCurrent
  <2> SUFFICES ASSUME FilesInv, NEW c \in Lookups, Treasury!Screened(c),
                      NEW f \in Treasury!Files
               PROVE  lookup[c].used[f].asOf + MaxAge >= lookup[c].start
    BY DEF CopiesAreCurrent, Treasury!CopiesAreCurrent
  <2>1. lookup[c].phase \in {"fresh", "stale"}
    BY DEF Treasury!Screened
  <2>2. CallInv(lookup[c], clock, copies, marked)
    BY <2>1 DEF FilesInv, Phases
  <2> QED BY <2>1, <2>2 DEF CallInv, UsedInv
<1> QED BY <1>1, FilesInvHolds, PTL

\* A screen that says its copies were fetched fresh used none past its time
\* to live, unless the process has a newer one by now.
THEOREM AgeToldRight ==
    ASSUME Treasury!OfacFilesAssumption
    PROVE  Treasury!Spec => []AgeIsTold
<1>1. FilesInv => AgeIsTold
  <2> SUFFICES ASSUME FilesInv, NEW c \in Lookups, lookup[c].phase = "fresh",
                      NEW f \in Treasury!Files
               PROVE  \/ lookup[c].used[f].at + TTL > lookup[c].start
                      \/ copies[f].at > lookup[c].used[f].at
    BY DEF AgeIsTold, Treasury!AgeIsTold
  <2>1. CallInv(lookup[c], clock, copies, marked)
    BY DEF FilesInv, Phases
  <2> QED BY <2>1 DEF CallInv, UsedInv
<1> QED BY <1>1, FilesInvHolds, PTL

-----------------------------------------------------------------------------
(***************************************************************************)
(* Services: a behaviour is one of each of its parts.                      *)
(***************************************************************************)

\* A part that is not explored stands still.
LEMMA PartsStep ==
    ASSUME [ServicesNext]_<<active, vars, keyVars, quotaVars, screenVars>>
    PROVE  /\ active' = active
           /\ [Next]_vars /\ [Keys!Next]_Keys!vars /\ [Quota!Next]_Quota!qvars
           /\ [Local!Next]_Local!vars /\ [Treasury!Next]_Treasury!vars
           /\ [Match!Next]_Match!vars /\ [Trade!Next]_Trade!vars
<1> DEFINE polar == UNCHANGED vars
           keys == UNCHANGED keyVars
           quota == UNCHANGED quotaVars
           indexed == UNCHANGED indexVars
           files == UNCHANGED fileVars
           matched == UNCHANGED matchVars
           lists == UNCHANGED listVars
           trade == UNCHANGED tradeVars
<1>1. /\ polar => UNCHANGED vars
      /\ keys => UNCHANGED Keys!vars
      /\ quota => UNCHANGED Quota!qvars
      /\ indexed => UNCHANGED Local!vars
      /\ files => UNCHANGED Treasury!vars
      /\ matched /\ lists => UNCHANGED Match!vars
      /\ trade /\ lists => UNCHANGED Trade!vars
  BY DEF keyVars, Keys!vars, quotaVars, Quota!qvars, indexVars, Local!vars, Local!publisher,
         Local!loader, fileVars, Treasury!vars, matchVars, listVars, Match!vars, tradeVars,
         Trade!vars
<1>2. /\ Match!Next => UNCHANGED listVars
      /\ Trade!Next => UNCHANGED listVars
  BY DEF Match!Next, Match!Screen, Trade!Next, Trade!Refuse, Trade!Answer, Trade!ScreenParty,
         listVars
<1> QED BY <1>1, <1>2 DEF ServicesNext, screenVars

LEMMA PartsStart ==
    ASSUME ServicesInit
    PROVE  /\ Init /\ Keys!Init /\ Quota!Init /\ Local!Init /\ Treasury!Init
           /\ MatchInv /\ VerdictInv
<1>1. Init /\ Keys!Init /\ Quota!Init /\ Local!Init /\ Treasury!Init
  BY DEF ServicesInit
<1>2. Match!NameMatchAssumption /\ Trade!TradeRestrictionAssumption
  BY ServicesAssumption
<1>3. ListsType
  <2>1. CASE active = "match"
    BY <1>2, <2>1, MatchInvInitially DEF ServicesInit, MatchInv
  <2>2. CASE active = "trade"
    BY <1>2, <2>2, VerdictInvInitially DEF ServicesInit, VerdictInv
  <2>3. CASE active \notin {"match", "trade"}
    BY <2>3 DEF ServicesInit, ListsType
  <2> QED BY <2>1, <2>2, <2>3
<1>4. MatchInv
  <2>1. CASE active = "match"
    BY <1>2, <2>1, MatchInvInitially DEF ServicesInit
  <2>2. CASE active # "match"
    BY <1>3, <2>2, MatchInvStarts DEF ServicesInit
  <2> QED BY <2>1, <2>2
<1>5. VerdictInv
  <2>1. CASE active = "trade"
    BY <1>2, <2>1, VerdictInvInitially DEF ServicesInit
  <2>2. CASE active # "trade"
    <3>1. /\ parties = {} /\ destination = "standard" /\ reach = [p \in Named |-> {}]
          /\ answers = [p \in Named |-> Trade!NoAnswer] /\ verdict = Trade!NoVerdict
      BY <2>2 DEF ServicesInit
    <3>2. Named \subseteq SUBSET Words /\ destination \in Trade!Destination
      BY <1>2, <3>1, TradeBounds DEF Trade!Destination
    <3> QED BY <1>3, <3>1, <3>2, VerdictInvStarts
  <2> QED BY <2>1, <2>2
<1> QED BY <1>1, <1>4, <1>5

LEMMA PartsRun ==
    ServicesSpec => /\ Spec /\ Keys!Spec /\ Quota!Spec /\ Local!Spec /\ Treasury!Spec
                    /\ []MatchInv /\ []VerdictInv /\ [][active' = active]_active
<1>1. ServicesInit => /\ Init /\ Keys!Init /\ Quota!Init /\ Local!Init /\ Treasury!Init
                      /\ MatchInv /\ VerdictInv
  BY PartsStart
<1>2. [ServicesNext]_<<active, vars, keyVars, quotaVars, screenVars>> =>
        /\ [Next]_vars /\ [Keys!Next]_Keys!vars /\ [Quota!Next]_Quota!qvars
        /\ [Local!Next]_Local!vars /\ [Treasury!Next]_Treasury!vars
        /\ [Match!Next]_Match!vars /\ [Trade!Next]_Trade!vars
        /\ [active' = active]_active
  BY PartsStep
<1>3. MatchInv /\ [Match!Next]_Match!vars => MatchInv'
  BY ServicesAssumption, MatchInvStep
<1>4. VerdictInv /\ [Trade!Next]_Trade!vars => VerdictInv'
  BY ServicesAssumption, VerdictInvStep
<1> QED BY <1>1, <1>2, <1>3, <1>4, PTL
        DEF ServicesSpec, Spec, Keys!Spec, Quota!Spec, Local!Spec, Treasury!Spec

\* Every variable of Services stays within its type, whichever part moves.
THEOREM ServicesTypeCorrect == ServicesSpec => []ServicesTypeOK
<1>1. /\ Spec => []TypeOK
      /\ Keys!Spec => []Keys!TypeOK
      /\ Quota!Spec => []Quota!TypeOK
      /\ Local!Spec => []IndexType
      /\ Treasury!Spec => []FilesInv
  BY ServicesAssumption, PolarTypeCorrect, KeysTypeCorrect, QuotaTypeCorrect, IndexTypeCorrect,
     FilesInvHolds
<1>2. ServicesInit => active \in Parts
  BY DEF ServicesInit
<1>3. /\ TypeOK /\ Keys!TypeOK /\ Quota!TypeOK /\ IndexType /\ FilesInv /\ MatchInv
      /\ VerdictInv /\ active \in Parts
      => ServicesTypeOK
  BY ServicesAssumption, TradeTypes DEF ServicesTypeOK, IndexType, FilesInv, MatchInv
<1>4. active \in Parts /\ [active' = active]_active => (active \in Parts)'
  OBVIOUS
<1> QED BY <1>1, <1>2, <1>3, <1>4, PartsRun, PTL DEF ServicesSpec
==============================================================================
