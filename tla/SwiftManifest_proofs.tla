------------------------- MODULE SwiftManifest_proofs -------------------------
(***************************************************************************)
(* What enforce_swift6.py leaves of a manifest, for every manifest it may  *)
(* be given whose comma and modes do not share an offset: an argument list *)
(* with the mode scan_swift.py looks for, in the order of Package exactly  *)
(* if the platforms found their place, and left alone when enforced again. *)
(*                                                                         *)
(* The edits are made from the end of the text, so that an offset found    *)
(* before the first of them is still right when its turn comes.  The       *)
(* invariant, EditInv, says that of the text between two edits: the edits  *)
(* that are left are the ones enforce() would decide on if it began with   *)
(* this text (Whole), except between the argument that gives the modes     *)
(* and the comma before it, when it would do so for the text the comma     *)
(* makes (CommaMissing).                                                   *)
(***************************************************************************)
EXTENDS SwiftManifest, SequenceTheorems, WellFoundedInduction, TLAPS

-----------------------------------------------------------------------------
\* Cells, and a sequence with another inserted.

\* A set of numbers has a least member, if any.
LEMMA Least ==
  ASSUME NEW T \in SUBSET Nat, T # {}
  PROVE  \E n \in T : \A m \in T : n <= m
<1> DEFINE R == OpToRel(<, Nat)
<1>1. IsWellFoundedOn(R, Nat)
  BY NatLessThanWellFounded
<1>2. \A x, y \in Nat : <<x, y>> \in R <=> x < y
  BY DEF OpToRel
<1> HIDE DEF R
<1>3. \E x \in T : \A y \in T : <<y, x>> \notin R
  BY <1>1, WFMin
<1>4. PICK x \in T : \A y \in T : <<y, x>> \notin R
  BY <1>3
<1>5. SUFFICES ASSUME NEW y \in T PROVE x <= y
  OBVIOUS
<1>6. x \in Nat /\ y \in Nat /\ ~(y < x)
  BY <1>2, <1>4
<1>7. QED
  BY <1>6

\* A set of numbers up to N has a greatest member, if any.
LEMMA Greatest ==
  ASSUME NEW N \in Nat, NEW T \in SUBSET (1..N), T # {}
  PROVE  \E n \in T : \A m \in T : m <= n
<1> DEFINE D == {N - x : x \in T}
<1>1. D \in SUBSET Nat
  OBVIOUS
<1>0. D # {}
  OBVIOUS
<1> HIDE DEF D
<1>2. PICK d \in D : \A m \in D : d <= m
  BY <1>0, <1>1, Least
<1>3. PICK n \in T : d = N - n
  BY DEF D
<1>4. \A m \in T : N - m \in D
  BY DEF D
<1>5. SUFFICES ASSUME NEW m \in T PROVE m <= n
  BY <1>3
<1>6. d <= N - m
  BY <1>2, <1>4
<1>7. QED
  BY <1>3, <1>6

\* The names and their ranks, spelled out.
LEMMA NamesAre ==
  /\ Names = {"name", "defaultLocalization", "platforms", "pkgConfig", "providers", "products",
              "traits", "dependencies", "targets", "swiftLanguageModes",
              "swiftLanguageVersions", "cLanguageStandard", "cxxLanguageStandard"}
  /\ Rank("name") = 1 /\ Rank("defaultLocalization") = 2 /\ Rank("platforms") = 3
  /\ Rank("pkgConfig") = 4 /\ Rank("providers") = 5 /\ Rank("products") = 6
  /\ Rank("traits") = 7 /\ Rank("dependencies") = 8 /\ Rank("targets") = 9
  /\ Rank("swiftLanguageModes") = 10 /\ Rank("swiftLanguageVersions") = 11
  /\ Rank("cLanguageStandard") = 12 /\ Rank("cxxLanguageStandard") = 13
<1>1. DOMAIN Order = 1..13
  BY DEF Order
<1>2. /\ Order[1] = "name" /\ Order[2] = "defaultLocalization" /\ Order[3] = "platforms"
      /\ Order[4] = "pkgConfig" /\ Order[5] = "providers" /\ Order[6] = "products"
      /\ Order[7] = "traits" /\ Order[8] = "dependencies" /\ Order[9] = "targets"
      /\ Order[10] = "swiftLanguageModes" /\ Order[11] = "swiftLanguageVersions"
      /\ Order[12] = "cLanguageStandard" /\ Order[13] = "cxxLanguageStandard"
  BY DEF Order
<1>3. 1..13 = {1, 2, 3, 4, 5, 6, 7, 8, 9, 10, 11, 12, 13}
  OBVIOUS
<1>4. Names = {Order[i] : i \in {1, 2, 3, 4, 5, 6, 7, 8, 9, 10, 11, 12, 13}}
  BY <1>1, <1>3 DEF Names
<1>5. Names = {"name", "defaultLocalization", "platforms", "pkgConfig", "providers", "products",
              "traits", "dependencies", "targets", "swiftLanguageModes",
              "swiftLanguageVersions", "cLanguageStandard", "cxxLanguageStandard"}
  BY <1>2, <1>4
<1>6. ASSUME NEW k \in DOMAIN Order
      PROVE  Rank(Order[k]) = k
  <2>1. \A i, j \in DOMAIN Order : Order[i] = Order[j] => i = j
    BY <1>1, <1>2, <1>3
  <2>2. QED
    BY <2>1 DEF Rank
<1>7. /\ Rank(Order[1]) = 1 /\ Rank(Order[2]) = 2 /\ Rank(Order[3]) = 3 /\ Rank(Order[4]) = 4
      /\ Rank(Order[5]) = 5 /\ Rank(Order[6]) = 6 /\ Rank(Order[7]) = 7 /\ Rank(Order[8]) = 8
      /\ Rank(Order[9]) = 9 /\ Rank(Order[10]) = 10 /\ Rank(Order[11]) = 11
      /\ Rank(Order[12]) = 12 /\ Rank(Order[13]) = 13
  BY <1>1, <1>3, <1>6
<1>8. QED
  BY <1>2, <1>5, <1>7

\* The ranks of the names, as far as the places of the edits depend on them.
LEMMA RanksAre ==
  /\ \A n \in Names : Rank(n) \in 1..13
  /\ \A n \in Anchors : n \in Names /\ n # "platforms" /\ Rank(n) \in 6..9
  /\ \A n \in Standards : n \in Names /\ Rank(n) \in 12..13
  /\ Rank("platforms") = 3
<1>1. \A n \in Names : Rank(n) \in 1..13
  BY NamesAre
<1>2. \A n \in Anchors : n \in Names /\ n # "platforms" /\ Rank(n) \in 6..9
  BY NamesAre DEF Anchors
<1>3. \A n \in Standards : n \in Names /\ Rank(n) \in 12..13
  BY NamesAre DEF Standards
<1>4. Rank("platforms") = 3
  BY NamesAre
<1>5. QED
  BY <1>1, <1>2, <1>3, <1>4

\* The kinds of cells are different.
LEMMA NotNames ==
  /\ Break \notin Names /\ Colon \notin Names /\ Comma \notin Names
  /\ Terms \cap Names = {} /\ Break \notin Terms /\ Colon \notin Terms /\ Comma \notin Terms
  /\ Break # Colon /\ Break # Comma /\ Colon # Comma
BY NamesAre DEF Break, Terms, Colon, Comma

\* The cells of two texts one after the other.
LEMMA JoinedTexts ==
  ASSUME NEW s \in Seq(Cells), NEW t \in Seq(Cells)
  PROVE  /\ s \o t \in Seq(Cells)
         /\ Len(s \o t) = Len(s) + Len(t)
         /\ \A i \in 1..Len(s) : (s \o t)[i] = s[i]
         /\ \A i \in 1..Len(t) : (s \o t)[Len(s) + i] = t[i]
<1>1. Len(s) \in Nat /\ Len(t) \in Nat
  OBVIOUS
<1>2. /\ s \o t \in Seq(Cells)
      /\ Len(s \o t) = Len(s) + Len(t)
      /\ \A i \in 1 .. Len(s) + Len(t) : (s \o t)[i] = IF i <= Len(s) THEN s[i] ELSE t[i - Len(s)]
  BY ConcatProperties
<1>3. ASSUME NEW i \in 1..Len(s) PROVE (s \o t)[i] = s[i]
  BY <1>1, <1>2
<1>4. ASSUME NEW i \in 1..Len(t) PROVE (s \o t)[Len(s) + i] = t[i]
  BY <1>1, <1>2
<1>5. QED  BY <1>2, <1>3, <1>4

\* t is s with u written at a.
Inserted(s, a, u, t) ==
  /\ s \in Seq(Cells) /\ a \in 1..(Len(s) + 1) /\ u \in Seq(Cells)
  /\ t \in Seq(Cells) /\ Len(t) = Len(s) + Len(u)
  /\ \A i \in 1..(a - 1) : t[i] = s[i]
  /\ \A i \in 1..Len(u) : t[a - 1 + i] = u[i]
  /\ \A i \in a..Len(s) : t[i + Len(u)] = s[i]

\* An edit (enforce_swift6.py:74) inserts its text and leaves the rest.
LEMMA InsertShape ==
  ASSUME NEW s \in Seq(Cells), NEW a \in 1..(Len(s) + 1), NEW u \in Seq(Cells)
  PROVE  Inserted(s, a, u, Insert(s, Edit(a, u)))
<1> PICK t : t = Insert(s, Edit(a, u))
  OBVIOUS
<1> SUFFICES Inserted(s, a, u, t)
  OBVIOUS
<1>0. a \in Nat /\ Len(s) \in Nat /\ Len(u) \in Nat
  OBVIOUS
<1>1. PICK h : h = SubSeq(s, 1, a - 1)
  OBVIOUS
<1>2. PICK r : r = SubSeq(s, a, Len(s))
  OBVIOUS
<1>3. PICK k : k = h \o u
  OBVIOUS
<1>4. t = k \o r
  BY <1>1, <1>2, <1>3 DEF Insert, Edit
<1>5. h \in Seq(Cells) /\ Len(h) = a - 1 /\ \A i \in 1..(a - 1) : h[i] = s[i]
  BY <1>0, <1>1
<1>6. r \in Seq(Cells) /\ Len(r) = Len(s) - a + 1
  BY <1>0, <1>2
<1>7. \A i \in 1..(Len(s) - a + 1) : r[i] = s[a + i - 1]
  BY <1>0, <1>2
<1>8. /\ k \in Seq(Cells) /\ Len(k) = a - 1 + Len(u)
      /\ \A i \in 1..(a - 1) : k[i] = h[i]
      /\ \A i \in 1..Len(u) : k[a - 1 + i] = u[i]
  <2>1. /\ k \in Seq(Cells) /\ Len(k) = Len(h) + Len(u)
        /\ \A i \in 1..Len(h) : k[i] = h[i]
        /\ \A i \in 1..Len(u) : k[Len(h) + i] = u[i]
    BY <1>3, <1>5, JoinedTexts
  <2>2. QED
    BY <2>1, <1>5
<1>20. k \in Seq(Cells) /\ r \in Seq(Cells)
  BY <1>6, <1>8
<1>9. t \in Seq(Cells) /\ Len(t) = Len(k) + Len(r)
  BY <1>4, <1>20, JoinedTexts
<1>10. /\ \A i \in 1..Len(k) : t[i] = k[i]
       /\ \A i \in 1..Len(r) : t[Len(k) + i] = r[i]
  BY <1>4, <1>20, JoinedTexts
<1>11. ASSUME NEW i \in a..Len(s)
       PROVE  t[i + Len(u)] = s[i]
  <2>1. i - a + 1 \in 1..Len(r) /\ Len(k) + (i - a + 1) = i + Len(u)
    BY <1>0, <1>6, <1>8
  <2>2. t[i + Len(u)] = r[i - a + 1]
    BY <2>1, <1>10
  <2>3. r[i - a + 1] = s[a + (i - a + 1) - 1]
    BY <2>1, <1>6, <1>7
  <2>4. a + (i - a + 1) - 1 = i
    BY <1>0
  <2>5. QED
    BY <2>2, <2>3, <2>4
<1>12. ASSUME NEW i \in 1..(a - 1)
       PROVE  t[i] = s[i]
  <2>1. i \in 1..Len(k)
    BY <1>0, <1>8
  <2>2. QED
    BY <2>1, <1>5, <1>8, <1>10
<1>13. ASSUME NEW i \in 1..Len(u)
       PROVE  t[a - 1 + i] = u[i]
  <2>1. a - 1 + i \in 1..Len(k)
    BY <1>0, <1>8
  <2>2. QED
    BY <2>1, <1>8, <1>10
<1>14. Len(t) = Len(s) + Len(u)
  BY <1>0, <1>6, <1>8, <1>9
<1>15. QED
  BY <1>9, <1>11, <1>12, <1>13, <1>14 DEF Inserted

-----------------------------------------------------------------------------
\* Tokens, arguments and offsets.

\* The name is somewhere in the text.
Has(text, name) == \E i \in Tokens(text) : text[i] = name

\* i is the offset of the first of these arguments.
IsOffset(text, names, i) ==
  /\ i \in Starts(text) /\ text[i] \in names
  /\ \A j \in Starts(text) : text[j] \in names => i <= j

\* Tokens are the cells of the text that are no line breaks.
LEMMA TokensIn ==
  ASSUME NEW text \in Seq(Cells)
  PROVE  /\ Tokens(text) \subseteq 1..Len(text) /\ Len(text) \in Nat
         /\ Starts(text) \subseteq Tokens(text)
         /\ \A i : i \in Tokens(text) <=> i \in 1..Len(text) /\ text[i] # Break
         /\ \A i \in 1..Len(text) : text[i] \in Cells
<1>1. DOMAIN text = 1..Len(text) /\ Len(text) \in Nat
  OBVIOUS
<1>2. Tokens(text) \subseteq 1..Len(text)
  BY <1>1 DEF Tokens
<1>3. Starts(text) \subseteq Tokens(text)
  BY DEF Starts
<1>4. \A i : i \in Tokens(text) <=> i \in 1..Len(text) /\ text[i] # Break
  BY <1>1 DEF Tokens
<1>5. \A i \in 1..Len(text) : text[i] \in Cells
  OBVIOUS
<1>6. QED
  BY <1>1, <1>2, <1>3, <1>4, <1>5

\* A token that is not the last one has a next one.
LEMMA NextToken ==
  ASSUME NEW text \in Seq(Cells), NEW i \in Tokens(text), NEW l \in Tokens(text), i < l
  PROVE  \E j \in Tokens(text) : Adjacent(text, i, j)
<1> DEFINE T == {j \in Tokens(text) : i < j}
<1>1. T \subseteq 1..Len(text) /\ l \in T
  BY TokensIn
<1>2. T \in SUBSET Nat /\ T # {}
  BY <1>1
<1> HIDE DEF T
<1>3. PICK j \in T : \A m \in T : j <= m
  BY <1>2, Least
<1>4. j \in Tokens(text) /\ i < j
  BY <1>3 DEF T
<1>5. ASSUME NEW k \in (i + 1)..(j - 1), text[k] # Break
      PROVE  FALSE
  <2>1. i \in 1..Len(text) /\ j \in 1..Len(text)
    BY <1>4, TokensIn
  <2>2. k \in 1..Len(text) /\ i < k /\ k < j
    BY <2>1
  <2>3. k \in T
    BY <2>2, <1>5, TokensIn DEF T
  <2>4. QED
    BY <2>1, <2>2, <2>3, <1>3
<1>6. QED
  BY <1>4, <1>5 DEF Adjacent

\* A token that is not the first one has one before it.
LEMMA TokenBefore ==
  ASSUME NEW text \in Seq(Cells), NEW i \in Tokens(text), NEW l \in Tokens(text), l < i
  PROVE  \E j \in Tokens(text) : Adjacent(text, j, i)
<1> DEFINE T == {j \in Tokens(text) : j < i}
<1>1. T \subseteq 1..Len(text) /\ l \in T
  BY TokensIn
<1>2. T \in SUBSET (1..Len(text)) /\ T # {} /\ Len(text) \in Nat
  BY <1>1
<1> HIDE DEF T
<1>3. PICK j \in T : \A m \in T : m <= j
  BY <1>2, Greatest
<1>4. j \in Tokens(text) /\ j < i
  BY <1>3 DEF T
<1>5. ASSUME NEW k \in (j + 1)..(i - 1), text[k] # Break
      PROVE  FALSE
  <2>1. i \in 1..Len(text) /\ j \in 1..Len(text)
    BY <1>4, TokensIn
  <2>2. k \in 1..Len(text) /\ k < i /\ j < k
    BY <2>1
  <2>3. k \in T
    BY <2>2, <1>5, TokensIn DEF T
  <2>4. QED
    BY <2>1, <2>2, <2>3, <1>3
<1>6. QED
  BY <1>4, <1>5 DEF Adjacent

\* In an argument list it is the names that begin an argument, so that
\* enforce() finds them all (enforce_swift6.py:23-36).
LEMMA NamesStart ==
  ASSUME NEW text \in Seq(Cells), IsArgumentList(text), NEW i
  PROVE  i \in Starts(text) <=> i \in Tokens(text) /\ text[i] \in Names
<1>1. ASSUME i \in Starts(text)
      PROVE  i \in Tokens(text) /\ text[i] \in Names
  <2>1. /\ i \in Tokens(text) /\ text[i] # Comma
        /\ \A j \in 1..i : Adjacent(text, j, i) => text[j] = Comma
    BY <1>1 DEF Starts
  <2>2. PICK f \in Tokens(text) : text[f] \in Names /\ \A j \in Tokens(text) : f <= j
    BY DEF IsArgumentList
  <2>3. f \in 1..Len(text) /\ i \in 1..Len(text) /\ f <= i
    BY <2>1, <2>2, TokensIn
  <2>4. CASE f = i
    BY <2>1, <2>2, <2>4
  <2>5. CASE f # i
    <3>1. f < i
      BY <2>3, <2>5
    <3>2. PICK j \in Tokens(text) : Adjacent(text, j, i)
      BY <3>1, <2>1, <2>2, TokenBefore
    <3>3. j \in 1..i
      BY <3>2, <2>3, TokensIn DEF Adjacent
    <3>6. text[j] = Comma
      BY <3>2, <3>3, <2>1
    <3>4. Joins(text[j], text[i])
      BY <3>2, <2>1 DEF IsArgumentList
    <3>5. QED
      BY <3>4, <3>6, <2>1, NotNames DEF Joins
  <2>6. QED
    BY <2>4, <2>5
<1>2. ASSUME i \in Tokens(text), text[i] \in Names
      PROVE  i \in Starts(text)
  <2>1. text[i] # Comma
    BY <1>2, NotNames
  <2>2. ASSUME NEW j \in 1..i, Adjacent(text, j, i)
        PROVE  text[j] = Comma
    <3>1. Joins(text[j], text[i])
      BY <2>2, <1>2 DEF IsArgumentList, Adjacent
    <3>2. QED
      BY <3>1, <1>2, NotNames DEF Joins
  <2>3. QED
    BY <1>2, <2>1, <2>2 DEF Starts
<1>3. QED
  BY <1>1, <1>2

\* What enforce() finds is what is there.
LEMMA ArgumentsAre ==
  ASSUME NEW text \in Seq(Cells), IsArgumentList(text), NEW name \in Names
  PROVE  name \in Arguments(text) <=> Has(text, name)
BY NamesStart DEF Arguments, Has

\* There is one such offset.
LEMMA OffsetIs ==
  ASSUME NEW text \in Seq(Cells), NEW names, NEW i, IsOffset(text, names, i)
  PROVE  Offset(text, names) = i
<1>1. i \in Nat /\ \A j \in Starts(text) : j \in Nat
  BY TokensIn DEF IsOffset
<1>2. \A j \in Starts(text) :
        text[j] \in names /\ (\A k \in Starts(text) : text[k] \in names => j <= k) => j = i
  BY <1>1 DEF IsOffset
<1>3. QED
  BY <1>2 DEF Offset, IsOffset

\* An argument that is there has its offset found (enforce_swift6.py:52).
LEMMA OffsetFound ==
  ASSUME NEW text \in Seq(Cells), NEW names, NEW n \in Arguments(text), n \in names
  PROVE  IsOffset(text, names, Offset(text, names))
<1> DEFINE T == {i \in Starts(text) : text[i] \in names}
<1>1. T \subseteq 1..Len(text)
  BY TokensIn
<1>2. T \in SUBSET Nat /\ T # {}
  BY <1>1 DEF Arguments
<1> HIDE DEF T
<1>3. PICK i \in T : \A m \in T : i <= m
  BY <1>2, Least
<1>4. IsOffset(text, names, i)
  BY <1>3 DEF T, IsOffset
<1>5. QED
  BY <1>4, OffsetIs

\* The last token is found (enforce_swift6.py:69).
LEMMA LastFound ==
  ASSUME NEW text \in Seq(Cells), Tokens(text) # {}
  PROVE  LastToken(text) \in Tokens(text) /\ \A j \in Tokens(text) : j <= LastToken(text)
<1>1. Tokens(text) \in SUBSET (1..Len(text)) /\ Len(text) \in Nat
  BY TokensIn
<1>2. \E i \in Tokens(text) : \A j \in Tokens(text) : j <= i
  BY <1>1, Greatest
<1>3. QED
  BY <1>2 DEF LastToken

-----------------------------------------------------------------------------
\* Tokens and what is inserted among them.

\* Nothing is between adjacent tokens.
LEMMA AdjacentClose ==
  ASSUME NEW text \in Seq(Cells), NEW i, NEW j, Adjacent(text, i, j)
  PROVE  /\ i \in Tokens(text) /\ j \in Tokens(text) /\ i \in Nat /\ j \in Nat /\ i < j
         /\ \A x \in Tokens(text) : x <= i \/ j <= x
<1>1. i \in Tokens(text) /\ j \in Tokens(text) /\ i < j
  BY DEF Adjacent
<1>2. i \in Nat /\ j \in Nat
  BY <1>1, TokensIn
<1>3. SUFFICES ASSUME NEW x \in Tokens(text), i < x, x < j
               PROVE  FALSE
  <2>1. \A x \in Tokens(text) : x \in Nat
    BY TokensIn
  <2>2. QED
    BY <1>1, <1>2, <2>1
<1>4. x \in (i + 1)..(j - 1)
  BY <1>2, <1>3, TokensIn
<1>5. QED
  BY <1>3, <1>4, TokensIn DEF Adjacent

\* The tokens of a text with something inserted, and where they come from.
LEMMA InsertTokens ==
  ASSUME NEW s, NEW a, NEW u, NEW t, Inserted(s, a, u, t)
  PROVE  /\ \A i \in 1..(a - 1) : i \in Tokens(t) <=> i \in Tokens(s)
         /\ \A i \in 1..Len(u) : a - 1 + i \in Tokens(t) <=> u[i] # Break
         /\ \A i \in a..Len(s) : i + Len(u) \in Tokens(t) <=> i \in Tokens(s)
         /\ \A i \in Tokens(t) :
              \/ i \in 1..(a - 1)
              \/ \E k \in 1..Len(u) : i = a - 1 + k
              \/ \E k \in a..Len(s) : i = k + Len(u)
<1>0. /\ t \in Seq(Cells) /\ Len(t) = Len(s) + Len(u)
      /\ \A i \in 1..(a - 1) : t[i] = s[i]
      /\ \A i \in 1..Len(u) : t[a - 1 + i] = u[i]
      /\ \A i \in a..Len(s) : t[i + Len(u)] = s[i]
  BY DEF Inserted
<1>1. a \in Nat /\ Len(s) \in Nat /\ Len(u) \in Nat /\ 1 <= a /\ a <= Len(s) + 1
  BY DEF Inserted
<1>2. \A i : i \in Tokens(t) <=> i \in 1..Len(t) /\ t[i] # Break
  BY <1>0, TokensIn
<1>3. \A i : i \in Tokens(s) <=> i \in 1..Len(s) /\ s[i] # Break
  BY TokensIn DEF Inserted
<1>4. ASSUME NEW i \in 1..(a - 1)
      PROVE  i \in Tokens(t) <=> i \in Tokens(s)
  <2>1. i \in 1..Len(t) /\ i \in 1..Len(s)
    BY <1>0, <1>1
  <2>2. QED
    BY <2>1, <1>0, <1>2, <1>3
<1>5. ASSUME NEW i \in 1..Len(u)
      PROVE  a - 1 + i \in Tokens(t) <=> u[i] # Break
  <2>1. a - 1 + i \in 1..Len(t)
    BY <1>0, <1>1
  <2>2. QED
    BY <2>1, <1>0, <1>2
<1>6. ASSUME NEW i \in a..Len(s)
      PROVE  i + Len(u) \in Tokens(t) <=> i \in Tokens(s)
  <2>1. i + Len(u) \in 1..Len(t) /\ i \in 1..Len(s)
    BY <1>0, <1>1
  <2>2. QED
    BY <2>1, <1>0, <1>2, <1>3
<1>7. ASSUME NEW i \in Tokens(t)
      PROVE  \/ i \in 1..(a - 1)
             \/ \E k \in 1..Len(u) : i = a - 1 + k
             \/ \E k \in a..Len(s) : i = k + Len(u)
  <2>1. i \in 1..Len(t)
    BY <1>2
  <2>2. CASE i < a
    BY <1>1, <2>1, <2>2
  <2>3. CASE a <= i /\ i < a + Len(u)
    <3>1. i - a + 1 \in 1..Len(u) /\ i = a - 1 + (i - a + 1)
      BY <1>1, <2>1, <2>3
    <3>2. QED
      BY <3>1
  <2>4. CASE a + Len(u) <= i
    <3>1. i - Len(u) \in a..Len(s) /\ i = (i - Len(u)) + Len(u)
      BY <1>0, <1>1, <2>1, <2>4
    <3>2. QED
      BY <3>1
  <2>5. QED
    BY <1>1, <2>1, <2>2, <2>3, <2>4
<1>8. QED
  BY <1>4, <1>5, <1>6, <1>7

\* Tokens on one side of what is inserted that are adjacent were so before.
LEMMA InsertAdjacent ==
  ASSUME NEW s, NEW a, NEW u, NEW t, Inserted(s, a, u, t), NEW i \in 1..Len(s), NEW j \in 1..Len(s)
  PROVE  /\ i < a /\ j < a /\ Adjacent(t, i, j) => Adjacent(s, i, j)
         /\ a <= i /\ a <= j /\ Adjacent(t, i + Len(u), j + Len(u)) => Adjacent(s, i, j)
<1>0. /\ t \in Seq(Cells) /\ Len(t) = Len(s) + Len(u)
      /\ \A x \in 1..(a - 1) : t[x] = s[x]
      /\ \A x \in 1..Len(u) : t[a - 1 + x] = u[x]
      /\ \A x \in a..Len(s) : t[x + Len(u)] = s[x]
  BY DEF Inserted
<1>1. a \in Nat /\ Len(s) \in Nat /\ Len(u) \in Nat /\ 1 <= a /\ a <= Len(s) + 1
  BY DEF Inserted
<1>2. /\ \A x \in 1..(a - 1) : x \in Tokens(t) <=> x \in Tokens(s)
      /\ \A x \in a..Len(s) : x + Len(u) \in Tokens(t) <=> x \in Tokens(s)
  BY InsertTokens
<1>3. ASSUME i < a, j < a, Adjacent(t, i, j)
      PROVE  Adjacent(s, i, j)
  <2>1. {i, j} \subseteq Tokens(s) /\ i < j
    BY <1>1, <1>2, <1>3 DEF Adjacent
  <2>2. ASSUME NEW k \in (i + 1)..(j - 1)
        PROVE  s[k] = Break
    <3>1. k \in 1..(a - 1)
      BY <1>1, <1>3
    <3>2. QED
      BY <3>1, <1>0, <1>3 DEF Adjacent
  <2>3. QED
    BY <2>1, <2>2 DEF Adjacent
<1>4. ASSUME a <= i, a <= j, Adjacent(t, i + Len(u), j + Len(u))
      PROVE  Adjacent(s, i, j)
  <2>1. i \in Tokens(s) /\ j \in Tokens(s) /\ i < j
    BY <1>1, <1>2, <1>4 DEF Adjacent
  <2>2. ASSUME NEW k \in (i + 1)..(j - 1)
        PROVE  s[k] = Break
    <3>1. k \in a..Len(s) /\ k + Len(u) \in (i + Len(u) + 1)..(j + Len(u) - 1)
      BY <1>1, <1>4
    <3>2. t[k + Len(u)] = Break
      BY <3>1, <1>4 DEF Adjacent
    <3>3. QED
      BY <3>1, <3>2, <1>0
  <2>3. QED
    BY <2>1, <2>2 DEF Adjacent
<1>5. QED
  BY <1>3, <1>4

-----------------------------------------------------------------------------
\* An argument is inserted before another.

\* t is s with an argument written before the one at a.
Argument(s, a, u, t, name, value) ==
  /\ Inserted(s, a, u, t) /\ a \in Tokens(s)
  /\ name \in Names /\ value \in Terms
  /\ 4 <= Len(u) /\ \A k \in 5..Len(u) : u[k] = Break
  /\ u[1] = name /\ u[2] = Colon /\ u[3] = value /\ u[4] = Comma

\* Its tokens: those before the argument, its own four, those after it.
LEMMA ArgumentTokens ==
  ASSUME NEW s, NEW a, NEW u, NEW t, NEW n, NEW v, Argument(s, a, u, t, n, v)
  PROVE  /\ a \in Nat /\ Len(u) \in Nat /\ 4 <= Len(u)
         /\ {a, a + 1, a + 2, a + 3, a + Len(u)} \subseteq Tokens(t)
         /\ t[a] = n /\ t[a + 1] = Colon /\ t[a + 2] = v /\ t[a + 3] = Comma /\ t[a + Len(u)] = s[a]
         /\ \A i \in Tokens(t) :
              \/ i \in Tokens(s) /\ i < a /\ t[i] = s[i]
              \/ i \in {a, a + 1, a + 2, a + 3}
              \/ \E k \in Tokens(s) : a <= k /\ i = k + Len(u) /\ t[i] = s[k]
<1>10. /\ Inserted(s, a, u, t) /\ a \in Tokens(s) /\ n \in Names /\ v \in Terms
       /\ Len(u) \in Nat /\ 4 <= Len(u)
  BY DEF Argument, Inserted
<1>0. /\ s \in Seq(Cells) /\ t \in Seq(Cells)
      /\ \A i \in 1..(a - 1) : t[i] = s[i]
      /\ \A i \in 1..Len(u) : t[a - 1 + i] = u[i]
      /\ \A i \in a..Len(s) : t[i + Len(u)] = s[i]
  BY <1>10 DEF Inserted
<1>1. a \in Nat /\ Len(s) \in Nat /\ Len(u) \in Nat /\ 4 <= Len(u) /\ 1 <= a /\ a <= Len(s)
  <2>1. a \in 1..Len(s) /\ Len(s) \in Nat
    BY <1>0, <1>10, TokensIn
  <2>2. QED
    BY <2>1, <1>10
<1>2. /\ u[1] = n /\ u[2] = Colon /\ u[3] = v /\ u[4] = Comma /\ (\A k \in 5..Len(u) : u[k] = Break)
      /\ n # Break /\ v # Break
  <2>1. n # Break /\ v # Break
    BY <1>10, NotNames
  <2>2. u[1] = n /\ u[2] = Colon /\ u[3] = v /\ u[4] = Comma
    BY DEF Argument
  <2>3. \A k \in 5..Len(u) : u[k] = Break
    BY DEF Argument
  <2>4. QED
    BY <2>1, <2>2, <2>3
<1>3. /\ \A i \in 1..(a - 1) : i \in Tokens(t) <=> i \in Tokens(s)
      /\ \A i \in 1..Len(u) : a - 1 + i \in Tokens(t) <=> u[i] # Break
      /\ \A i \in a..Len(s) : i + Len(u) \in Tokens(t) <=> i \in Tokens(s)
      /\ \A i \in Tokens(t) :
              \/ i \in 1..(a - 1)
              \/ \E k \in 1..Len(u) : i = a - 1 + k
              \/ \E k \in a..Len(s) : i = k + Len(u)
  BY <1>10, InsertTokens
<1>13. Len(u) \in Nat /\ 4 <= Len(u)
  BY <1>1
<1>4. {1, 2, 3, 4} \subseteq 1..Len(u)
  BY <1>13
<1>5. /\ a - 1 + 1 = a /\ a - 1 + 2 = a + 1 /\ a - 1 + 3 = a + 2 /\ a - 1 + 4 = a + 3
      /\ a - 1 + 5 = a + 4
  BY <1>1
<1>6. /\ {a - 1 + 1, a - 1 + 2, a - 1 + 3, a - 1 + 4} \subseteq Tokens(t)
      /\ t[a - 1 + 1] = n /\ t[a - 1 + 2] = Colon /\ t[a - 1 + 3] = v /\ t[a - 1 + 4] = Comma
  <2>1. /\ t[a - 1 + 1] = n /\ t[a - 1 + 2] = Colon /\ t[a - 1 + 3] = v /\ t[a - 1 + 4] = Comma
    BY <1>0, <1>2, <1>4
  <2>2. u[1] # Break /\ u[2] # Break /\ u[3] # Break /\ u[4] # Break
    BY <1>2, NotNames
  <2>3. {a - 1 + 1, a - 1 + 2, a - 1 + 3, a - 1 + 4} \subseteq Tokens(t)
    BY <2>2, <1>3, <1>4
  <2>4. QED
    BY <2>1, <2>3
<1>7. a + Len(u) \in Tokens(t) /\ t[a + Len(u)] = s[a]
  <2>1. a \in a..Len(s)
    BY <1>1
  <2>2. t[a + Len(u)] = s[a]
    BY <2>1, <1>0
  <2>3. a + Len(u) \in Tokens(t)
    BY <2>1, <1>3, <1>10
  <2>4. QED
    BY <2>2, <2>3
<1>8. ASSUME NEW i \in Tokens(t)
      PROVE  \/ i \in Tokens(s) /\ i < a /\ t[i] = s[i]
             \/ i \in {a, a + 1, a + 2, a + 3}
             \/ \E k \in Tokens(s) : a <= k /\ i = k + Len(u) /\ t[i] = s[k]
  <2>1. CASE i \in 1..(a - 1)
    BY <2>1, <1>0, <1>1, <1>3
  <2>2. CASE \E k \in 1..Len(u) : i = a - 1 + k
    <3>1. PICK k \in 1..Len(u) : i = a - 1 + k
      BY <2>2
    <3>2. u[k] # Break
      BY <3>1, <1>3
    <3>3. k \in {1, 2, 3, 4}
      <4>1. \A l \in 5..Len(u) : u[l] = Break
        BY <1>2
      <4>2. k \notin 5..Len(u)
        BY <3>1, <3>2, <4>1, <1>13
      <4>3. QED
        BY <3>1, <4>2, <1>13
    <3>4. QED
      BY <3>1, <3>3, <1>5
  <2>3. CASE \E k \in a..Len(s) : i = k + Len(u)
    <3>1. PICK k \in a..Len(s) : i = k + Len(u)
      BY <2>3
    <3>2. k \in Tokens(s) /\ t[i] = s[k] /\ a <= k
      BY <3>1, <1>0, <1>1, <1>3
    <3>3. QED
      BY <3>1, <3>2
  <2>4. QED
    BY <2>1, <2>2, <2>3, <1>3
<1>9. QED
  BY <1>1, <1>5, <1>6, <1>7, <1>8

\* Which of them are adjacent.
LEMMA ArgumentAdjacent ==
  ASSUME NEW s, NEW a, NEW u, NEW t, NEW n, NEW v, Argument(s, a, u, t, n, v),
         NEW i, NEW j, Adjacent(t, i, j)
  PROVE  \/ i < a /\ j < a /\ Adjacent(s, i, j) /\ t[i] = s[i] /\ t[j] = s[j]
         \/ i < a /\ j = a /\ Adjacent(s, i, j) /\ t[i] = s[i]
         \/ i = a /\ j = a + 1
         \/ i = a + 1 /\ j = a + 2
         \/ i = a + 2 /\ j = a + 3
         \/ i = a + 3 /\ j = a + Len(u)
         \/ \E k, l \in Tokens(s) : /\ a <= k /\ i = k + Len(u) /\ j = l + Len(u)
                                    /\ Adjacent(s, k, l) /\ t[i] = s[k] /\ t[j] = s[l]
<1>10. Inserted(s, a, u, t) /\ a \in Tokens(s)
  BY DEF Argument
<1>0. s \in Seq(Cells) /\ t \in Seq(Cells) /\ \A x \in 1..(a - 1) : t[x] = s[x]
  BY <1>10 DEF Inserted
<1>1. /\ a \in Nat /\ Len(u) \in Nat /\ 4 <= Len(u)
      /\ {a, a + 1, a + 2, a + 3, a + Len(u)} \subseteq Tokens(t)
  BY ArgumentTokens
<1>2. \A x \in Tokens(t) :
              \/ x \in Tokens(s) /\ x < a /\ t[x] = s[x]
              \/ x \in {a, a + 1, a + 2, a + 3}
              \/ \E k \in Tokens(s) : a <= k /\ x = k + Len(u) /\ t[x] = s[k]
  BY ArgumentTokens
<1>3. /\ i \in Tokens(t) /\ j \in Tokens(t) /\ i \in Nat /\ j \in Nat /\ i < j
      /\ \A x \in Tokens(t) : x <= i \/ j <= x
  BY <1>0, AdjacentClose
<1>11. i \in Tokens(t) /\ j \in Tokens(t) /\ i \in Nat /\ j \in Nat /\ i < j
  BY <1>3
<1>13. Len(u) \in Nat /\ 4 <= Len(u) /\ a \in Nat
  BY <1>1
<1>4. /\ a <= i \/ j <= a
      /\ a + 1 <= i \/ j <= a + 1
      /\ a + 2 <= i \/ j <= a + 2
      /\ a + 3 <= i \/ j <= a + 3
      /\ a + Len(u) <= i \/ j <= a + Len(u)
  BY <1>1, <1>3
<1>5. \A k \in Tokens(s) : k \in 1..Len(s) /\ k \in Nat
  BY <1>0, TokensIn
<1>6. CASE i < a
  <2>1. i \in Tokens(s) /\ t[i] = s[i]
    BY <1>1, <1>2, <1>3, <1>5, <1>6
  <2>2. CASE j = a
    <3>1. ASSUME NEW k \in (i + 1)..(j - 1)
          PROVE  s[k] = Break
      <4>1. k \in 1..(a - 1)
        BY <1>1, <1>3, <2>2
      <4>2. QED
        BY <4>1, <1>0 DEF Adjacent
    <3>3. Adjacent(s, i, a)
      BY <3>1, <2>1, <2>2, <1>10, <1>6 DEF Adjacent
    <3>2. QED
      BY <3>3, <2>1, <2>2, <1>6
  <2>3. CASE j < a
    <3>1. j \in Tokens(s) /\ t[j] = s[j]
      BY <1>1, <1>2, <1>3, <1>5, <2>3
    <3>2. Adjacent(s, i, j)
      BY <3>1, <2>1, <2>3, <1>5, <1>6, InsertAdjacent, <1>10
    <3>3. QED
      BY <3>1, <3>2, <2>1, <2>3, <1>6
  <2>4. QED
    BY <2>2, <2>3, <1>1, <1>3, <1>4, <1>6
<1>7. CASE i \in {a, a + 1, a + 2, a + 3}
  <2>1. CASE i = a + 3
    <3>1. ~(j < a) /\ j \notin {a, a + 1, a + 2, a + 3}
      BY <2>1, <1>1, <1>11
    <3>4. PICK k \in Tokens(s) : a <= k /\ j = k + Len(u)
      BY <3>1, <1>2, <1>11
    <3>2. a + Len(u) <= j
      <4>1. k \in Nat
        BY <1>5
      <4>2. QED
        BY <4>1, <3>4, <1>13
    <3>3. QED
      BY <3>2, <2>1, <1>1, <1>3, <1>4
  <2>2. CASE i # a + 3
    BY <2>2, <1>1, <1>3, <1>4, <1>7
  <2>3. QED
    BY <2>1, <2>2
<1>8. CASE \E k \in Tokens(s) : a <= k /\ i = k + Len(u) /\ t[i] = s[k]
  <2>1. PICK k \in Tokens(s) : a <= k /\ i = k + Len(u) /\ t[i] = s[k]
    BY <1>8
  <2>6. k \in Nat
    BY <2>1, <1>5
  <2>2. a + 3 < j
    BY <2>1, <2>6, <1>13, <1>11
  <2>3. PICK l \in Tokens(s) : a <= l /\ j = l + Len(u) /\ t[j] = s[l]
    BY <2>2, <1>1, <1>2, <1>3
  <2>4. Adjacent(s, k, l)
    BY <2>1, <2>3, <1>5, InsertAdjacent, <1>10
  <2>5. QED
    BY <2>1, <2>3, <2>4
<1>9. QED
  BY <1>2, <1>3, <1>6, <1>7, <1>8

-----------------------------------------------------------------------------
\* The list it leaves is an argument list, in order if it was written where it belongs.

\* Nothing but v6 in the argument that gives the modes.
AllV6(text) ==
  \A i, j, k \in Tokens(text) :
    text[i] = "swiftLanguageModes" /\ Adjacent(text, i, j) /\ Adjacent(text, j, k) => text[k] = "v6"

\* Written before a name, it leaves an argument list.
LEMMA ArgumentList ==
  ASSUME NEW s, NEW a, NEW u, NEW t, NEW n, NEW v, Argument(s, a, u, t, n, v),
         IsArgumentList(s), s[a] \in Names
  PROVE  IsArgumentList(t)
<1>0. Inserted(s, a, u, t) /\ a \in Tokens(s) /\ n \in Names /\ v \in Terms
  BY DEF Argument
<1>1. s \in Seq(Cells) /\ t \in Seq(Cells)
  BY <1>0 DEF Inserted
<1>2. /\ a \in Nat /\ Len(u) \in Nat /\ 4 <= Len(u)
      /\ {a, a + 1, a + 2, a + 3, a + Len(u)} \subseteq Tokens(t)
      /\ t[a] = n /\ t[a + 1] = Colon /\ t[a + 2] = v /\ t[a + 3] = Comma /\ t[a + Len(u)] = s[a]
  BY ArgumentTokens
<1>3. \A i \in Tokens(t) :
              \/ i \in Tokens(s) /\ i < a /\ t[i] = s[i]
              \/ i \in {a, a + 1, a + 2, a + 3}
              \/ \E k \in Tokens(s) : a <= k /\ i = k + Len(u) /\ t[i] = s[k]
  BY ArgumentTokens
<1>4. /\ \A i \in Tokens(s) : i \in Nat /\ i \in 1..Len(s)
      /\ \A i \in Tokens(t) : i \in Nat
  BY <1>1, TokensIn
<1>5. \E i \in Tokens(t) : t[i] \in Names /\ \A j \in Tokens(t) : i <= j
  <2>1. PICK f \in Tokens(s) : s[f] \in Names /\ \A j \in Tokens(s) : f <= j
    BY DEF IsArgumentList
  <2>2. f \in Nat /\ f <= a
    BY <2>1, <1>0, <1>4
  <2>3. ASSUME NEW j \in Tokens(t)
        PROVE  f <= j
    <3>1. j \in Nat
      BY <1>4
    <3>2. CASE j \in Tokens(s) /\ j < a
      BY <3>2, <2>1
    <3>3. CASE j \in {a, a + 1, a + 2, a + 3}
      BY <3>3, <2>2, <1>2
    <3>4. CASE \E k \in Tokens(s) : a <= k /\ j = k + Len(u)
      <4>1. PICK k \in Tokens(s) : a <= k /\ j = k + Len(u)
        BY <3>4
      <4>2. k \in Nat
        BY <1>4
      <4>3. QED
        BY <4>1, <4>2, <2>2, <1>2
    <3>5. QED
      BY <3>2, <3>3, <3>4, <1>3
  <2>4. CASE f = a
    BY <2>3, <2>4, <1>0, <1>2
  <2>5. CASE f < a
    <3>1. f \in 1..(a - 1)
      BY <2>1, <2>5, <1>2, <1>4
    <3>2. f \in Tokens(t)
      BY <3>1, <1>0, <2>1, InsertTokens
    <3>4. t[f] = s[f]
      BY <3>1, <1>0 DEF Inserted
    <3>3. QED
      BY <3>2, <3>4, <2>1, <2>3
  <2>6. QED
    BY <2>2, <2>4, <2>5, <1>2
<1>6. \E i \in Tokens(t) : t[i] \in Terms \cup {Comma} /\ \A j \in Tokens(t) : j <= i
  <2>1. PICK l \in Tokens(s) : s[l] \in Terms \cup {Comma} /\ \A j \in Tokens(s) : j <= l
    BY DEF IsArgumentList
  <2>2. l \in a..Len(s) /\ l \in Nat
    BY <2>1, <1>0, <1>1, <1>2, <1>4
  <2>3. l + Len(u) \in Tokens(t) /\ t[l + Len(u)] = s[l]
    BY <2>1, <2>2, <1>0, InsertTokens DEF Inserted
  <2>4. ASSUME NEW j \in Tokens(t)
        PROVE  j <= l + Len(u)
    <3>1. CASE j \in Tokens(s) /\ j < a
      BY <3>1, <2>2, <1>2, <1>4
    <3>2. CASE j \in {a, a + 1, a + 2, a + 3}
      BY <3>2, <2>2, <1>2
    <3>3. CASE \E k \in Tokens(s) : a <= k /\ j = k + Len(u)
      <4>1. PICK k \in Tokens(s) : a <= k /\ j = k + Len(u)
        BY <3>3
      <4>2. k \in Nat /\ k <= l
        BY <1>4, <2>1
      <4>3. QED
        BY <4>1, <4>2, <2>2, <1>2
    <3>4. QED
      BY <3>1, <3>2, <3>3, <1>3
  <2>5. QED
    BY <2>1, <2>3, <2>4
<1>7. ASSUME NEW i \in Tokens(t), NEW j \in Tokens(t), Adjacent(t, i, j)
      PROVE  Joins(t[i], t[j])
  <2>1. \A x, y \in Tokens(s) : Adjacent(s, x, y) => Joins(s[x], s[y])
    BY DEF IsArgumentList
  <2>2. \A x, y : Adjacent(s, x, y) => x \in Tokens(s) /\ y \in Tokens(s)
    BY DEF Adjacent
  <2>3. \/ i < a /\ j < a /\ Adjacent(s, i, j) /\ t[i] = s[i] /\ t[j] = s[j]
        \/ i < a /\ j = a /\ Adjacent(s, i, j) /\ t[i] = s[i]
        \/ i = a /\ j = a + 1
        \/ i = a + 1 /\ j = a + 2
        \/ i = a + 2 /\ j = a + 3
        \/ i = a + 3 /\ j = a + Len(u)
        \/ \E k, l \in Tokens(s) : /\ a <= k /\ i = k + Len(u) /\ j = l + Len(u)
                                   /\ Adjacent(s, k, l) /\ t[i] = s[k] /\ t[j] = s[l]
    BY <1>7, ArgumentAdjacent
  <2>4. CASE i < a /\ j = a /\ Adjacent(s, i, j) /\ t[i] = s[i]
    <3>1. Joins(s[i], s[a])
      BY <2>1, <2>2, <2>4
    <3>2. s[i] = Comma
      BY <3>1, NotNames DEF Joins
    <3>3. QED
      BY <3>2, <2>4, <1>0, <1>2 DEF Joins
  <2>5. CASE i < a /\ j < a /\ Adjacent(s, i, j) /\ t[i] = s[i] /\ t[j] = s[j]
    BY <2>1, <2>2, <2>5
  <2>6. CASE i = a /\ j = a + 1
    BY <2>6, <1>0, <1>2 DEF Joins
  <2>7. CASE i = a + 1 /\ j = a + 2
    BY <2>7, <1>0, <1>2 DEF Joins
  <2>8. CASE i = a + 2 /\ j = a + 3
    BY <2>8, <1>0, <1>2 DEF Joins
  <2>9. CASE i = a + 3 /\ j = a + Len(u)
    BY <2>9, <1>2 DEF Joins
  <2>10. CASE \E k, l \in Tokens(s) : /\ a <= k /\ i = k + Len(u) /\ j = l + Len(u)
                                      /\ Adjacent(s, k, l) /\ t[i] = s[k] /\ t[j] = s[l]
    BY <2>1, <2>10
  <2>11. QED
    BY <2>3, <2>4, <2>5, <2>6, <2>7, <2>8, <2>9, <2>10
<1>8. QED
  BY <1>5, <1>6, <1>7 DEF IsArgumentList

\* One name is new.
LEMMA ArgumentNames ==
  ASSUME NEW s, NEW a, NEW u, NEW t, NEW n, NEW v, Argument(s, a, u, t, n, v)
  PROVE  /\ \A i \in Tokens(t) : t[i] \in Names =>
              \/ i \in Tokens(s) /\ i < a /\ t[i] = s[i]
              \/ i = a /\ t[i] = n
              \/ \E k \in Tokens(s) : a <= k /\ i = k + Len(u) /\ t[i] = s[k]
         /\ \A m \in Names : Has(t, m) <=> Has(s, m) \/ m = n
<1>0. Inserted(s, a, u, t) /\ a \in Tokens(s) /\ n \in Names /\ v \in Terms
  BY DEF Argument
<1>1. /\ a \in Nat /\ Len(u) \in Nat /\ 4 <= Len(u)
      /\ {a, a + 1, a + 2, a + 3, a + Len(u)} \subseteq Tokens(t)
      /\ t[a] = n /\ t[a + 1] = Colon /\ t[a + 2] = v /\ t[a + 3] = Comma /\ t[a + Len(u)] = s[a]
  BY ArgumentTokens
<1>2. \A i \in Tokens(t) :
              \/ i \in Tokens(s) /\ i < a /\ t[i] = s[i]
              \/ i \in {a, a + 1, a + 2, a + 3}
              \/ \E k \in Tokens(s) : a <= k /\ i = k + Len(u) /\ t[i] = s[k]
  BY ArgumentTokens
<1>3. ASSUME NEW i \in Tokens(t), t[i] \in Names
      PROVE  \/ i \in Tokens(s) /\ i < a /\ t[i] = s[i]
             \/ i = a /\ t[i] = n
             \/ \E k \in Tokens(s) : a <= k /\ i = k + Len(u) /\ t[i] = s[k]
  <2>1. i \notin {a + 1, a + 2, a + 3}
    BY <1>0, <1>1, <1>3, NotNames
  <2>2. QED
    BY <2>1, <1>1, <1>2
<1>4. ASSUME NEW m \in Names, Has(t, m)
      PROVE  Has(s, m) \/ m = n
  BY <1>3, <1>4 DEF Has
<1>5. ASSUME NEW m \in Names, Has(s, m)
      PROVE  Has(t, m)
  <2>1. PICK k \in Tokens(s) : s[k] = m
    BY <1>5 DEF Has
  <2>2. k \in 1..Len(s) /\ k \in Nat
    BY <1>0, TokensIn DEF Inserted
  <2>3. CASE k < a
    <3>1. k \in 1..(a - 1)
      BY <2>2, <2>3, <1>1
    <3>2. k \in Tokens(t) /\ t[k] = s[k]
      BY <3>1, <2>1, <1>0, InsertTokens DEF Inserted
    <3>3. QED
      BY <3>2, <2>1 DEF Has
  <2>4. CASE a <= k
    <3>1. k \in a..Len(s)
      BY <2>2, <2>4, <1>1
    <3>2. k + Len(u) \in Tokens(t) /\ t[k + Len(u)] = s[k]
      BY <3>1, <2>1, <1>0, InsertTokens DEF Inserted
    <3>3. QED
      BY <3>2, <2>1 DEF Has
  <2>5. QED
    BY <2>2, <2>3, <2>4, <1>1
<1>6. Has(t, n)
  BY <1>1 DEF Has
<1>7. QED
  BY <1>3, <1>4, <1>5, <1>6

-----------------------------------------------------------------------------
\* The order of the arguments.

\* The names follow one another as R has them.
Sorted(text, R) ==
  \A i, j \in Tokens(text) :
    i < j /\ text[i] \in Names /\ text[j] \in Names => <<text[i], text[j]>> \in R

\* The order of Package, and one in which the platforms may come late.
Strictly == {p \in Names \X Names : Rank(p[1]) < Rank(p[2])}

Late == {"pkgConfig", "providers", "traits"}

Loosely == Strictly \cup (Late \X {"platforms"})

\* What the two orders have.
LEMMA OrdersAre ==
  ASSUME NEW m \in Names, NEW n \in Names
  PROVE  /\ <<m, n>> \in Strictly <=> Rank(m) < Rank(n)
         /\ <<m, n>> \in Loosely <=> Rank(m) < Rank(n) \/ (m \in Late /\ n = "platforms")
<1>1. <<m, n>> \in Strictly <=> Rank(m) < Rank(n)
  BY DEF Strictly
<1>2. QED
  BY <1>1 DEF Loosely

\* To be sorted in the order of Package is to be in order.
LEMMA SortedInOrder ==
  ASSUME NEW text
  PROVE  Sorted(text, Strictly) <=> InOrder(text)
BY OrdersAre DEF Sorted, InOrder

\* Without platforms the two orders are the same.
LEMMA LooselyInOrder ==
  ASSUME NEW text
  PROVE  /\ InOrder(text) => Sorted(text, Loosely)
         /\ Sorted(text, Loosely) /\ ~Has(text, "platforms") => InOrder(text)
BY OrdersAre DEF Sorted, InOrder, Has

\* A text has every name once.
LEMMA SortedOnce ==
  ASSUME NEW s \in Seq(Cells), Sorted(s, Loosely), NEW i \in Tokens(s), NEW j \in Tokens(s),
         s[i] = s[j], s[i] \in Names
  PROVE  i = j
<1>1. i \in Nat /\ j \in Nat
  BY TokensIn
<1>2. ~(i < j) /\ ~(j < i)
  <2>1. Rank(s[i]) \in Nat
    BY NamesAre
  <2>2. ~(Rank(s[i]) < Rank(s[i]))
    BY <2>1
  <2>3. ~(s[i] \in Late /\ s[i] = "platforms")
    BY DEF Late
  <2>4. <<s[i], s[i]>> \notin Loosely
    BY <2>2, <2>3, OrdersAre
  <2>5. QED
    BY <2>4 DEF Sorted
<1>3. QED
  BY <1>1, <1>2

\* An argument written after the names that precede it and before the others
\* leaves them sorted.
LEMMA ArgumentSorted ==
  ASSUME NEW s, NEW a, NEW u, NEW t, NEW n, NEW v, Argument(s, a, u, t, n, v),
         NEW R, Sorted(s, R),
         \A k \in Tokens(s) : s[k] \in Names =>
           (k < a => <<s[k], n>> \in R) /\ (a <= k => <<n, s[k]>> \in R)
  PROVE  Sorted(t, R)
<1>0. s \in Seq(Cells) /\ t \in Seq(Cells) /\ a \in Nat /\ Len(u) \in Nat
  BY ArgumentTokens DEF Argument, Inserted
<1>1. \A i \in Tokens(s) : i \in Nat
  BY <1>0, TokensIn
<1>2. SUFFICES ASSUME NEW i \in Tokens(t), NEW j \in Tokens(t), i < j,
                      t[i] \in Names, t[j] \in Names
               PROVE  <<t[i], t[j]>> \in R
  BY DEF Sorted
<1>3. \A x, y \in Tokens(s) :
        x < y /\ s[x] \in Names /\ s[y] \in Names => <<s[x], s[y]>> \in R
  BY DEF Sorted
<1>4. /\ \/ i \in Tokens(s) /\ i < a /\ t[i] = s[i]
         \/ i = a /\ t[i] = n
         \/ \E k \in Tokens(s) : a <= k /\ i = k + Len(u) /\ t[i] = s[k]
      /\ \/ j \in Tokens(s) /\ j < a /\ t[j] = s[j]
         \/ j = a /\ t[j] = n
         \/ \E k \in Tokens(s) : a <= k /\ j = k + Len(u) /\ t[j] = s[k]
  BY <1>2, ArgumentNames
<1>5. CASE i \in Tokens(s) /\ i < a /\ t[i] = s[i]
  <2>1. CASE j \in Tokens(s) /\ j < a /\ t[j] = s[j]
    BY <2>1, <1>2, <1>3, <1>5
  <2>2. CASE j = a /\ t[j] = n
    BY <2>2, <1>2, <1>5
  <2>3. CASE \E k \in Tokens(s) : a <= k /\ j = k + Len(u) /\ t[j] = s[k]
    <3>1. PICK k \in Tokens(s) : a <= k /\ j = k + Len(u) /\ t[j] = s[k]
      BY <2>3
    <3>2. i < k
      BY <3>1, <1>0, <1>1, <1>5
    <3>3. QED
      BY <3>1, <3>2, <1>2, <1>3, <1>5
  <2>4. QED
    BY <2>1, <2>2, <2>3, <1>4
<1>6. CASE i = a /\ t[i] = n
  <2>1. ~(j < a) /\ j # a
    BY <1>0, <1>2, <1>6
  <2>2. QED
    BY <2>1, <1>2, <1>4, <1>6
<1>7. CASE \E k \in Tokens(s) : a <= k /\ i = k + Len(u) /\ t[i] = s[k]
  <2>1. PICK k \in Tokens(s) : a <= k /\ i = k + Len(u) /\ t[i] = s[k]
    BY <1>7
  <2>2. k \in Nat /\ a <= i
    BY <2>1, <1>0, <1>1
  <2>3. ~(j < a) /\ j # a
    BY <2>1, <2>2, <1>0, <1>2, <1>1
  <2>4. PICK l \in Tokens(s) : a <= l /\ j = l + Len(u) /\ t[j] = s[l]
    BY <2>3, <1>4
  <2>5. k < l
    BY <2>1, <2>4, <1>0, <1>1, <1>2
  <2>6. QED
    BY <2>1, <2>4, <2>5, <1>2, <1>3
<1>8. QED
  BY <1>4, <1>5, <1>6, <1>7

\* Names that are not sorted are not sorted by writing something among them.
LEMMA InsertedSorted ==
  ASSUME NEW s, NEW a, NEW u, NEW t, Inserted(s, a, u, t), NEW R, Sorted(t, R)
  PROVE  Sorted(s, R)
<1>0. /\ s \in Seq(Cells) /\ a \in Nat /\ Len(u) \in Nat
      /\ \A i \in 1..(a - 1) : t[i] = s[i]
      /\ \A i \in a..Len(s) : t[i + Len(u)] = s[i]
  BY DEF Inserted
<1>1. /\ \A i \in 1..(a - 1) : i \in Tokens(t) <=> i \in Tokens(s)
      /\ \A i \in a..Len(s) : i + Len(u) \in Tokens(t) <=> i \in Tokens(s)
  BY InsertTokens
<1>2. SUFFICES ASSUME NEW i \in Tokens(s), NEW j \in Tokens(s), i < j,
                      s[i] \in Names, s[j] \in Names
               PROVE  <<s[i], s[j]>> \in R
  BY DEF Sorted
<1>3. i \in 1..Len(s) /\ j \in 1..Len(s) /\ Len(s) \in Nat
  BY <1>0, TokensIn
<1>4. ASSUME NEW x \in Tokens(t), NEW y \in Tokens(t), x < y, t[x] = s[i], t[y] = s[j]
      PROVE  <<s[i], s[j]>> \in R
  BY <1>2, <1>4 DEF Sorted
<1>5. CASE j < a
  <2>1. i \in 1..(a - 1) /\ j \in 1..(a - 1)
    BY <1>0, <1>2, <1>3, <1>5
  <2>2. QED
    BY <2>1, <1>0, <1>1, <1>2, <1>4
<1>6. CASE i < a /\ a <= j
  <2>1. i \in 1..(a - 1) /\ j \in a..Len(s) /\ i < j + Len(u)
    BY <1>0, <1>2, <1>3, <1>6
  <2>2. QED
    BY <2>1, <1>0, <1>1, <1>4
<1>7. CASE a <= i
  <2>1. i \in a..Len(s) /\ j \in a..Len(s) /\ i + Len(u) < j + Len(u)
    BY <1>0, <1>2, <1>3, <1>7
  <2>2. QED
    BY <2>1, <1>0, <1>1, <1>4
<1>8. QED
  BY <1>0, <1>3, <1>5, <1>6, <1>7

-----------------------------------------------------------------------------
\* The modes in a list with one more argument.

\* Two tokens after a name is its value.
LEMMA ModesFollowed ==
  ASSUME NEW text \in Seq(Cells), IsArgumentList(text), NEW i, NEW j, NEW k,
         text[i] \in Names, Adjacent(text, i, j), Adjacent(text, j, k)
  PROVE  text[j] = Colon /\ text[k] \in Terms
<1>1. Joins(text[i], text[j]) /\ Joins(text[j], text[k])
  BY DEF IsArgumentList, Adjacent
<1>2. text[j] = Colon
  BY <1>1, NotNames DEF Joins
<1>3. text[k] \in Terms
  BY <1>1, <1>2, NotNames DEF Joins
<1>4. QED
  BY <1>2, <1>3

\* No weaker mode appears.
LEMMA ArgumentAllV6 ==
  ASSUME NEW s, NEW a, NEW u, NEW t, NEW n, NEW v, Argument(s, a, u, t, n, v),
         IsArgumentList(s), s[a] \in Names,
         AllV6(s), n = "swiftLanguageModes" => v = "v6"
  PROVE  AllV6(t)
<1>0. Inserted(s, a, u, t) /\ a \in Tokens(s) /\ n \in Names /\ v \in Terms
  BY DEF Argument
<1>1. s \in Seq(Cells) /\ t \in Seq(Cells) /\ IsArgumentList(t)
  BY <1>0, ArgumentList DEF Inserted
<1>2. /\ a \in Nat /\ Len(u) \in Nat /\ 4 <= Len(u)
      /\ {a, a + 1, a + 2, a + 3, a + Len(u)} \subseteq Tokens(t)
      /\ t[a] = n /\ t[a + 1] = Colon /\ t[a + 2] = v /\ t[a + 3] = Comma
  BY ArgumentTokens
<1>3. SUFFICES ASSUME NEW i \in Tokens(t), NEW j \in Tokens(t), NEW k \in Tokens(t),
                      t[i] = "swiftLanguageModes", Adjacent(t, i, j), Adjacent(t, j, k)
               PROVE  t[k] = "v6"
  BY DEF AllV6
<1>4. t[i] \in Names
  BY <1>3, NamesAre
<1>5. t[j] = Colon /\ t[k] \in Terms
  BY <1>1, <1>3, <1>4, ModesFollowed
<1>6. t[j] # n /\ t[k] # n
  BY <1>0, <1>5, NotNames
<1>7. i \in Nat /\ j \in Nat /\ k \in Nat /\ i < j /\ j < k
  BY <1>1, <1>3, AdjacentClose
<1>8. \A x, y : Adjacent(t, x, y) =>
         \/ x < a /\ y < a /\ Adjacent(s, x, y) /\ t[x] = s[x] /\ t[y] = s[y]
         \/ x < a /\ y = a /\ Adjacent(s, x, y) /\ t[x] = s[x]
         \/ x = a /\ y = a + 1
         \/ x = a + 1 /\ y = a + 2
         \/ x = a + 2 /\ y = a + 3
         \/ x = a + 3 /\ y = a + Len(u)
         \/ \E p, q \in Tokens(s) : /\ a <= p /\ x = p + Len(u) /\ y = q + Len(u)
                                    /\ Adjacent(s, p, q) /\ t[x] = s[p] /\ t[y] = s[q]
  BY ArgumentAdjacent
<1>9. \A x \in Tokens(s) : x \in Nat
  BY <1>1, TokensIn
<1>10. \/ i \in Tokens(s) /\ i < a /\ t[i] = s[i]
       \/ i = a /\ t[i] = n
       \/ \E x \in Tokens(s) : a <= x /\ i = x + Len(u) /\ t[i] = s[x]
  BY <1>4, ArgumentNames
<1>11. ASSUME NEW x, NEW y, NEW z, s[x] = "swiftLanguageModes",
              Adjacent(s, x, y), Adjacent(s, y, z)
       PROVE  s[z] = "v6"
  <2>1. x \in Tokens(s) /\ y \in Tokens(s) /\ z \in Tokens(s)
    BY <1>11 DEF Adjacent
  <2>2. QED
    BY <2>1, <1>11 DEF AllV6
<1>12. \A p \in Tokens(s) : a <= p => a + 3 < p + Len(u)
  BY <1>2, <1>9
<1>13. CASE i \in Tokens(s) /\ i < a /\ t[i] = s[i]
  <2>0. ~(i \in {a, a + 1, a + 2, a + 3}) /\ \A p \in Tokens(s) : a <= p => i # p + Len(u)
    BY <1>2, <1>7, <1>12, <1>13
  <2>1. j < a /\ Adjacent(s, i, j) /\ t[j] = s[j]
    BY <2>0, <1>2, <1>3, <1>6, <1>8
  <2>2. ~(j \in {a, a + 1, a + 2, a + 3}) /\ \A p \in Tokens(s) : a <= p => j # p + Len(u)
    BY <2>1, <1>2, <1>7, <1>12
  <2>3. k < a /\ Adjacent(s, j, k) /\ t[k] = s[k]
    BY <2>2, <1>2, <1>3, <1>6, <1>8
  <2>4. QED
    BY <2>1, <2>3, <1>3, <1>11, <1>13
<1>14. CASE i = a /\ t[i] = n
  <2>1. a + 1 <= i \/ j <= a + 1
    BY <1>1, <1>2, <1>3, AdjacentClose
  <2>2. j = a + 1
    BY <2>1, <1>2, <1>7, <1>14
  <2>3. a + 2 <= j \/ k <= a + 2
    BY <1>1, <1>2, <1>3, AdjacentClose
  <2>4. k = a + 2
    BY <2>2, <2>3, <1>2, <1>7
  <2>5. QED
    BY <2>4, <1>2, <1>3, <1>14
<1>15. CASE \E x \in Tokens(s) : a <= x /\ i = x + Len(u) /\ t[i] = s[x]
  <2>1. PICK x \in Tokens(s) : a <= x /\ i = x + Len(u) /\ t[i] = s[x]
    BY <1>15
  <2>2. a + 3 < i
    BY <2>1, <1>12
  <2>3. ~(i < a) /\ i \notin {a, a + 1, a + 2, a + 3}
    BY <2>2, <1>2, <1>7
  <2>4. PICK p, q \in Tokens(s) : /\ a <= p /\ i = p + Len(u) /\ j = q + Len(u)
                                  /\ Adjacent(s, p, q) /\ t[i] = s[p] /\ t[j] = s[q]
    BY <2>3, <1>3, <1>8
  <2>5. a + 3 < j
    BY <2>2, <1>2, <1>7
  <2>6. ~(j < a) /\ j \notin {a, a + 1, a + 2, a + 3}
    BY <2>5, <1>2, <1>7
  <2>7. PICK m, r \in Tokens(s) : /\ j = m + Len(u)
                                  /\ Adjacent(s, m, r) /\ t[k] = s[r]
    BY <2>6, <1>3, <1>8
  <2>8. m = q
    BY <2>4, <2>7, <1>2, <1>9, SMTT(30)
  <2>9. QED
    BY <2>4, <2>7, <2>8, <1>3, <1>11
<1>16. QED
  BY <1>10, <1>13, <1>14, <1>15

-----------------------------------------------------------------------------
\* Something is written after the last token.

\* t is s with something written after all its tokens.
AfterTokens(s, a, u, t) ==
  Inserted(s, a, u, t) /\ \A i \in Tokens(s) : i < a

\* The tokens that were there are still there, adjacent as before.
LEMMA TailTokens ==
  ASSUME NEW s, NEW a, NEW u, NEW t, AfterTokens(s, a, u, t)
  PROVE  /\ \A i \in Tokens(s) : i \in Tokens(t) /\ t[i] = s[i]
         /\ \A i \in 1..Len(u) : /\ a - 1 + i \in Tokens(t) <=> u[i] # Break
                                 /\ t[a - 1 + i] = u[i]
         /\ \A i \in Tokens(t) :
              \/ i \in Tokens(s)
              \/ \E k \in 1..Len(u) : i = a - 1 + k /\ t[i] = u[k] /\ u[k] # Break
         /\ \A i, j \in Tokens(s) : Adjacent(t, i, j) => Adjacent(s, i, j)
<1>1. /\ s \in Seq(Cells) /\ t \in Seq(Cells) /\ u \in Seq(Cells) /\ Inserted(s, a, u, t)
      /\ a \in Nat /\ Len(u) \in Nat /\ \A i \in Tokens(s) : i < a
      /\ \A i \in 1..(a - 1) : t[i] = s[i]
      /\ \A i \in 1..Len(u) : t[a - 1 + i] = u[i]
  BY DEF AfterTokens, Inserted
<1>2. \A i \in Tokens(s) : i \in Nat /\ i \in 1..Len(s)
  BY <1>1, TokensIn
<1>3. /\ \A i \in 1..(a - 1) : i \in Tokens(t) <=> i \in Tokens(s)
      /\ \A i \in 1..Len(u) : a - 1 + i \in Tokens(t) <=> u[i] # Break
      /\ \A i \in a..Len(s) : i + Len(u) \in Tokens(t) <=> i \in Tokens(s)
      /\ \A i \in Tokens(t) :
              \/ i \in 1..(a - 1)
              \/ \E k \in 1..Len(u) : i = a - 1 + k
              \/ \E k \in a..Len(s) : i = k + Len(u)
  <2>1. Inserted(s, a, u, t)
    BY <1>1
  <2>2. QED
    BY <2>1, InsertTokens
<1>4. ASSUME NEW i \in Tokens(s)
      PROVE  i \in 1..(a - 1) /\ i \in Tokens(t) /\ t[i] = s[i]
  <2>1. i \in 1..(a - 1)
    BY <1>1, <1>2
  <2>2. QED
    BY <2>1, <1>1, <1>3
<1>5. ASSUME NEW i \in Tokens(t)
      PROVE  \/ i \in Tokens(s)
             \/ \E k \in 1..Len(u) : i = a - 1 + k /\ t[i] = u[k] /\ u[k] # Break
  <2>1. CASE i \in 1..(a - 1)
    BY <2>1, <1>3
  <2>2. CASE \E k \in 1..Len(u) : i = a - 1 + k
    BY <2>2, <1>1, <1>3
  <2>3. CASE \E k \in a..Len(s) : i = k + Len(u)
    <3>1. PICK k \in a..Len(s) : i = k + Len(u)
      BY <2>3
    <3>2. k \in Tokens(s)
      BY <3>1, <1>3
    <3>3. QED
      BY <3>1, <3>2, <1>1, <1>2
  <2>4. QED
    BY <2>1, <2>2, <2>3, <1>3
<1>6. ASSUME NEW i \in Tokens(s), NEW j \in Tokens(s), Adjacent(t, i, j)
      PROVE  Adjacent(s, i, j)
  BY <1>1, <1>2, <1>6, InsertAdjacent
<1>7. QED
  BY <1>1, <1>3, <1>4, <1>5, <1>6

\* A comma after the last value.
CommaTail(s, a, u, t) ==
  /\ AfterTokens(s, a, u, t) /\ a - 1 \in Tokens(s) /\ s[a - 1] # Comma
  /\ 1 <= Len(u) /\ Len(u) <= 1 /\ u[1] = Comma

\* One token is new, the last.
LEMMA CommaTokens ==
  ASSUME NEW s, NEW a, NEW u, NEW t, CommaTail(s, a, u, t)
  PROVE  /\ a \in Nat /\ a \in Tokens(t) /\ t[a] = Comma
         /\ \A i \in Tokens(t) : (i \in Tokens(s) /\ t[i] = s[i]) \/ i = a
         /\ \A i \in Tokens(s) : i \in Nat /\ i < a /\ i \in Tokens(t) /\ t[i] = s[i]
<1>0. AfterTokens(s, a, u, t)
  BY DEF CommaTail
<1>1. /\ s \in Seq(Cells) /\ u \in Seq(Cells) /\ a \in Nat /\ Len(u) \in Nat
      /\ \A i \in Tokens(s) : i < a
  BY <1>0 DEF AfterTokens, Inserted
<1>2. 1 <= Len(u) /\ Len(u) <= 1 /\ u[1] = Comma
  BY DEF CommaTail
<1>3. 1 \in 1..Len(u) /\ \A k \in 1..Len(u) : k = 1
  BY <1>1, <1>2
<1>4. /\ \A i \in Tokens(s) : i \in Tokens(t) /\ t[i] = s[i]
      /\ \A i \in 1..Len(u) : /\ a - 1 + i \in Tokens(t) <=> u[i] # Break
                              /\ t[a - 1 + i] = u[i]
      /\ \A i \in Tokens(t) :
           \/ i \in Tokens(s)
           \/ \E k \in 1..Len(u) : i = a - 1 + k /\ t[i] = u[k] /\ u[k] # Break
  BY <1>0, TailTokens
<1>5. a - 1 + 1 = a
  BY <1>1
<1>6. a \in Tokens(t) /\ t[a] = Comma
  BY <1>2, <1>3, <1>4, <1>5, NotNames
<1>7. \A i \in Tokens(t) : (i \in Tokens(s) /\ t[i] = s[i]) \/ i = a
  BY <1>3, <1>4, <1>5
<1>8. \A i \in Tokens(s) : i \in Nat
  BY <1>1, TokensIn
<1>9. QED
  BY <1>1, <1>4, <1>6, <1>7, <1>8

\* A comma after the last value leaves an argument list, with the same names.
LEMMA CommaAdded ==
  ASSUME NEW s, NEW a, NEW u, NEW t, CommaTail(s, a, u, t), IsArgumentList(s), AllV6(s)
  PROVE  /\ IsArgumentList(t) /\ AllV6(t)
         /\ \A R : Sorted(s, R) => Sorted(t, R)
         /\ \A m \in Names : Has(t, m) <=> Has(s, m)
<1>0. AfterTokens(s, a, u, t) /\ a - 1 \in Tokens(s) /\ s[a - 1] # Comma
  BY DEF CommaTail
<1>1. s \in Seq(Cells) /\ t \in Seq(Cells) /\ IsArgumentList(s)
  BY <1>0 DEF AfterTokens, Inserted
<1>2. /\ a \in Nat /\ a \in Tokens(t) /\ t[a] = Comma
      /\ \A i \in Tokens(t) : (i \in Tokens(s) /\ t[i] = s[i]) \/ i = a
      /\ \A i \in Tokens(s) : i \in Nat /\ i < a /\ i \in Tokens(t) /\ t[i] = s[i]
  BY CommaTokens
<1>3. \A i, j \in Tokens(s) : Adjacent(t, i, j) => Adjacent(s, i, j)
  BY <1>0, TailTokens
<1>4. s[a - 1] \in Terms
  <2>1. PICK l \in Tokens(s) : s[l] \in Terms \cup {Comma} /\ \A j \in Tokens(s) : j <= l
    BY <1>1 DEF IsArgumentList
  <2>2. l = a - 1
    BY <2>1, <1>0, <1>2
  <2>3. QED
    BY <2>1, <2>2, <1>0
<1>5. ASSUME NEW i, NEW j, Adjacent(t, i, j)
      PROVE  \/ Adjacent(s, i, j) /\ t[i] = s[i] /\ t[j] = s[j]
             \/ t[i] \in Terms /\ t[j] = Comma
  <2>1. /\ i \in Tokens(t) /\ j \in Tokens(t) /\ i \in Nat /\ j \in Nat /\ i < j
        /\ \A x \in Tokens(t) : x <= i \/ j <= x
    BY <1>1, <1>5, AdjacentClose
  <2>2. i \in Tokens(s) /\ t[i] = s[i]
    BY <2>1, <1>2
  <2>3. CASE j \in Tokens(s)
    BY <2>2, <2>3, <1>2, <1>3, <1>5
  <2>4. CASE j = a
    <3>1. a - 1 \in Tokens(t) /\ (a - 1 <= i \/ j <= a - 1)
      BY <2>1, <1>0, <1>2
    <3>2. i = a - 1
      BY <3>1, <2>1, <2>4, <1>2
    <3>3. QED
      BY <3>2, <2>2, <2>4, <1>2, <1>4
  <2>5. QED
    BY <2>1, <2>3, <2>4, <1>2
<1>6. IsArgumentList(t)
  <2>1. PICK f \in Tokens(s) : s[f] \in Names /\ \A j \in Tokens(s) : f <= j
    BY <1>1 DEF IsArgumentList
  <2>2. f \in Tokens(t) /\ t[f] \in Names /\ \A j \in Tokens(t) : f <= j
    BY <2>1, <1>2
  <2>3. \A j \in Tokens(t) : j <= a
    BY <1>2
  <2>4. ASSUME NEW i \in Tokens(t), NEW j \in Tokens(t), Adjacent(t, i, j)
        PROVE  Joins(t[i], t[j])
    <3>1. CASE Adjacent(s, i, j) /\ t[i] = s[i] /\ t[j] = s[j]
      BY <3>1, <1>1 DEF IsArgumentList, Adjacent
    <3>2. CASE t[i] \in Terms /\ t[j] = Comma
      BY <3>2 DEF Joins
    <3>3. QED
      BY <3>1, <3>2, <2>4, <1>5
  <2>5. QED
    BY <2>2, <2>3, <2>4, <1>2 DEF IsArgumentList
<1>7. \A i \in Tokens(t) : t[i] \in Names => i \in Tokens(s) /\ t[i] = s[i]
  BY <1>2, NotNames
<1>8. \A R : Sorted(s, R) => Sorted(t, R)
  BY <1>7 DEF Sorted
<1>9. AllV6(t)
  <2>1. SUFFICES ASSUME NEW i \in Tokens(t), NEW j \in Tokens(t), NEW k \in Tokens(t),
                        t[i] = "swiftLanguageModes", Adjacent(t, i, j), Adjacent(t, j, k)
                 PROVE  t[k] = "v6"
    BY DEF AllV6
  <2>2. t[i] \in Names
    BY <2>1, NamesAre
  <2>3. t[j] = Colon /\ t[k] \in Terms
    BY <2>1, <2>2, <1>1, <1>6, ModesFollowed
  <2>4. Adjacent(s, i, j) /\ t[i] = s[i] /\ t[j] = s[j]
    BY <2>1, <2>3, <1>5, NotNames
  <2>5. Adjacent(s, j, k) /\ t[k] = s[k]
    BY <2>1, <2>3, <1>5, NotNames
  <2>6. QED
    BY <2>1, <2>4, <2>5 DEF AllV6, Adjacent
<1>10. \A m \in Names : Has(t, m) <=> Has(s, m)
  BY <1>2, <1>7 DEF Has
<1>11. QED
  BY <1>6, <1>8, <1>9, <1>10

-----------------------------------------------------------------------------
\* The modes are written after a last comma.

\* The argument that gives the modes, after a last comma.
ModesTail(s, a, u, t) ==
  /\ AfterTokens(s, a, u, t)
  /\ \E l \in Tokens(s) : s[l] = Comma /\ \A j \in Tokens(s) : j <= l
  /\ 4 <= Len(u) /\ u[1] = Break /\ u[2] = "swiftLanguageModes" /\ u[3] = Colon /\ u[4] = "v6"
  /\ \A k \in 5..Len(u) : u[k] = Break

\* Three tokens are new, the last ones.
LEMMA ModesTokens ==
  ASSUME NEW s, NEW a, NEW u, NEW t, ModesTail(s, a, u, t)
  PROVE  /\ a \in Nat /\ {a + 1, a + 2, a + 3} \subseteq Tokens(t)
         /\ t[a + 1] = "swiftLanguageModes" /\ t[a + 2] = Colon /\ t[a + 3] = "v6"
         /\ \A i \in Tokens(t) : (i \in Tokens(s) /\ t[i] = s[i]) \/ i \in {a + 1, a + 2, a + 3}
         /\ \A i \in Tokens(s) : i \in Nat /\ i < a /\ i \in Tokens(t) /\ t[i] = s[i]
<1>0. AfterTokens(s, a, u, t)
  BY DEF ModesTail
<1>1. /\ s \in Seq(Cells) /\ u \in Seq(Cells) /\ a \in Nat /\ Len(u) \in Nat
      /\ \A i \in Tokens(s) : i < a
  BY <1>0 DEF AfterTokens, Inserted
<1>2. /\ 4 <= Len(u) /\ u[1] = Break /\ u[2] = "swiftLanguageModes" /\ u[3] = Colon
      /\ u[4] = "v6" /\ \A k \in 5..Len(u) : u[k] = Break
  BY DEF ModesTail
<1>3. {2, 3, 4} \subseteq 1..Len(u)
  BY <1>1, <1>2
<1>4. \A k \in 1..Len(u) : u[k] # Break => k \in {2, 3, 4}
  <2>1. SUFFICES ASSUME NEW k \in 1..Len(u), u[k] # Break
                 PROVE  k \in {2, 3, 4}
    OBVIOUS
  <2>2. k # 1 /\ k \notin 5..Len(u)
    BY <2>1, <1>2
  <2>3. QED
    BY <2>2, <1>1
<1>5. /\ \A i \in Tokens(s) : i \in Tokens(t) /\ t[i] = s[i]
      /\ \A i \in 1..Len(u) : /\ a - 1 + i \in Tokens(t) <=> u[i] # Break
                              /\ t[a - 1 + i] = u[i]
      /\ \A i \in Tokens(t) :
           \/ i \in Tokens(s)
           \/ \E k \in 1..Len(u) : i = a - 1 + k /\ t[i] = u[k] /\ u[k] # Break
  BY <1>0, TailTokens
<1>6. a - 1 + 2 = a + 1 /\ a - 1 + 3 = a + 2 /\ a - 1 + 4 = a + 3
  BY <1>1
<1>7. "swiftLanguageModes" # Break /\ "v6" # Break
  <2>1. "swiftLanguageModes" \in Names
    BY NamesAre
  <2>2. "v6" \in Terms
    BY DEF Terms
  <2>3. QED
    BY <2>1, <2>2, NotNames
<1>8. /\ t[a - 1 + 2] = "swiftLanguageModes" /\ t[a - 1 + 3] = Colon /\ t[a - 1 + 4] = "v6"
      /\ {a - 1 + 2, a - 1 + 3, a - 1 + 4} \subseteq Tokens(t)
  BY <1>2, <1>3, <1>5, <1>7, NotNames
<1>9. ASSUME NEW i \in Tokens(t)
      PROVE  (i \in Tokens(s) /\ t[i] = s[i]) \/ i \in {a + 1, a + 2, a + 3}
  <2>1. CASE i \in Tokens(s)
    BY <2>1, <1>5
  <2>2. CASE \E k \in 1..Len(u) : i = a - 1 + k /\ u[k] # Break
    <3>1. PICK k \in 1..Len(u) : i = a - 1 + k /\ u[k] # Break
      BY <2>2
    <3>2. k \in {2, 3, 4}
      BY <3>1, <1>4
    <3>3. QED
      BY <3>1, <3>2, <1>6
  <2>3. QED
    BY <2>1, <2>2, <1>5
<1>10. \A i \in Tokens(s) : i \in Nat
  BY <1>1, TokensIn
<1>11. QED
  BY <1>1, <1>5, <1>6, <1>8, <1>9, <1>10

\* A name of an argument that the modes must precede.
HasStandard(text) == \E n \in Standards : Has(text, n)

\* The modes after a last comma leave an argument list with one name more,
\* sorted if it was.
LEMMA ModesAdded ==
  ASSUME NEW s, NEW a, NEW u, NEW t, ModesTail(s, a, u, t), IsArgumentList(s),
         ~Has(s, "swiftLanguageModes"), ~Has(s, "swiftLanguageVersions"), ~HasStandard(s)
  PROVE  /\ IsArgumentList(t) /\ AllV6(t)
         /\ \A R \in {Strictly, Loosely} : Sorted(s, R) => Sorted(t, R)
         /\ \A m \in Names : Has(t, m) <=> Has(s, m) \/ m = "swiftLanguageModes"
<1>0. AfterTokens(s, a, u, t)
  BY DEF ModesTail
<1>1. s \in Seq(Cells) /\ t \in Seq(Cells) /\ IsArgumentList(s)
  BY <1>0 DEF AfterTokens, Inserted
<1>2. /\ a \in Nat /\ {a + 1, a + 2, a + 3} \subseteq Tokens(t)
      /\ t[a + 1] = "swiftLanguageModes" /\ t[a + 2] = Colon /\ t[a + 3] = "v6"
      /\ \A i \in Tokens(t) : (i \in Tokens(s) /\ t[i] = s[i]) \/ i \in {a + 1, a + 2, a + 3}
      /\ \A i \in Tokens(s) : i \in Nat /\ i < a /\ i \in Tokens(t) /\ t[i] = s[i]
  BY ModesTokens
<1>3. \A i, j \in Tokens(s) : Adjacent(t, i, j) => Adjacent(s, i, j)
  BY <1>0, TailTokens
<1>4. PICK l \in Tokens(s) : s[l] = Comma /\ \A j \in Tokens(s) : j <= l
  BY DEF ModesTail
<1>5. "swiftLanguageModes" \in Names /\ "v6" \in Terms
  BY NamesAre DEF Terms
<1>6. ASSUME NEW i, NEW j, Adjacent(t, i, j)
      PROVE  \/ Adjacent(s, i, j) /\ t[i] = s[i] /\ t[j] = s[j]
             \/ t[i] = Comma /\ j = a + 1
             \/ i = a + 1 /\ j = a + 2
             \/ i = a + 2 /\ j = a + 3
  <2>1. /\ i \in Tokens(t) /\ j \in Tokens(t) /\ i \in Nat /\ j \in Nat /\ i < j
        /\ \A x \in Tokens(t) : x <= i \/ j <= x
    BY <1>1, <1>6, AdjacentClose
  <2>2. CASE i \in Tokens(s)
    <3>1. i < a /\ t[i] = s[i] /\ i <= l
      BY <2>2, <1>2, <1>4
    <3>2. CASE j \in Tokens(s)
      BY <2>2, <3>2, <1>2, <1>3, <1>6
    <3>3. CASE j \in {a + 1, a + 2, a + 3}
      <4>1. a + 1 <= i \/ j <= a + 1
        BY <2>1, <1>2
      <4>2. j = a + 1
        BY <4>1, <3>1, <3>3, <2>1, <1>2
      <4>3. l \in Tokens(t) /\ l \in Nat /\ l < a
        BY <1>2, <1>4
      <4>4. l <= i \/ j <= l
        BY <4>3, <2>1
      <4>5. i = l
        BY <4>2, <4>3, <4>4, <3>1, <2>1, <1>2
      <4>6. QED
        BY <4>2, <4>5, <3>1, <1>4
    <3>4. QED
      BY <3>2, <3>3, <2>1, <1>2
  <2>3. CASE i \in {a + 1, a + 2, a + 3}
    <3>1. j \notin Tokens(s)
      BY <2>1, <2>3, <1>2
    <3>2. j \in {a + 1, a + 2, a + 3}
      BY <3>1, <2>1, <1>2
    <3>3. a + 2 <= i \/ j <= a + 2
      BY <2>1, <1>2
    <3>4. QED
      BY <3>2, <3>3, <2>1, <2>3, <1>2
  <2>4. QED
    BY <2>1, <2>2, <2>3, <1>2
<1>7. IsArgumentList(t)
  <2>1. PICK f \in Tokens(s) : s[f] \in Names /\ \A j \in Tokens(s) : f <= j
    BY <1>1 DEF IsArgumentList
  <2>2. f \in Tokens(t) /\ t[f] \in Names /\ f \in Nat /\ f < a
    BY <2>1, <1>2
  <2>3. \A j \in Tokens(t) : f <= j
    BY <2>1, <2>2, <1>2
  <2>4. \A j \in Tokens(t) : j <= a + 3
    BY <1>2
  <2>5. ASSUME NEW i \in Tokens(t), NEW j \in Tokens(t), Adjacent(t, i, j)
        PROVE  Joins(t[i], t[j])
    <3>1. CASE Adjacent(s, i, j) /\ t[i] = s[i] /\ t[j] = s[j]
      BY <3>1, <1>1 DEF IsArgumentList, Adjacent
    <3>2. CASE t[i] = Comma /\ j = a + 1
      BY <3>2, <1>2, <1>5 DEF Joins
    <3>3. CASE i = a + 1 /\ j = a + 2
      BY <3>3, <1>2, <1>5 DEF Joins
    <3>4. CASE i = a + 2 /\ j = a + 3
      BY <3>4, <1>2, <1>5 DEF Joins
    <3>5. QED
      BY <3>1, <3>2, <3>3, <3>4, <2>5, <1>6
  <2>6. a + 3 \in Tokens(t) /\ t[a + 3] \in Terms \cup {Comma}
    BY <1>2, <1>5
  <2>7. QED
    BY <2>2, <2>3, <2>4, <2>5, <2>6 DEF IsArgumentList
<1>8. \A i \in Tokens(t) : t[i] \in Names =>
        (i \in Tokens(s) /\ t[i] = s[i]) \/ i = a + 1
  <2>1. t[a + 2] \notin Names /\ t[a + 3] \notin Names
    BY <1>2, <1>5, NotNames
  <2>2. QED
    BY <2>1, <1>2
<1>9. \A i \in Tokens(s) : s[i] \in Names => Rank(s[i]) < Rank("swiftLanguageModes")
  <2>1. SUFFICES ASSUME NEW i \in Tokens(s), s[i] \in Names
                 PROVE  Rank(s[i]) < Rank("swiftLanguageModes")
    OBVIOUS
  <2>2. s[i] \notin {"swiftLanguageModes", "swiftLanguageVersions"} \cup Standards
    BY DEF Has, HasStandard
  <2>3. s[i] \in {"name", "defaultLocalization", "platforms", "pkgConfig", "providers",
                  "products", "traits", "dependencies", "targets"}
    BY <2>1, <2>2, NamesAre DEF Standards
  <2>4. QED
    BY <2>3, NamesAre
<1>10. ASSUME NEW R \in {Strictly, Loosely}, Sorted(s, R)
       PROVE  Sorted(t, R)
  <2>1. SUFFICES ASSUME NEW i \in Tokens(t), NEW j \in Tokens(t), i < j,
                        t[i] \in Names, t[j] \in Names
                 PROVE  <<t[i], t[j]>> \in R
    BY DEF Sorted
  <2>2. CASE j \in Tokens(s) /\ t[j] = s[j]
    <3>1. i \in Tokens(s) /\ t[i] = s[i]
      BY <2>1, <2>2, <1>2, <1>8
    <3>2. QED
      BY <3>1, <2>1, <2>2, <1>10 DEF Sorted
  <2>3. CASE j = a + 1
    <3>1. i \in Tokens(s) /\ t[i] = s[i]
      BY <2>1, <2>3, <1>2, <1>8
    <3>2. Rank(t[i]) < Rank(t[j])
      BY <3>1, <2>1, <2>3, <1>2, <1>9
    <3>3. QED
      BY <3>2, <2>1, <1>10, OrdersAre
  <2>4. QED
    BY <2>1, <2>2, <2>3, <1>8
<1>11. AllV6(t)
  <2>1. SUFFICES ASSUME NEW i \in Tokens(t), NEW j \in Tokens(t), NEW k \in Tokens(t),
                        t[i] = "swiftLanguageModes", Adjacent(t, i, j), Adjacent(t, j, k)
                 PROVE  t[k] = "v6"
    BY DEF AllV6
  <2>2. i = a + 1
    BY <2>1, <1>5, <1>8 DEF Has
  <2>3. /\ j \in Nat /\ i < j /\ (a + 2 <= i \/ j <= a + 2)
        /\ k \in Nat /\ j < k /\ (a + 3 <= j \/ k <= a + 3)
    BY <2>1, <1>1, <1>2, AdjacentClose
  <2>4. k = a + 3
    BY <2>2, <2>3, <1>2
  <2>5. QED
    BY <2>4, <1>2
<1>12. \A m \in Names : Has(t, m) <=> Has(s, m) \/ m = "swiftLanguageModes"
  <2>1. Has(t, "swiftLanguageModes")
    BY <1>2 DEF Has
  <2>2. ASSUME NEW m \in Names, Has(s, m) PROVE Has(t, m)
    BY <2>2, <1>2 DEF Has
  <2>3. ASSUME NEW m \in Names, Has(t, m) PROVE Has(s, m) \/ m = "swiftLanguageModes"
    BY <2>3, <1>2, <1>8 DEF Has
  <2>4. QED
    BY <2>1, <2>2, <2>3
<1>13. QED
  BY <1>7, <1>10, <1>11, <1>12

-----------------------------------------------------------------------------
\* The texts of the edits, and where they go.

\* The comma of enforce_swift6.py:71.
LEMMA CommaText ==
  LET u == <<Comma>>
  IN  u \in Seq(Cells) /\ 1 <= Len(u) /\ Len(u) <= 1 /\ u[1] = Comma
<1>1. Comma \in Cells
  BY DEF Cells
<1>2. QED
  BY <1>1

\* What is written for an argument.
ArgumentText(u, name, value) ==
  /\ u \in Seq(Cells) /\ 4 <= Len(u) /\ \A k \in 5..Len(u) : u[k] = Break
  /\ u[1] = name /\ u[2] = Colon /\ u[3] = value /\ u[4] = Comma

\* The argument of enforce_swift6.py:55, on a line of its own or not.
LEMMA PlatformText ==
  ASSUME NEW more \in {<<Break>>, <<>>}
  PROVE  ArgumentText(<<"platforms", Colon, "value", Comma>> \o more, "platforms", "value")
<1>1. {"platforms", Colon, "value", Comma, Break} \subseteq Cells
  BY NamesAre DEF Cells, Terms
<1>2. PICK h : h = <<"platforms", Colon, "value", Comma>>
  OBVIOUS
<1>3. h \in Seq(Cells) /\ Len(h) = 4
  BY <1>1, <1>2
<1>4. h[1] = "platforms" /\ h[2] = Colon /\ h[3] = "value" /\ h[4] = Comma
  BY <1>2
<1>5. more \in Seq(Cells) /\ \A k \in 1..Len(more) : more[k] = Break
  <2>1. CASE more = <<Break>>
    BY <2>1, <1>1
  <2>2. CASE more = <<>>
    BY <2>2
  <2>3. QED
    BY <2>1, <2>2
<1>6. PICK u : u = h \o more
  OBVIOUS
<1>7. /\ u \in Seq(Cells) /\ Len(u) = Len(h) + Len(more)
      /\ \A i \in 1..Len(h) : u[i] = h[i]
      /\ \A i \in 1..Len(more) : u[Len(h) + i] = more[i]
  BY <1>3, <1>5, <1>6, JoinedTexts, ZenonT(30)
<1>8. PICK w \in Nat : w = Len(h)
  BY <1>3
<1>9. w = 4
  BY <1>3, <1>8
<1>10. PICK m \in Nat : m = Len(more)
  BY <1>5
<1>11. /\ Len(u) = 4 + m /\ (\A i \in 1..4 : u[i] = h[i])
       /\ \A i \in 1..m : u[4 + i] = more[i]
  BY <1>7, <1>8, <1>9, <1>10
<1>12. ASSUME NEW k \in 5..Len(u)
       PROVE  u[k] = Break
  <2>1. k - 4 \in 1..m /\ 4 + (k - 4) = k
    BY <1>11
  <2>2. u[k] = more[k - 4]
    BY <2>1, <1>11
  <2>3. QED
    BY <2>1, <2>2, <1>5, <1>10
<1>13. u[1] = "platforms" /\ u[2] = Colon /\ u[3] = "value" /\ u[4] = Comma
  BY <1>4, <1>11
<1>14. 4 <= Len(u)
  BY <1>11
<1>15. QED
  BY <1>2, <1>6, <1>7, <1>12, <1>13, <1>14 DEF ArgumentText

\* The argument of enforce_swift6.py:67.
LEMMA ModesText ==
  LET u == <<"swiftLanguageModes", Colon, "v6", Comma, Break>>
  IN  ArgumentText(u, "swiftLanguageModes", "v6")
<1>1. {"swiftLanguageModes", Colon, "v6", Comma, Break} \subseteq Cells
  BY NamesAre DEF Cells, Terms
<1>2. QED
  BY <1>1 DEF ArgumentText

\* The argument of enforce_swift6.py:72.
LEMMA LastText ==
  LET u == <<Break, "swiftLanguageModes", Colon, "v6", Break>>
  IN  /\ u \in Seq(Cells) /\ 4 <= Len(u) /\ \A k \in 5..Len(u) : u[k] = Break
      /\ u[1] = Break /\ u[2] = "swiftLanguageModes" /\ u[3] = Colon /\ u[4] = "v6"
<1>1. {"swiftLanguageModes", Colon, "v6", Comma, Break} \subseteq Cells
  BY NamesAre DEF Cells, Terms
<1>2. QED
  BY <1>1

\* The edit that adds a platform, and when there is one.
LEMMA PlatformEdit ==
  ASSUME NEW s \in Seq(Cells), IsArgumentList(s), NEW e \in PlatformEdits(s), Has(s, "targets")
  PROVE  /\ ~Has(s, "platforms") /\ IsOffset(s, Anchors, e.at)
         /\ ArgumentText(e.text, "platforms", "value")
         /\ e = Edit(e.at, e.text)
<1>1. "platforms" \in Names /\ "targets" \in Names
  BY NamesAre
<1>2. "platforms" \notin Arguments(s) /\ "targets" \in Arguments(s)
  BY <1>1, ArgumentsAre DEF PlatformEdits
<1>3. PICK x : x = Offset(s, Anchors)
  OBVIOUS
<1>4. e = Edit(x, <<"platforms", Colon, "value", Comma>> \o
                  IF BeginsLine(s, x) THEN <<Break>> ELSE <<>>)
  BY <1>2, <1>3 DEF PlatformEdits
<1>5. PICK more \in {<<Break>>, <<>>} : more = IF BeginsLine(s, x) THEN <<Break>> ELSE <<>>
  OBVIOUS
<1>6. PICK u : u = <<"platforms", Colon, "value", Comma>> \o more
  OBVIOUS
<1>7. ArgumentText(u, "platforms", "value")
  BY <1>6, PlatformText
<1>8. e = Edit(x, u)
  BY <1>4, <1>5, <1>6
<1>9. e.at = x /\ e.text = u
  BY <1>8 DEF Edit
<1>10. IsOffset(s, Anchors, x)
  BY <1>2, <1>3, OffsetFound DEF Anchors
<1>11. ~Has(s, "platforms")
  BY <1>1, <1>2, ArgumentsAre
<1>12. QED
  BY <1>7, <1>8, <1>9, <1>10, <1>11

\* Texts that agree up to b, where all the anchors are, have the same edit
\* for the platform, in the right place or not.
LEMMA PlatformSame ==
  ASSUME NEW s \in Seq(Cells), NEW t \in Seq(Cells), IsArgumentList(s), IsArgumentList(t),
         Has(s, "targets"), NEW b \in Nat, b <= Len(s), b <= Len(t),
         \A i \in 1..b : t[i] = s[i],
         \A i \in Tokens(s) : s[i] \in Anchors \cup {"platforms"} => i <= b,
         \A i \in Tokens(t) : t[i] \in Anchors \cup {"platforms"} => i <= b
  PROVE  /\ PlatformEdits(t) = PlatformEdits(s)
         /\ Misplaces(t) <=> Misplaces(s)
<1>0. Len(s) \in Nat /\ Len(t) \in Nat
  OBVIOUS
<1>1. Anchors \cup {"platforms"} \subseteq Names
  BY NamesAre DEF Anchors
<1>2. /\ \A i : i \in Tokens(s) <=> i \in 1..Len(s) /\ s[i] # Break
      /\ \A i : i \in Tokens(t) <=> i \in 1..Len(t) /\ t[i] # Break
  BY TokensIn
<1>3. ASSUME NEW i, NEW name \in Anchors \cup {"platforms"}
      PROVE  i \in Tokens(s) /\ s[i] = name <=> i \in Tokens(t) /\ t[i] = name
  <2>1. name # Break
    BY <1>1, NotNames
  <2>2. ASSUME i \in Tokens(s), s[i] = name
        PROVE  i \in Tokens(t) /\ t[i] = name
    <3>1. i \in 1..Len(s) /\ i <= b
      BY <2>2, <1>2
    <3>2. i \in 1..b /\ i \in 1..Len(t)
      BY <3>1, <1>0
    <3>3. QED
      BY <3>2, <2>1, <2>2, <1>2
  <2>3. ASSUME i \in Tokens(t), t[i] = name
        PROVE  i \in Tokens(s) /\ s[i] = name
    <3>1. i \in 1..Len(t) /\ i <= b
      BY <2>3, <1>2
    <3>2. i \in 1..b /\ i \in 1..Len(s)
      BY <3>1, <1>0
    <3>3. QED
      BY <3>2, <2>1, <2>3, <1>2
  <2>4. QED
    BY <2>2, <2>3
<1>4. \A i, name : name \in Anchors =>
        (i \in Starts(s) /\ s[i] = name <=> i \in Starts(t) /\ t[i] = name)
  <2>1. SUFFICES ASSUME NEW i, NEW name \in Anchors
                 PROVE  i \in Starts(s) /\ s[i] = name <=> i \in Starts(t) /\ t[i] = name
    OBVIOUS
  <2>2. name \in Names
    BY <1>1
  <2>3. i \in Starts(s) /\ s[i] = name <=> i \in Tokens(s) /\ s[i] = name
    BY <2>2, NamesStart
  <2>4. i \in Starts(t) /\ t[i] = name <=> i \in Tokens(t) /\ t[i] = name
    BY <2>2, NamesStart
  <2>5. QED
    BY <2>3, <2>4, <1>3
<1>5. Has(s, "platforms") <=> Has(t, "platforms")
  BY <1>3 DEF Has
<1>6. "platforms" \in Arguments(s) <=> "platforms" \in Arguments(t)
  BY <1>1, <1>5, ArgumentsAre
<1>7. CASE "platforms" \in Arguments(s)
  BY <1>6, <1>7 DEF PlatformEdits, Misplaces
<1>8. CASE "platforms" \notin Arguments(s)
  <2>1. PICK x : x = Offset(s, Anchors)
    OBVIOUS
  <2>2. "targets" \in Arguments(s)
    BY <1>1, ArgumentsAre DEF Anchors
  <2>3. IsOffset(s, Anchors, x)
    BY <2>1, <2>2, OffsetFound DEF Anchors
  <2>4. x \in Starts(s) /\ s[x] \in Anchors /\ \A j \in Starts(s) : s[j] \in Anchors => x <= j
    BY <2>3 DEF IsOffset
  <2>5. x \in Starts(t) /\ t[x] \in Anchors /\ \A j \in Starts(t) : t[j] \in Anchors => x <= j
    BY <2>4, <1>4
  <2>6. Offset(t, Anchors) = x
    BY <2>5, OffsetIs DEF IsOffset
  <2>7. x \in 1..Len(s) /\ x <= b
    BY <2>4, TokensIn
  <2>8. BeginsLine(s, x) <=> BeginsLine(t, x)
    <3>1. x > 1 => x - 1 \in 1..b
      BY <2>7
    <3>2. QED
      BY <3>1 DEF BeginsLine
  <2>9. PlatformEdits(t) = PlatformEdits(s)
    BY <2>1, <2>6, <2>8, <1>6, <1>8 DEF PlatformEdits
  <2>10. ASSUME NEW i, i < x
         PROVE  i \in Starts(s) /\ s[i] \in Names <=>
                i \in Starts(t) /\ s[i] \in Names /\ t[i] = s[i]
    <3>1. i \in 1..Len(s) => i \in 1..b /\ i \in 1..Len(t)
      BY <2>7, <2>10, <1>0
    <3>2. i \in 1..Len(t) => i \in 1..b /\ i \in 1..Len(s)
      BY <2>7, <2>10, <1>0
    <3>3. i \in Tokens(s) /\ s[i] \in Names <=>
          i \in Tokens(t) /\ s[i] \in Names /\ t[i] = s[i]
      BY <3>1, <3>2, <1>2
    <3>4. QED
      BY <3>3, NamesStart
  <2>11. ASSUME NEW i, i < x
         PROVE  /\ i \in Starts(s) => i \in Starts(t) /\ t[i] = s[i]
                /\ i \in Starts(t) => i \in Starts(s) /\ t[i] = s[i]
    <3>1. i \in Starts(s) => s[i] \in Names
      BY NamesStart
    <3>2. ASSUME i \in Starts(t)
          PROVE  i \in Starts(s) /\ t[i] = s[i]
      <4>1. i \in 1..Len(t)
        BY <3>2, TokensIn
      <4>2. i \in 1..b
        BY <4>1, <2>7, <2>11, <1>0
      <4>3. t[i] = s[i] /\ t[i] \in Names
        BY <4>2, <3>2, NamesStart
      <4>4. QED
        BY <4>3, <3>2, <2>10, <2>11
    <3>3. QED
      BY <3>1, <3>2, <2>10, <2>11
  <2>12. Misplaces(t) <=> Misplaces(s)
    BY <2>1, <2>6, <2>11, <1>6 DEF Misplaces
  <2>13. QED
    BY <2>9, <2>12
<1>9. QED
  BY <1>7, <1>8

-----------------------------------------------------------------------------
\* What an edit leaves is acceptable if what it found was.

\* A text that enforce() does not refuse. Its platforms come late if they are
\* there, and will if they are not.
Acceptable(text, late) ==
  /\ text \in Seq(Cells) /\ IsArgumentList(text) /\ Sorted(text, Loosely) /\ AllV6(text)
  /\ Has(text, "targets") /\ ~Has(text, "swiftLanguageVersions")
  /\ IF Has(text, "platforms") THEN ~InOrder(text) <=> late ELSE Misplaces(text) <=> late

\* The platform is written before one of its anchors, which is before the
\* standard the modes are written before.
LEMMA AnchorInside ==
  ASSUME NEW s, NEW late, Acceptable(s, late), NEW e \in PlatformEdits(s)
  PROVE  /\ e.at \in Tokens(s) /\ e.at \in 1..Len(s) /\ s[e.at] \in Anchors
         /\ \A x \in Tokens(s) : s[x] \in Standards => e.at < x
<1>0. s \in Seq(Cells) /\ IsArgumentList(s) /\ Sorted(s, Loosely) /\ Has(s, "targets")
  BY DEF Acceptable
<1>1. IsOffset(s, Anchors, e.at)
  BY <1>0, PlatformEdit
<1>2. e.at \in Tokens(s) /\ e.at \in 1..Len(s) /\ s[e.at] \in Anchors
  BY <1>0, <1>1, TokensIn DEF IsOffset
<1>3. ASSUME NEW x \in Tokens(s), s[x] \in Standards
      PROVE  e.at < x
  <2>1. x \in Nat /\ e.at \in Nat
    BY <1>0, <1>2, TokensIn
  <2>2. s[x] \in Names /\ s[e.at] \in Names /\ s[e.at] # s[x] /\ <<s[x], s[e.at]>> \notin Loosely
    <3>1. s[x] \in Names /\ Rank(s[x]) >= 12
      BY <1>3, RanksAre
    <3>2. s[e.at] \in Names /\ Rank(s[e.at]) <= 9 /\ s[e.at] # "platforms" /\ Rank(s[e.at]) \in Nat
      BY <1>2, RanksAre
    <3>3. s[e.at] # s[x]
      BY <1>2, <1>3 DEF Anchors, Standards
    <3>4. Rank(s[x]) \in Nat
      BY <1>3, RanksAre
    <3>5. ~(Rank(s[x]) < Rank(s[e.at]))
      BY <3>1, <3>2, <3>4
    <3>6. QED
      BY <3>1, <3>2, <3>3, <3>5, OrdersAre
  <2>3. ~(x < e.at)
    BY <2>2, <1>0, <1>2, <1>3 DEF Sorted
  <2>4. x # e.at
    BY <2>2
  <2>5. QED
    BY <2>1, <2>3, <2>4
<1>4. QED
  BY <1>2, <1>3

\* The platform edit leaves an acceptable text with a platform.
LEMMA PlatformInserted ==
  ASSUME NEW s, NEW late, Acceptable(s, late), NEW e \in PlatformEdits(s), NEW t, t = Insert(s, e)
  PROVE  /\ Acceptable(t, late) /\ Has(t, "platforms")
         /\ Has(t, "swiftLanguageModes") <=> Has(s, "swiftLanguageModes")
<1>0. /\ s \in Seq(Cells) /\ IsArgumentList(s) /\ Sorted(s, Loosely) /\ AllV6(s)
      /\ Has(s, "targets") /\ ~Has(s, "swiftLanguageVersions")
  BY DEF Acceptable
<1>1. PICK a : a = e.at
  OBVIOUS
<1>2. PICK u : u = e.text
  OBVIOUS
<1>3. /\ ~Has(s, "platforms") /\ IsOffset(s, Anchors, a) /\ ArgumentText(u, "platforms", "value")
      /\ e = Edit(a, u)
  BY <1>0, <1>1, <1>2, PlatformEdit
<1>4. a \in Tokens(s) /\ a \in 1..Len(s) /\ a \in Nat /\ s[a] \in Anchors /\ s[a] \in Names
  BY <1>0, <1>3, TokensIn, NamesAre DEF IsOffset, Anchors
<1>5. u \in Seq(Cells) /\ a \in 1..(Len(s) + 1)
  BY <1>0, <1>3, <1>4 DEF ArgumentText
<1>6. Inserted(s, a, u, t)
  BY <1>0, <1>3, <1>5, InsertShape
<1>7. "platforms" \in Names /\ "value" \in Terms
  BY NamesAre DEF Terms
<1>8. Argument(s, a, u, t, "platforms", "value")
  BY <1>3, <1>4, <1>6, <1>7 DEF Argument, ArgumentText
<1>9. IsArgumentList(t)
  BY <1>0, <1>4, <1>8, ArgumentList
<1>20. InOrder(s)
  BY <1>0, <1>3, LooselyInOrder
<1>10. ASSUME NEW k \in Tokens(s), s[k] \in Names
       PROVE  /\ k < a => Rank(s[k]) < Rank("platforms") \/ s[k] \in Late
              /\ k < a /\ s[k] \in Late => Rank("platforms") < Rank(s[k])
              /\ a <= k => Rank("platforms") < Rank(s[k])
  <2>1. k \in Nat
    BY <1>0, TokensIn
  <2>2. s[k] # "platforms"
    BY <1>3 DEF Has
  <2>3. ASSUME k < a
        PROVE  Rank(s[k]) < Rank("platforms") \/ s[k] \in Late
    <3>1. k \in Starts(s)
      BY <1>0, <1>10, NamesStart
    <3>2. s[k] \notin Anchors
      BY <3>1, <2>1, <2>3, <1>3, <1>4 DEF IsOffset
    <3>3. Rank(s[k]) < Rank(s[a])
      BY <2>3, <1>20, <1>4, <1>10 DEF InOrder
    <3>4. s[k] \in {"name", "defaultLocalization"} \cup Late
      BY <3>2, <3>3, <2>2, <1>4, <1>10, NamesAre, SMTT(30) DEF Anchors, Late
    <3>5. QED
      BY <3>4, NamesAre
  <2>4. ASSUME a <= k
        PROVE  Rank("platforms") < Rank(s[k])
    <3>1. k = a \/ Rank(s[a]) < Rank(s[k])
      BY <2>1, <2>4, <1>20, <1>4, <1>10 DEF InOrder
    <3>2. Rank("platforms") < Rank(s[a])
      BY <1>4, RanksAre
    <3>3. Rank(s[a]) \in Nat /\ Rank(s[k]) \in Nat /\ Rank("platforms") \in Nat
      <4>1. \A n \in Names : Rank(n) \in Nat
        BY RanksAre
      <4>2. s[a] \in Names /\ s[k] \in Names
        BY <1>4, <1>10
      <4>3. Rank("platforms") \in Nat
        BY RanksAre
      <4>4. QED
        BY <4>1, <4>2, <4>3
    <3>4. QED
      BY <3>1, <3>2, <3>3
  <2>6. s[k] \in Late => Rank("platforms") < Rank(s[k])
    BY NamesAre DEF Late
  <2>5. QED
    BY <2>3, <2>4, <2>6
<1>11. Sorted(t, Loosely)
  <2>1. ASSUME NEW k \in Tokens(s), s[k] \in Names
        PROVE  /\ k < a => <<s[k], "platforms">> \in Loosely
               /\ a <= k => <<"platforms", s[k]>> \in Loosely
    BY <2>1, <1>7, <1>10, OrdersAre
  <2>2. QED
    BY <2>1, <1>0, <1>8, ArgumentSorted
<1>21. Misplaces(s) <=> \E k \in Tokens(s) : s[k] \in Late /\ k < a
  <2>1. "platforms" \notin Arguments(s) /\ Offset(s, Anchors) = a
    BY <1>0, <1>3, <1>7, ArgumentsAre, OffsetIs
  <2>2. Misplaces(s) <=> \E k \in Starts(s) : k < a /\ Rank("platforms") < Rank(s[k])
    BY <2>1 DEF Misplaces
  <2>3. Late \subseteq Names
    BY NamesAre DEF Late
  <2>4. ASSUME NEW k \in Starts(s), k < a, Rank("platforms") < Rank(s[k])
        PROVE  k \in Tokens(s) /\ s[k] \in Late
    <3>1. k \in Tokens(s) /\ s[k] \in Names
      BY <1>0, NamesStart
    <3>2. Rank(s[k]) \in Nat /\ Rank("platforms") \in Nat
      BY <3>1, NamesAre
    <3>3. QED
      BY <3>1, <3>2, <2>4, <1>10
  <2>5. ASSUME NEW k \in Tokens(s), s[k] \in Late, k < a
        PROVE  k \in Starts(s) /\ Rank("platforms") < Rank(s[k])
    BY <2>3, <2>5, <1>0, <1>10, NamesStart
  <2>6. QED
    BY <2>2, <2>4, <2>5
<1>22. ~InOrder(t) <=> late
  <2>1. Misplaces(s) <=> late
    BY <1>3 DEF Acceptable
  <2>2. ASSUME ~Misplaces(s)
        PROVE  InOrder(t)
    <3>1. ASSUME NEW k \in Tokens(s), s[k] \in Names
          PROVE  /\ k < a => <<s[k], "platforms">> \in Strictly
                 /\ a <= k => <<"platforms", s[k]>> \in Strictly
      BY <3>1, <2>2, <1>7, <1>10, <1>21, OrdersAre
    <3>2. Sorted(s, Strictly)
      BY <1>20, SortedInOrder
    <3>3. Sorted(t, Strictly)
      BY <3>1, <3>2, <1>8, ArgumentSorted
    <3>4. QED
      BY <3>3, SortedInOrder
  <2>3. ASSUME Misplaces(s)
        PROVE  ~InOrder(t)
    <3>1. PICK k \in Tokens(s) : s[k] \in Late /\ k < a
      BY <2>3, <1>21
    <3>2. s[k] \in Names /\ Rank("platforms") < Rank(s[k])
      BY <3>1, <1>10, NamesAre DEF Late
    <3>3. k \in 1..(a - 1)
      BY <3>1, <1>0, <1>4, TokensIn
    <3>4. k \in Tokens(t) /\ t[k] = s[k]
      <4>1. \A i \in 1..(a - 1) : t[i] = s[i]
        BY <1>6 DEF Inserted
      <4>2. \A i \in 1..(a - 1) : i \in Tokens(t) <=> i \in Tokens(s)
        BY <1>6, InsertTokens
      <4>3. QED
        BY <4>1, <4>2, <3>3
    <3>5. a \in Tokens(t) /\ t[a] = "platforms"
      BY <1>8, ArgumentTokens
    <3>6. Rank(s[k]) \in Nat /\ Rank("platforms") \in Nat
      BY <3>2, NamesAre
    <3>7. ~(Rank(t[k]) < Rank(t[a]))
      BY <3>2, <3>4, <3>5, <3>6
    <3>8. QED
      BY <3>1, <3>2, <3>4, <3>5, <3>7, <1>7 DEF InOrder
  <2>4. QED
    BY <2>1, <2>2, <2>3
<1>12. AllV6(t)
  BY <1>0, <1>4, <1>8, ArgumentAllV6
<1>13. \A m \in Names : Has(t, m) <=> Has(s, m) \/ m = "platforms"
  BY <1>8, ArgumentNames
<1>14. t \in Seq(Cells)
  BY <1>6 DEF Inserted
<1>15. Has(t, "platforms") /\ Has(t, "targets") /\ ~Has(t, "swiftLanguageVersions")
  BY <1>0, <1>13, NamesAre
<1>16. Has(t, "swiftLanguageModes") <=> Has(s, "swiftLanguageModes")
  BY <1>13, NamesAre
<1>17. QED
  BY <1>9, <1>11, <1>12, <1>14, <1>15, <1>16, <1>22 DEF Acceptable

\* Another argument written among them leaves the platforms where they are, or
\* will be.
LEMMA StaysLate ==
  ASSUME NEW s, NEW late, Acceptable(s, late), NEW a, NEW u, NEW t, Inserted(s, a, u, t),
         Sorted(s, Strictly) => Sorted(t, Strictly), Misplaces(t) <=> Misplaces(s),
         Has(t, "platforms") <=> Has(s, "platforms")
  PROVE  IF Has(t, "platforms") THEN ~InOrder(t) <=> late ELSE Misplaces(t) <=> late
<1>1. Sorted(t, Strictly) => Sorted(s, Strictly)
  BY InsertedSorted
<1>2. InOrder(t) <=> InOrder(s)
  BY <1>1, SortedInOrder
<1>3. QED
  BY <1>2 DEF Acceptable

\* The modes written before the first standard leave an acceptable text, and
\* the platform edit what it was.
LEMMA ModesInserted ==
  ASSUME NEW s, NEW late, Acceptable(s, late), ~Has(s, "swiftLanguageModes"),
         NEW a, IsOffset(s, Standards, a), NEW t,
         t = Insert(s, Edit(a, <<"swiftLanguageModes", Colon, "v6", Comma, Break>>))
  PROVE  /\ Acceptable(t, late) /\ Has(t, "swiftLanguageModes")
         /\ PlatformEdits(t) = PlatformEdits(s)
<1>0. /\ s \in Seq(Cells) /\ IsArgumentList(s) /\ Sorted(s, Loosely) /\ AllV6(s)
      /\ Has(s, "targets") /\ ~Has(s, "swiftLanguageVersions")
  BY DEF Acceptable
<1>20. a \in Tokens(s) /\ s[a] \in Standards
  BY <1>0, TokensIn DEF IsOffset
<1>1. PICK u : u = <<"swiftLanguageModes", Colon, "v6", Comma, Break>>
  OBVIOUS
<1>2. ArgumentText(u, "swiftLanguageModes", "v6")
  BY <1>1, ModesText
<1>3. a \in 1..Len(s) /\ a \in Nat /\ s[a] \in Names /\ Len(s) \in Nat
  BY <1>0, <1>20, TokensIn, NamesAre DEF Standards
<1>4. u \in Seq(Cells) /\ a \in 1..(Len(s) + 1)
  BY <1>0, <1>2, <1>3 DEF ArgumentText
<1>5. Inserted(s, a, u, t)
  BY <1>0, <1>1, <1>4, InsertShape
<1>6. "swiftLanguageModes" \in Names /\ "v6" \in Terms
  BY NamesAre DEF Terms
<1>7. Argument(s, a, u, t, "swiftLanguageModes", "v6")
  BY <1>2, <1>5, <1>6, <1>20 DEF Argument, ArgumentText
<1>8. IsArgumentList(t)
  BY <1>0, <1>3, <1>7, ArgumentList
<1>9. ASSUME NEW k \in Tokens(s), s[k] \in Names
      PROVE  /\ k < a => Rank(s[k]) < Rank("swiftLanguageModes")
             /\ a <= k => s[k] \in Standards /\ Rank("swiftLanguageModes") < Rank(s[k])
  <2>1. k \in Nat
    BY <1>0, TokensIn
  <2>2. s[k] # "swiftLanguageModes" /\ s[k] # "swiftLanguageVersions"
    BY <1>0 DEF Has
  <2>3. ASSUME k < a
        PROVE  Rank(s[k]) < Rank("swiftLanguageModes")
    <3>1. s[k] \notin Standards
      BY <2>1, <2>3, <1>0, <1>3, <1>9, NamesStart DEF IsOffset
    <3>2. s[k] \in {"name", "defaultLocalization", "platforms", "pkgConfig", "providers",
                    "products", "traits", "dependencies", "targets"}
      BY <3>1, <2>2, <1>9, NamesAre DEF Standards
    <3>3. QED
      BY <3>2, NamesAre
  <2>4. ASSUME a <= k
        PROVE  s[k] \in Standards /\ Rank("swiftLanguageModes") < Rank(s[k])
    <3>1. k = a \/ <<s[a], s[k]>> \in Loosely
      BY <2>1, <2>4, <1>0, <1>3, <1>9, <1>20 DEF Sorted
    <3>2. k = a \/ Rank(s[a]) < Rank(s[k])
      <4>1. s[a] \notin Late
        BY <1>20 DEF Standards, Late
      <4>2. QED
        BY <3>1, <4>1, <1>3, <1>9, OrdersAre
    <3>3. s[k] \in Standards
      BY <3>2, <1>9, <1>20, NamesAre DEF Standards
    <3>4. QED
      BY <3>3, NamesAre DEF Standards
  <2>5. QED
    BY <2>3, <2>4
<1>10. ASSUME NEW R \in {Strictly, Loosely}, Sorted(s, R)
       PROVE  Sorted(t, R)
  <2>1. ASSUME NEW k \in Tokens(s), s[k] \in Names
        PROVE  /\ k < a => <<s[k], "swiftLanguageModes">> \in R
               /\ a <= k => <<"swiftLanguageModes", s[k]>> \in R
    BY <2>1, <1>6, <1>9, OrdersAre
  <2>2. QED
    BY <2>1, <1>7, <1>10, ArgumentSorted
<1>11. AllV6(t)
  BY <1>0, <1>3, <1>7, ArgumentAllV6
<1>12. /\ \A m \in Names : Has(t, m) <=> Has(s, m) \/ m = "swiftLanguageModes"
       /\ \A i \in Tokens(t) : t[i] \in Names =>
              \/ i \in Tokens(s) /\ i < a /\ t[i] = s[i]
              \/ i = a /\ t[i] = "swiftLanguageModes"
              \/ \E k \in Tokens(s) : a <= k /\ i = k + Len(u) /\ t[i] = s[k]
  BY <1>7, ArgumentNames
<1>14. PlatformEdits(t) = PlatformEdits(s) /\ (Misplaces(t) <=> Misplaces(s))
  <2>1. PICK b \in Nat : b = a - 1
    BY <1>3
  <2>2. /\ t \in Seq(Cells) /\ b <= Len(s) /\ b <= Len(t) /\ \A i \in 1..b : t[i] = s[i]
    <3>1. t \in Seq(Cells) /\ Len(t) = Len(s) + Len(u) /\ Len(u) \in Nat
      BY <1>4, <1>5 DEF Inserted
    <3>2. \A i \in 1..(a - 1) : t[i] = s[i]
      BY <1>5 DEF Inserted
    <3>3. b <= Len(s) /\ b <= Len(t)
      BY <3>1, <2>1, <1>3
    <3>4. \A i \in 1..b : t[i] = s[i]
      BY <3>2, <2>1
    <3>5. QED
      BY <3>1, <3>3, <3>4
  <2>3. \A x \in Anchors \cup {"platforms"} :
          x \in Names /\ x \notin Standards /\ x # "swiftLanguageModes"
    BY NamesAre DEF Anchors, Standards
  <2>4. ASSUME NEW i \in Tokens(s), s[i] \in Anchors \cup {"platforms"}
        PROVE  i <= b
    <3>1. i \in Nat /\ ~(a <= i)
      BY <2>3, <2>4, <1>0, <1>9, TokensIn
    <3>2. QED
      BY <3>1, <2>1, <1>3
  <2>5. ASSUME NEW i \in Tokens(t), t[i] \in Anchors \cup {"platforms"}
        PROVE  i <= b
    <3>1. i \in Nat /\ t[i] \in Names
      BY <2>2, <2>3, <2>5, TokensIn
    <3>2. i < a
      <4>1. t[i] # "swiftLanguageModes" /\ t[i] \notin Standards
        BY <2>3, <2>5
      <4>2. \A k \in Tokens(s) : a <= k /\ s[k] \in Names => s[k] \in Standards
        BY <1>9
      <4>3. QED
        BY <4>1, <4>2, <3>1, <1>12
    <3>3. QED
      BY <3>1, <3>2, <2>1, <1>3
  <2>6. QED
    BY <2>1, <2>2, <2>4, <2>5, <1>0, <1>8, PlatformSame, ZenonT(30)
<1>13. Acceptable(t, late) /\ Has(t, "swiftLanguageModes")
  <2>1. t \in Seq(Cells)
    BY <1>5 DEF Inserted
  <2>2. /\ Has(t, "targets") /\ ~Has(t, "swiftLanguageVersions") /\ Has(t, "swiftLanguageModes")
        /\ Has(t, "platforms") <=> Has(s, "platforms")
    BY <1>0, <1>12, NamesAre
  <2>3. IF Has(t, "platforms") THEN ~InOrder(t) <=> late ELSE Misplaces(t) <=> late
    BY <2>2, <1>5, <1>10, <1>14, StaysLate
  <2>4. Sorted(t, Loosely)
    BY <1>0, <1>10
  <2>5. QED
    BY <2>1, <2>2, <2>3, <2>4, <1>8, <1>11 DEF Acceptable
<1>15. QED
  BY <1>13, <1>14

-----------------------------------------------------------------------------
\* The two edits at the end of the text.

\* What is written after all the tokens leaves the platform edit what it was.
LEMMA TailPlatform ==
  ASSUME NEW s, NEW late, Acceptable(s, late), NEW a, NEW u, NEW t, AfterTokens(s, a, u, t),
         IsArgumentList(t), \A i \in Tokens(t) : t[i] \in Anchors \cup {"platforms"} => i < a
  PROVE  PlatformEdits(t) = PlatformEdits(s) /\ (Misplaces(t) <=> Misplaces(s))
<1>1. /\ Inserted(s, a, u, t) /\ s \in Seq(Cells) /\ IsArgumentList(s) /\ Has(s, "targets")
      /\ \A i \in Tokens(s) : i < a
  BY DEF AfterTokens, Acceptable
<1>2. PICK b \in Nat : b = a - 1
  BY <1>1 DEF Inserted
<1>3. /\ t \in Seq(Cells) /\ Len(t) = Len(s) + Len(u) /\ Len(u) \in Nat /\ Len(s) \in Nat
      /\ a \in 1..(Len(s) + 1) /\ \A i \in 1..(a - 1) : t[i] = s[i]
  BY <1>1 DEF Inserted
<1>4. b <= Len(s) /\ b <= Len(t) /\ \A i \in 1..b : t[i] = s[i]
  BY <1>2, <1>3
<1>5. \A i \in Tokens(s) : i <= b
  <2>1. \A i \in Tokens(s) : i \in Nat
    BY <1>1, TokensIn
  <2>2. QED
    BY <2>1, <1>1, <1>2, <1>3
<1>6. \A i \in Tokens(t) : t[i] \in Anchors \cup {"platforms"} => i <= b
  <2>1. \A i \in Tokens(t) : i \in Nat
    BY <1>3, TokensIn
  <2>2. QED
    BY <2>1, <1>2, <1>3
<1>7. QED
  BY <1>1, <1>3, <1>4, <1>5, <1>6, PlatformSame

\* The comma leaves an acceptable text, and the platform edit what it was.
LEMMA CommaWritten ==
  ASSUME NEW s, NEW late, Acceptable(s, late), NEW l \in Tokens(s), \A j \in Tokens(s) : j <= l,
         s[l] # Comma, NEW t, t = Insert(s, Edit(l + 1, <<Comma>>))
  PROVE  /\ Acceptable(t, late) /\ PlatformEdits(t) = PlatformEdits(s)
         /\ Len(t) = Len(s) + 1
         /\ l + 1 \in Tokens(t) /\ t[l + 1] = Comma /\ \A j \in Tokens(t) : j <= l + 1
         /\ \A m \in Names : Has(t, m) <=> Has(s, m)
<1>0. /\ s \in Seq(Cells) /\ IsArgumentList(s) /\ Sorted(s, Loosely) /\ AllV6(s)
      /\ Has(s, "targets") /\ ~Has(s, "swiftLanguageVersions")
  BY DEF Acceptable
<1>1. PICK u : u = <<Comma>>
  OBVIOUS
<1>2. u \in Seq(Cells) /\ 1 <= Len(u) /\ Len(u) <= 1 /\ u[1] = Comma
  BY <1>1, CommaText
<1>3. l \in 1..Len(s) /\ l \in Nat /\ Len(s) \in Nat
  BY <1>0, TokensIn
<1>4. PICK a \in 1..(Len(s) + 1) : a = l + 1
  BY <1>3
<1>5. Inserted(s, a, u, t)
  BY <1>0, <1>1, <1>2, <1>4, InsertShape
<1>6. \A i \in Tokens(s) : i < a
  <2>1. \A i \in Tokens(s) : i \in Nat
    BY <1>0, TokensIn
  <2>2. QED
    BY <2>1, <1>3, <1>4
<1>7. a - 1 = l
  BY <1>3, <1>4
<1>8. CommaTail(s, a, u, t)
  BY <1>2, <1>5, <1>6, <1>7 DEF CommaTail, AfterTokens
<1>9. /\ IsArgumentList(t) /\ AllV6(t) /\ \A R : Sorted(s, R) => Sorted(t, R)
      /\ \A m \in Names : Has(t, m) <=> Has(s, m)
  BY <1>0, <1>8, CommaAdded
<1>10. /\ a \in Nat /\ a \in Tokens(t) /\ t[a] = Comma
       /\ \A i \in Tokens(t) : (i \in Tokens(s) /\ t[i] = s[i]) \/ i = a
       /\ \A i \in Tokens(s) : i \in Nat /\ i < a /\ i \in Tokens(t) /\ t[i] = s[i]
  BY <1>8, CommaTokens
<1>11. t \in Seq(Cells) /\ Len(t) = Len(s) + 1
  <2>1. t \in Seq(Cells) /\ Len(t) = Len(s) + Len(u) /\ Len(u) \in Nat
    BY <1>5 DEF Inserted
  <2>2. QED
    BY <2>1, <1>2, <1>3
<1>13. PlatformEdits(t) = PlatformEdits(s) /\ (Misplaces(t) <=> Misplaces(s))
  <2>1. Comma \notin Anchors \cup {"platforms"}
    BY NamesAre, NotNames DEF Anchors
  <2>2. \A i \in Tokens(t) : t[i] \in Anchors \cup {"platforms"} => i < a
    BY <2>1, <1>10
  <2>3. AfterTokens(s, a, u, t) /\ IsArgumentList(t)
    BY <1>8, <1>9 DEF CommaTail
  <2>4. QED
    BY <2>2, <2>3, TailPlatform
<1>12. Acceptable(t, late)
  <2>1. /\ Has(t, "targets") /\ ~Has(t, "swiftLanguageVersions")
        /\ Has(t, "platforms") <=> Has(s, "platforms")
    BY <1>0, <1>9, NamesAre
  <2>2. IF Has(t, "platforms") THEN ~InOrder(t) <=> late ELSE Misplaces(t) <=> late
    BY <2>1, <1>5, <1>9, <1>13, StaysLate
  <2>3. QED
    BY <2>1, <2>2, <1>0, <1>9, <1>11 DEF Acceptable
<1>14. \A j \in Tokens(t) : j <= l + 1
  BY <1>3, <1>4, <1>10
<1>15. QED
  BY <1>4, <1>9, <1>10, <1>11, <1>12, <1>13, <1>14

\* The modes before the closing parenthesis, after a comma, leave an
\* acceptable text and the platform edit what it was.
LEMMA ModesWritten ==
  ASSUME NEW s, NEW late, Acceptable(s, late), ~Has(s, "swiftLanguageModes"), ~HasStandard(s),
         NEW l \in Tokens(s), \A j \in Tokens(s) : j <= l, s[l] = Comma, NEW t,
         t = Insert(s, Edit(Len(s) + 1, <<Break, "swiftLanguageModes", Colon, "v6", Break>>))
  PROVE  /\ Acceptable(t, late) /\ Has(t, "swiftLanguageModes")
         /\ PlatformEdits(t) = PlatformEdits(s)
<1>0. /\ s \in Seq(Cells) /\ IsArgumentList(s) /\ Sorted(s, Loosely) /\ AllV6(s)
      /\ Has(s, "targets") /\ ~Has(s, "swiftLanguageVersions")
  BY DEF Acceptable
<1>1. PICK u : u = <<Break, "swiftLanguageModes", Colon, "v6", Break>>
  OBVIOUS
<1>2. /\ u \in Seq(Cells) /\ 4 <= Len(u) /\ \A k \in 5..Len(u) : u[k] = Break
      /\ u[1] = Break /\ u[2] = "swiftLanguageModes" /\ u[3] = Colon /\ u[4] = "v6"
  BY <1>1, LastText
<1>3. \A i \in Tokens(s) : i \in 1..Len(s) /\ Len(s) \in Nat
  BY <1>0, TokensIn
<1>4. PICK a \in 1..(Len(s) + 1) : a = Len(s) + 1
  BY <1>0
<1>5. Inserted(s, a, u, t)
  BY <1>0, <1>1, <1>2, <1>4, InsertShape
<1>6. \A i \in Tokens(s) : i < a
  BY <1>3, <1>4
<1>7. ModesTail(s, a, u, t)
  BY <1>2, <1>5, <1>6 DEF ModesTail, AfterTokens
<1>8. /\ IsArgumentList(t) /\ AllV6(t)
      /\ \A R \in {Strictly, Loosely} : Sorted(s, R) => Sorted(t, R)
      /\ \A m \in Names : Has(t, m) <=> Has(s, m) \/ m = "swiftLanguageModes"
  BY <1>0, <1>7, ModesAdded
<1>9. /\ a \in Nat
      /\ t[a + 1] = "swiftLanguageModes" /\ t[a + 2] = Colon /\ t[a + 3] = "v6"
      /\ \A i \in Tokens(t) : (i \in Tokens(s) /\ t[i] = s[i]) \/ i \in {a + 1, a + 2, a + 3}
  BY <1>7, ModesTokens, SMTT(30)
<1>10. t \in Seq(Cells)
  BY <1>5 DEF Inserted
<1>12. PlatformEdits(t) = PlatformEdits(s) /\ (Misplaces(t) <=> Misplaces(s))
  <2>1. {"swiftLanguageModes", Colon, "v6"} \cap (Anchors \cup {"platforms"}) = {}
    BY NamesAre, NotNames DEF Anchors
  <2>2. \A i \in Tokens(t) : t[i] \in Anchors \cup {"platforms"} => i < a
    BY <2>1, <1>6, <1>9
  <2>3. AfterTokens(s, a, u, t) /\ IsArgumentList(t)
    BY <1>7, <1>8 DEF ModesTail
  <2>4. QED
    BY <2>2, <2>3, TailPlatform
<1>11. Acceptable(t, late) /\ Has(t, "swiftLanguageModes")
  <2>1. /\ Has(t, "targets") /\ ~Has(t, "swiftLanguageVersions") /\ Has(t, "swiftLanguageModes")
        /\ Has(t, "platforms") <=> Has(s, "platforms")
    BY <1>0, <1>8, NamesAre
  <2>2. IF Has(t, "platforms") THEN ~InOrder(t) <=> late ELSE Misplaces(t) <=> late
    BY <2>1, <1>5, <1>8, <1>12, StaysLate
  <2>3. QED
    BY <2>1, <2>2, <1>0, <1>8, <1>10 DEF Acceptable
<1>13. QED
  BY <1>11, <1>12

\* The text is the same whichever of the comma and the modes comes first, if
\* the second offset is right for the text it finds.
LEMMA OutOfOrder ==
  ASSUME NEW s \in Seq(Cells), NEW a \in 1..Len(s), NEW c \in Seq(Cells), NEW u \in Seq(Cells),
         1 <= Len(c), Len(c) <= 1
  PROVE  Insert(Insert(s, Edit(Len(s) + 1, u)), Edit(a, c)) =
         Insert(Insert(s, Edit(a, c)), Edit(Len(s) + 2, u))
<1>0. Len(s) \in Nat /\ a \in Nat /\ Len(u) \in Nat /\ Len(c) \in Nat
  OBVIOUS
<1>1. PICK x : x = Insert(s, Edit(Len(s) + 1, u))
  OBVIOUS
<1>2. PICK w : w = Insert(s, Edit(a, c))
  OBVIOUS
<1>3. PICK y : y = Insert(x, Edit(a, c))
  OBVIOUS
<1>4. PICK z : z = Insert(w, Edit(Len(s) + 2, u))
  OBVIOUS
<1>5. Inserted(s, Len(s) + 1, u, x)
  <2>1. Len(s) + 1 \in 1..(Len(s) + 1)
    BY <1>0
  <2>2. QED
    BY <2>1, <1>1, InsertShape
<1>6. Inserted(s, a, c, w)
  <2>1. a \in 1..(Len(s) + 1)
    BY <1>0
  <2>2. QED
    BY <2>1, <1>2, InsertShape
<1>7. /\ x \in Seq(Cells) /\ Len(x) = Len(s) + Len(u)
      /\ \A i \in 1..Len(s) : x[i] = s[i]
      /\ \A i \in 1..Len(u) : x[Len(s) + i] = u[i]
  <2>1. /\ x \in Seq(Cells) /\ Len(x) = Len(s) + Len(u)
        /\ \A i \in 1..(Len(s) + 1 - 1) : x[i] = s[i]
        /\ \A i \in 1..Len(u) : x[Len(s) + 1 - 1 + i] = u[i]
    BY <1>5 DEF Inserted
  <2>2. Len(s) + 1 - 1 = Len(s)
    BY <1>0
  <2>3. QED
    BY <2>1, <2>2
<1>8. /\ w \in Seq(Cells) /\ Len(w) = Len(s) + 1
      /\ \A i \in 1..(a - 1) : w[i] = s[i]
      /\ w[a] = c[1]
      /\ \A i \in a..Len(s) : w[i + 1] = s[i]
  <2>1. /\ w \in Seq(Cells) /\ Len(w) = Len(s) + Len(c)
        /\ \A i \in 1..(a - 1) : w[i] = s[i]
        /\ \A i \in 1..Len(c) : w[a - 1 + i] = c[i]
        /\ \A i \in a..Len(s) : w[i + Len(c)] = s[i]
    BY <1>6 DEF Inserted
  <2>2. PICK n \in Nat : n = Len(c)
    BY <1>0
  <2>3. n = 1
    BY <2>2
  <2>4. a - 1 + 1 = a
    BY <1>0
  <2>5. w[a] = c[1]
    BY <2>1, <2>2, <2>3, <2>4
  <2>6. QED
    BY <2>1, <2>2, <2>3, <2>5
<1>9. Inserted(x, a, c, y)
  <2>1. a \in 1..(Len(x) + 1)
    BY <1>0, <1>7
  <2>2. QED
    BY <2>1, <1>3, <1>7, InsertShape
<1>10. Inserted(w, Len(s) + 2, u, z)
  <2>1. Len(s) + 2 \in 1..(Len(w) + 1)
    BY <1>0, <1>8
  <2>2. QED
    BY <2>1, <1>4, <1>8, InsertShape
<1>11. /\ y \in Seq(Cells) /\ Len(y) = Len(s) + Len(u) + 1
       /\ \A i \in 1..(a - 1) : y[i] = x[i]
       /\ y[a] = c[1]
       /\ \A i \in a..(Len(s) + Len(u)) : y[i + 1] = x[i]
  <2>1. /\ y \in Seq(Cells) /\ Len(y) = Len(x) + Len(c)
        /\ \A i \in 1..(a - 1) : y[i] = x[i]
        /\ \A i \in 1..Len(c) : y[a - 1 + i] = c[i]
        /\ \A i \in a..Len(x) : y[i + Len(c)] = x[i]
    BY <1>9 DEF Inserted
  <2>2. PICK n \in Nat : n = Len(c)
    BY <1>0
  <2>3. n = 1
    BY <2>2
  <2>4. a - 1 + 1 = a
    BY <1>0
  <2>5. y[a] = c[1]
    BY <2>1, <2>2, <2>3, <2>4
  <2>6. QED
    BY <2>1, <2>2, <2>3, <2>5, <1>7
<1>12. /\ z \in Seq(Cells) /\ Len(z) = Len(s) + Len(u) + 1
       /\ \A i \in 1..(Len(s) + 1) : z[i] = w[i]
       /\ \A i \in 1..Len(u) : z[Len(s) + 1 + i] = u[i]
  <2>1. /\ z \in Seq(Cells) /\ Len(z) = Len(w) + Len(u)
        /\ \A i \in 1..(Len(s) + 2 - 1) : z[i] = w[i]
        /\ \A i \in 1..Len(u) : z[Len(s) + 2 - 1 + i] = u[i]
    BY <1>10 DEF Inserted
  <2>2. Len(s) + 2 - 1 = Len(s) + 1
    BY <1>0
  <2>3. Len(z) = Len(s) + Len(u) + 1
    BY <2>1, <1>0, <1>8
  <2>4. QED
    BY <2>1, <2>2, <2>3
<1>13. ASSUME NEW i \in 1..Len(y)
       PROVE  y[i] = z[i]
  <2>1. CASE i < a
    <3>1. i \in 1..(a - 1) /\ i \in 1..Len(s) /\ i \in 1..(Len(s) + 1)
      BY <2>1, <1>0, <1>11
    <3>2. QED
      BY <3>1, <1>7, <1>8, <1>11, <1>12
  <2>2. CASE i = a
    <3>1. a \in 1..(Len(s) + 1)
      BY <1>0
    <3>2. QED
      BY <3>1, <2>2, <1>8, <1>11, <1>12
  <2>3. CASE a < i /\ i <= Len(s) + 1
    <3>1. PICK k \in a..Len(s) : i = k + 1
      <4>1. i - 1 \in a..Len(s) /\ i = (i - 1) + 1
        BY <2>3, <1>0
      <4>2. QED
        BY <4>1
    <3>2. k \in a..(Len(s) + Len(u)) /\ k \in 1..Len(s) /\ i \in 1..(Len(s) + 1)
      BY <3>1, <1>0
    <3>3. y[i] = s[k]
      BY <3>1, <3>2, <1>7, <1>11
    <3>4. z[i] = s[k]
      BY <3>1, <3>2, <1>8, <1>12
    <3>5. QED
      BY <3>3, <3>4
  <2>4. CASE Len(s) + 1 < i
    <3>1. PICK k \in 1..Len(u) : i = Len(s) + 1 + k
      <4>1. i - Len(s) - 1 \in 1..Len(u) /\ i = Len(s) + 1 + (i - Len(s) - 1)
        BY <2>4, <1>0, <1>11
      <4>2. QED
        BY <4>1
    <3>2. Len(s) + k \in a..(Len(s) + Len(u)) /\ i = (Len(s) + k) + 1
      BY <3>1, <1>0
    <3>3. y[i] = x[Len(s) + k]
      BY <3>2, <1>11
    <3>4. y[i] = u[k]
      BY <3>3, <1>7
    <3>5. z[i] = u[k]
      BY <3>1, <1>12
    <3>6. QED
      BY <3>4, <3>5
  <2>5. QED
    BY <2>1, <2>2, <2>3, <2>4, <1>0, <1>11
<1>14. y = z
  <2>1. Len(y) = Len(z)
    BY <1>11, <1>12
  <2>2. QED
    BY <2>1, <1>11, <1>12, <1>13, SeqEqual
<1>15. QED
  BY <1>1, <1>2, <1>3, <1>4, <1>14

-----------------------------------------------------------------------------
\* The edits that are left.

\* The comma and the modes, if they are written at the end, have offsets of
\* their own.
Apart(text) ==
  Has(text, "swiftLanguageModes") \/ HasStandard(text) \/ text[Len(text)] \in {Break, Comma}

\* The edits that are left are those enforce() would decide on now.
Whole(text, pending, late) ==
  /\ Acceptable(text, late) /\ Apart(text)
  /\ pending = PlatformEdits(text) \cup ModeEdits(text)

\* The modes are written, the comma before them is not: the edits left are the
\* comma, at a, and what enforce() would decide on once it is there.
CommaMissing(text, pending, late) ==
  \E a \in 1..Len(text) :
    LET comma == Edit(a, <<Comma>>)
        mended == Insert(text, comma)
    IN  /\ Acceptable(mended, late) /\ Has(mended, "swiftLanguageModes")
        /\ \A e \in PlatformEdits(mended) : e.at < a
        /\ pending = PlatformEdits(mended) \cup {comma}

\* What enforce() looks for is what is there, and it writes what is not.
LEMMA NoModeEdits ==
  ASSUME NEW s, NEW late, Acceptable(s, late)
  PROVE  /\ Has(s, "swiftLanguageModes") <=> "swiftLanguageModes" \in Arguments(s)
         /\ HasStandard(s) <=> Standards \cap Arguments(s) # {}
         /\ Has(s, "platforms") <=> "platforms" \in Arguments(s)
         /\ Has(s, "swiftLanguageModes") => ModeEdits(s) = {}
         /\ ModeEdits(s) = {} => Has(s, "swiftLanguageModes")
         /\ Has(s, "platforms") => PlatformEdits(s) = {}
<1>1. s \in Seq(Cells) /\ IsArgumentList(s)
  BY DEF Acceptable
<1>2. /\ Has(s, "swiftLanguageModes") <=> "swiftLanguageModes" \in Arguments(s)
      /\ Has(s, "platforms") <=> "platforms" \in Arguments(s)
  BY <1>1, NamesAre, ArgumentsAre
<1>7. HasStandard(s) <=> Standards \cap Arguments(s) # {}
  <2>1. Standards \subseteq Names
    BY NamesAre DEF Standards
  <2>2. \A n \in Standards : n \in Arguments(s) <=> Has(s, n)
    BY <2>1, <1>1, ArgumentsAre
  <2>3. QED
    BY <2>2 DEF HasStandard
<1>3. ModeEdits(s) = {} => "swiftLanguageModes" \in Arguments(s)
  BY DEF ModeEdits
<1>4. "swiftLanguageModes" \in Arguments(s) => ModeEdits(s) = {}
  BY DEF ModeEdits
<1>5. "platforms" \in Arguments(s) => PlatformEdits(s) = {}
  BY DEF PlatformEdits
<1>6. QED
  BY <1>2, <1>3, <1>4, <1>5, <1>7

\* With the modes there, only the platform may be left to write.
LEMMA WholeWithModes ==
  ASSUME NEW s, NEW late, Acceptable(s, late), Has(s, "swiftLanguageModes")
  PROVE  Whole(s, PlatformEdits(s), late)
BY NoModeEdits DEF Whole, Apart

\* There is one platform edit at most.
LEMMA OnePlatform ==
  ASSUME NEW s, NEW e \in PlatformEdits(s)
  PROVE  PlatformEdits(s) = {e}
BY DEF PlatformEdits

\* The mode edit of a text with a standard.
LEMMA ModesAtStandard ==
  ASSUME NEW s, NEW late, Acceptable(s, late), ~Has(s, "swiftLanguageModes"), HasStandard(s)
  PROVE  \E a \in Tokens(s) :
           /\ IsOffset(s, Standards, a) /\ s[a] \in Standards
           /\ ModeEdits(s) = {Edit(a, <<"swiftLanguageModes", Colon, "v6", Comma, Break>>)}
<1>1. s \in Seq(Cells)
  BY DEF Acceptable
<1>2. "swiftLanguageModes" \notin Arguments(s) /\ Standards \cap Arguments(s) # {}
  BY NoModeEdits
<1>3. PICK a : a = Offset(s, Standards)
  OBVIOUS
<1>4. IsOffset(s, Standards, a)
  BY <1>1, <1>2, <1>3, OffsetFound
<1>5. a \in Tokens(s) /\ s[a] \in Standards
  BY <1>1, <1>4, TokensIn DEF IsOffset
<1>6. ModeEdits(s) = {Edit(a, <<"swiftLanguageModes", Colon, "v6", Comma, Break>>)}
  BY <1>2, <1>3 DEF ModeEdits
<1>7. QED
  BY <1>4, <1>5, <1>6

\* The mode edits of a text without one.
LEMMA ModesAtEnd ==
  ASSUME NEW s, NEW late, Acceptable(s, late), ~Has(s, "swiftLanguageModes"), ~HasStandard(s)
  PROVE  \E l \in Tokens(s) :
           /\ \A j \in Tokens(s) : j <= l
           /\ ModeEdits(s) =
                {Edit(Len(s) + 1, <<Break, "swiftLanguageModes", Colon, "v6", Break>>)} \cup
                (IF s[l] = Comma THEN {} ELSE {Edit(l + 1, <<Comma>>)})
<1>1. s \in Seq(Cells) /\ Tokens(s) # {}
  BY DEF Acceptable, Has
<1>2. "swiftLanguageModes" \notin Arguments(s) /\ Standards \cap Arguments(s) = {}
  BY NoModeEdits
<1>3. LastToken(s) \in Tokens(s) /\ \A j \in Tokens(s) : j <= LastToken(s)
  BY <1>1, LastFound
<1>4. ModeEdits(s) =
        {Edit(Len(s) + 1, <<Break, "swiftLanguageModes", Colon, "v6", Break>>)} \cup
        (IF s[LastToken(s)] = Comma THEN {} ELSE {Edit(LastToken(s) + 1, <<Comma>>)})
  BY <1>2 DEF ModeEdits
<1>5. QED
  BY <1>3, <1>4

\* The platform is written when the modes are there: its offset is the least.
LEMMA PlatformIsLast ==
  ASSUME NEW s, NEW P, NEW late, Whole(s, P, late), NEW e \in PlatformEdits(s),
         \A f \in P \ {e} : Before(e, f)
  PROVE  Has(s, "swiftLanguageModes")
<1>1. Acceptable(s, late) /\ s \in Seq(Cells) /\ Len(s) \in Nat
  BY DEF Whole, Acceptable
<1>2. /\ e.at \in Nat /\ e.at \in 1..Len(s)
      /\ \A x \in Tokens(s) : s[x] \in Standards => e.at < x
  BY <1>1, AnchorInside
<1>3. SUFFICES ASSUME ~Has(s, "swiftLanguageModes")
               PROVE  FALSE
  OBVIOUS
<1>4. ASSUME NEW f \in ModeEdits(s), f.at \in Nat
      PROVE  f.at <= e.at
  <2>1. f \in P
    BY DEF Whole
  <2>2. CASE f = e
    BY <2>2, <1>2
  <2>3. CASE f # e
    <3>1. Before(e, f)
      BY <2>1, <2>3
    <3>2. QED
      BY <3>1, <1>2, <1>4 DEF Before
  <2>4. QED
    BY <2>2, <2>3
<1>5. CASE HasStandard(s)
  <2>1. PICK a \in Tokens(s) :
          /\ IsOffset(s, Standards, a) /\ s[a] \in Standards
          /\ ModeEdits(s) = {Edit(a, <<"swiftLanguageModes", Colon, "v6", Comma, Break>>)}
    BY <1>1, <1>3, <1>5, ModesAtStandard
  <2>2. a \in Nat /\ e.at < a
    BY <2>1, <1>1, <1>2, TokensIn
  <2>3. PICK f \in ModeEdits(s) : f.at = a
    BY <2>1 DEF Edit
  <2>4. QED
    BY <2>2, <2>3, <1>2, <1>4
<1>6. CASE ~HasStandard(s)
  <2>1. PICK l \in Tokens(s) :
          ModeEdits(s) =
            {Edit(Len(s) + 1, <<Break, "swiftLanguageModes", Colon, "v6", Break>>)} \cup
            (IF s[l] = Comma THEN {} ELSE {Edit(l + 1, <<Comma>>)})
    BY <1>1, <1>3, <1>6, ModesAtEnd
  <2>4. PICK f : f = Edit(Len(s) + 1, <<Break, "swiftLanguageModes", Colon, "v6", Break>>)
    OBVIOUS
  <2>2. f \in ModeEdits(s) /\ f.at = Len(s) + 1
    <3>1. f \in ModeEdits(s)
      BY <2>1, <2>4
    <3>2. f.at = Len(s) + 1
      BY <2>4 DEF Edit
    <3>3. QED
      BY <3>1, <3>2
  <2>3. QED
    BY <2>2, <1>1, <1>2, <1>4
<1>7. QED
  BY <1>5, <1>6

\* The closing parenthesis is not where the comma goes, so that the modes are
\* written before the comma is.
LEMMA EndBeforeComma ==
  ASSUME NEW s, NEW late, Acceptable(s, late), Apart(s), ~Has(s, "swiftLanguageModes"),
         ~HasStandard(s), NEW l \in Tokens(s), s[l] # Comma
  PROVE  l \in Nat /\ l < Len(s)
<1>1. s \in Seq(Cells) /\ Len(s) \in Nat
  BY DEF Acceptable
<1>2. l \in 1..Len(s) /\ s[l] # Break
  BY <1>1, TokensIn
<1>3. l # Len(s)
  BY <1>2 DEF Apart
<1>4. QED
  BY <1>1, <1>2, <1>3

-----------------------------------------------------------------------------
\* One edit is made.

\* The modes are written before the standard.
LEMMA AppliedAtStandard ==
  ASSUME NEW s, NEW P, NEW late, Whole(s, P, late), ~Has(s, "swiftLanguageModes"), HasStandard(s),
         NEW e \in ModeEdits(s), e \notin PlatformEdits(s), NEW t, t = Insert(s, e)
  PROVE  Whole(t, P \ {e}, late)
<1>1. Acceptable(s, late) /\ P = PlatformEdits(s) \cup ModeEdits(s)
  BY DEF Whole
<1>2. PICK a \in Tokens(s) :
        /\ IsOffset(s, Standards, a) /\ s[a] \in Standards
        /\ ModeEdits(s) = {Edit(a, <<"swiftLanguageModes", Colon, "v6", Comma, Break>>)}
  BY <1>1, ModesAtStandard
<1>3. e = Edit(a, <<"swiftLanguageModes", Colon, "v6", Comma, Break>>) /\ ModeEdits(s) = {e}
  BY <1>2
<1>4. /\ Acceptable(t, late) /\ Has(t, "swiftLanguageModes")
      /\ PlatformEdits(t) = PlatformEdits(s)
  BY <1>1, <1>2, <1>3, ModesInserted
<1>5. P \ {e} = PlatformEdits(t)
  BY <1>1, <1>3, <1>4
<1>6. QED
  BY <1>4, <1>5, WholeWithModes

\* The modes are written before the closing parenthesis.
LEMMA AppliedAtEnd ==
  ASSUME NEW s, NEW P, NEW late, Whole(s, P, late), ~Has(s, "swiftLanguageModes"), ~HasStandard(s),
         NEW e \in ModeEdits(s), e \notin PlatformEdits(s), \A f \in P \ {e} : Before(e, f),
         NEW t, t = Insert(s, e)
  PROVE  Whole(t, P \ {e}, late) \/ CommaMissing(t, P \ {e}, late)
<1>1. /\ Acceptable(s, late) /\ Apart(s) /\ P = PlatformEdits(s) \cup ModeEdits(s)
      /\ s \in Seq(Cells) /\ Len(s) \in Nat
  BY DEF Whole, Acceptable
<1>2. PICK l \in Tokens(s) :
        /\ \A j \in Tokens(s) : j <= l
        /\ ModeEdits(s) =
             {Edit(Len(s) + 1, <<Break, "swiftLanguageModes", Colon, "v6", Break>>)} \cup
             (IF s[l] = Comma THEN {} ELSE {Edit(l + 1, <<Comma>>)})
  BY <1>1, ModesAtEnd
<1>3. PICK u : u = <<Break, "swiftLanguageModes", Colon, "v6", Break>>
  OBVIOUS
<1>4. PICK end : end = Edit(Len(s) + 1, u)
  OBVIOUS
<1>5. CASE s[l] = Comma
  <2>1. ModeEdits(s) = {end}
    BY <1>2, <1>3, <1>4, <1>5
  <2>2. e = Edit(Len(s) + 1, <<Break, "swiftLanguageModes", Colon, "v6", Break>>)
    BY <2>1, <1>3, <1>4
  <2>3. /\ Acceptable(t, late) /\ Has(t, "swiftLanguageModes")
        /\ PlatformEdits(t) = PlatformEdits(s)
    BY <2>2, <1>1, <1>2, <1>5, ModesWritten
  <2>4. P \ {e} = PlatformEdits(t)
    BY <2>1, <2>3, <1>1
  <2>5. QED
    BY <2>3, <2>4, WholeWithModes
<1>6. CASE s[l] # Comma
  <2>1. PICK comma : comma = Edit(l + 1, <<Comma>>)
    OBVIOUS
  <2>2. ModeEdits(s) = {end, comma}
    BY <2>1, <1>2, <1>3, <1>4, <1>6
  <2>3. l \in Nat /\ l < Len(s)
    BY <1>1, <1>6, EndBeforeComma
  <2>4. end.at = Len(s) + 1 /\ comma.at = l + 1
    BY <2>1, <1>4 DEF Edit
  <2>5. end # comma
    BY <2>3, <2>4, <1>1
  <2>6. e = end
    <3>1. SUFFICES ASSUME e = comma
                   PROVE  FALSE
      BY <2>2
    <3>2. Before(comma, end)
      BY <3>1, <2>2, <2>5, <1>1
    <3>3. QED
      BY <3>2, <2>3, <2>4, <1>1 DEF Before
  <2>7. PICK w : w = Insert(s, comma)
    OBVIOUS
  <2>8. /\ Acceptable(w, late) /\ PlatformEdits(w) = PlatformEdits(s)
        /\ Len(w) = Len(s) + 1
        /\ l + 1 \in Tokens(w) /\ w[l + 1] = Comma /\ \A j \in Tokens(w) : j <= l + 1
        /\ \A m \in Names : Has(w, m) <=> Has(s, m)
    BY <2>1, <2>7, <1>1, <1>2, <1>6, CommaWritten
  <2>9. ~Has(w, "swiftLanguageModes") /\ ~HasStandard(w)
    BY <2>8, NamesAre DEF HasStandard, Standards
  <2>10. PICK z : z = Insert(w, Edit(Len(w) + 1, u))
    OBVIOUS
  <2>11. /\ Acceptable(z, late) /\ Has(z, "swiftLanguageModes")
         /\ PlatformEdits(z) = PlatformEdits(w)
    BY <2>8, <2>9, <2>10, <1>3, ModesWritten
  <2>12. Len(w) + 1 = Len(s) + 2
    BY <2>8, <1>1
  <2>13. z = Insert(t, comma)
    <3>1. l + 1 \in 1..Len(s)
      BY <2>3, <1>1
    <3>2. u \in Seq(Cells)
      BY <1>3, LastText
    <3>3. PICK c : c = <<Comma>>
      OBVIOUS
    <3>4. c \in Seq(Cells) /\ 1 <= Len(c) /\ Len(c) <= 1
      BY <3>3, CommaText
    <3>5. Insert(Insert(s, Edit(Len(s) + 1, u)), Edit(l + 1, c)) =
          Insert(Insert(s, Edit(l + 1, c)), Edit(Len(s) + 2, u))
      BY <3>1, <3>2, <3>4, <1>1, OutOfOrder
    <3>6. QED
      BY <3>3, <3>5, <2>1, <2>6, <2>7, <2>10, <2>12, <1>4
  <2>14. l + 1 \in 1..Len(t)
    <3>1. u \in Seq(Cells) /\ Len(s) + 1 \in 1..(Len(s) + 1)
      BY <1>1, <1>3, LastText
    <3>2. Inserted(s, Len(s) + 1, u, t)
      BY <3>1, <2>6, <1>1, <1>4, InsertShape
    <3>3. Len(t) = Len(s) + Len(u) /\ Len(u) \in Nat
      BY <3>1, <3>2 DEF Inserted
    <3>4. QED
      BY <3>3, <2>3, <1>1
  <2>15. ASSUME NEW f \in PlatformEdits(z)
         PROVE  f.at < l + 1
    <3>1. f \in PlatformEdits(s)
      BY <2>8, <2>11, <2>15
    <3>2. f.at \in Tokens(s) /\ f.at \in 1..Len(s)
      BY <3>1, <1>1, AnchorInside
    <3>3. QED
      BY <3>2, <2>3, <1>2
  <2>16. P \ {e} = PlatformEdits(z) \cup {comma}
    <3>1. e \notin PlatformEdits(s) /\ comma # e
      BY <2>5, <2>6
    <3>2. QED
      BY <3>1, <2>2, <2>6, <2>8, <2>11, <1>1
  <2>17. QED
    BY <2>1, <2>11, <2>13, <2>14, <2>15, <2>16 DEF CommaMissing
<1>7. QED
  BY <1>5, <1>6

\* Whichever edit is made first, what is left is right for what it leaves.
LEMMA AppliedToWhole ==
  ASSUME NEW s, NEW P, NEW late, Whole(s, P, late), NEW e \in P, \A f \in P \ {e} : Before(e, f),
         NEW t, t = Insert(s, e)
  PROVE  Whole(t, P \ {e}, late) \/ CommaMissing(t, P \ {e}, late)
<1>1. Acceptable(s, late) /\ P = PlatformEdits(s) \cup ModeEdits(s)
  BY DEF Whole
<1>2. CASE e \in PlatformEdits(s)
  <2>1. Has(s, "swiftLanguageModes")
    BY <1>2, PlatformIsLast
  <2>2. ModeEdits(s) = {} /\ PlatformEdits(s) = {e}
    BY <2>1, <1>1, <1>2, NoModeEdits, OnePlatform
  <2>3. Acceptable(t, late) /\ Has(t, "platforms") /\ Has(t, "swiftLanguageModes")
    BY <2>1, <1>1, <1>2, PlatformInserted
  <2>4. PlatformEdits(t) = {}
    BY <2>3, NoModeEdits
  <2>5. P \ {e} = PlatformEdits(t)
    BY <2>2, <2>4, <1>1
  <2>6. QED
    BY <2>3, <2>5, WholeWithModes
<1>3. CASE e \notin PlatformEdits(s)
  <2>1. e \in ModeEdits(s)
    BY <1>1, <1>3
  <2>2. ~Has(s, "swiftLanguageModes")
    BY <2>1, <1>1, NoModeEdits
  <2>3. CASE HasStandard(s)
    BY <2>1, <2>2, <2>3, <1>3, AppliedAtStandard
  <2>4. CASE ~HasStandard(s)
    BY <2>1, <2>2, <2>4, <1>3, AppliedAtEnd
  <2>5. QED
    BY <2>3, <2>4
<1>4. QED
  BY <1>2, <1>3

\* The comma follows.
LEMMA AppliedComma ==
  ASSUME NEW s, NEW P, NEW late, CommaMissing(s, P, late), NEW e \in P, \A f \in P \ {e} : Before(e, f),
         NEW t, t = Insert(s, e)
  PROVE  Whole(t, P \ {e}, late)
<1>1. PICK a \in 1..Len(s) :
        LET comma == Edit(a, <<Comma>>)
            mended == Insert(s, comma)
        IN  /\ Acceptable(mended, late) /\ Has(mended, "swiftLanguageModes")
            /\ \A f \in PlatformEdits(mended) : f.at < a
            /\ P = PlatformEdits(mended) \cup {comma}
  BY DEF CommaMissing
<1>2. PICK comma : comma = Edit(a, <<Comma>>)
  OBVIOUS
<1>3. PICK mended : mended = Insert(s, comma)
  OBVIOUS
<1>4. /\ Acceptable(mended, late) /\ Has(mended, "swiftLanguageModes")
      /\ \A f \in PlatformEdits(mended) : f.at < a
      /\ P = PlatformEdits(mended) \cup {comma}
  BY <1>1, <1>2, <1>3
<1>5. comma.at = a /\ a \in Nat
  BY <1>2 DEF Edit
<1>6. ASSUME NEW f \in PlatformEdits(mended)
      PROVE  f # comma /\ ~Before(f, comma)
  <2>1. f.at \in 1..Len(mended)
    BY <1>4, AnchorInside
  <2>2. f.at \in Nat /\ f.at < a
    BY <2>1, <1>4
  <2>3. QED
    BY <2>2, <1>5 DEF Before
<1>7. e = comma
  BY <1>4, <1>6
<1>8. t = mended /\ P \ {e} = PlatformEdits(mended)
  BY <1>3, <1>4, <1>6, <1>7
<1>9. QED
  BY <1>4, <1>8, WholeWithModes

-----------------------------------------------------------------------------
\* The theorems.

\* An offset is inside the text.
LEMMA OffsetInside ==
  ASSUME NEW s \in Seq(Cells), NEW names, NEW n \in Arguments(s), n \in names
  PROVE  Offset(s, names) \in 1..Len(s)
<1>1. IsOffset(s, names, Offset(s, names))
  BY OffsetFound
<1>2. QED
  BY <1>1, TokensIn DEF IsOffset

\* The edits enforce() decides on are at offsets of its text.
LEMMA EditsTyped ==
  ASSUME NEW s \in Seq(Cells), "targets" \in Arguments(s)
  PROVE  PlatformEdits(s) \cup ModeEdits(s) \subseteq [at : 1..(Len(s) + 1), text : Seq(Cells)]
<1>0. Len(s) \in Nat
  OBVIOUS
<1>1. ASSUME NEW e \in PlatformEdits(s)
      PROVE  e \in [at : 1..(Len(s) + 1), text : Seq(Cells)]
  <2>1. PICK x : x = Offset(s, Anchors)
    OBVIOUS
  <2>2. PICK more \in {<<Break>>, <<>>} : more = IF BeginsLine(s, x) THEN <<Break>> ELSE <<>>
    OBVIOUS
  <2>3. PICK u : u = <<"platforms", Colon, "value", Comma>> \o more
    OBVIOUS
  <2>4. u \in Seq(Cells)
    BY <2>3, PlatformText DEF ArgumentText
  <2>5. e = Edit(x, <<"platforms", Colon, "value", Comma>> \o
                    IF BeginsLine(s, x) THEN <<Break>> ELSE <<>>)
    BY <2>1, <1>1 DEF PlatformEdits
  <2>6. e = Edit(x, u)
    BY <2>2, <2>3, <2>5
  <2>7. x \in 1..Len(s)
    BY <2>1, OffsetInside DEF Anchors
  <2>8. x \in 1..(Len(s) + 1)
    BY <2>7, <1>0
  <2>9. QED
    BY <2>4, <2>6, <2>8 DEF Edit
<1>2. ASSUME NEW e \in ModeEdits(s)
      PROVE  e \in [at : 1..(Len(s) + 1), text : Seq(Cells)]
  <2>1. "swiftLanguageModes" \notin Arguments(s)
    BY <1>2 DEF ModeEdits
  <2>2. CASE Standards \cap Arguments(s) # {}
    <3>1. PICK x : x = Offset(s, Standards)
      OBVIOUS
    <3>2. PICK u : u = <<"swiftLanguageModes", Colon, "v6", Comma, Break>>
      OBVIOUS
    <3>3. u \in Seq(Cells)
      BY <3>2, ModesText DEF ArgumentText
    <3>4. e = Edit(x, u)
      BY <3>1, <3>2, <2>1, <2>2, <1>2 DEF ModeEdits
    <3>5. x \in 1..Len(s)
      BY <3>1, <2>2, OffsetInside
    <3>6. x \in 1..(Len(s) + 1)
      BY <3>5, <1>0
    <3>7. QED
      BY <3>3, <3>4, <3>6 DEF Edit
  <2>3. CASE Standards \cap Arguments(s) = {}
    <3>1. PICK u : u = <<Break, "swiftLanguageModes", Colon, "v6", Break>>
      OBVIOUS
    <3>2. PICK c : c = <<Comma>>
      OBVIOUS
    <3>3. u \in Seq(Cells) /\ c \in Seq(Cells)
      BY <3>1, <3>2, LastText, CommaText
    <3>4. e = Edit(Len(s) + 1, u) \/ e = Edit(LastToken(s) + 1, c)
      BY <3>1, <3>2, <2>1, <2>3, <1>2 DEF ModeEdits
    <3>5. Tokens(s) # {}
      BY TokensIn DEF Arguments
    <3>6. LastToken(s) \in 1..Len(s)
      BY <3>5, LastFound, TokensIn
    <3>7. Len(s) + 1 \in 1..(Len(s) + 1) /\ LastToken(s) + 1 \in 1..(Len(s) + 1)
      BY <3>6, <1>0
    <3>8. QED
      BY <3>3, <3>4, <3>7 DEF Edit
  <2>4. QED
    BY <2>2, <2>3
<1>3. QED
  BY <1>1, <1>2

\* What an edit leaves is a text, and no shorter.
LEMMA InsertTyped ==
  ASSUME NEW s \in Seq(Cells), NEW e \in [at : 1..(Len(s) + 1), text : Seq(Cells)]
  PROVE  Insert(s, e) \in Seq(Cells) /\ Len(s) <= Len(Insert(s, e))
<1>1. PICK a \in 1..(Len(s) + 1) : a = e.at
  OBVIOUS
<1>2. PICK u \in Seq(Cells) : u = e.text
  OBVIOUS
<1>3. e = Edit(a, u)
  BY <1>1, <1>2 DEF Edit
<1>4. PICK t : t = Insert(s, e)
  OBVIOUS
<1>5. Inserted(s, a, u, t)
  BY <1>3, <1>4, InsertShape
<1>6. t \in Seq(Cells) /\ Len(t) = Len(s) + Len(u) /\ Len(u) \in Nat /\ Len(s) \in Nat
  BY <1>5 DEF Inserted
<1>7. Len(s) <= Len(t)
  BY <1>6
<1>8. QED
  BY <1>4, <1>6, <1>7

\* The text stays a sequence of cells, and the edits that are pending at
\* offsets of it, whatever manifest was written: no edit makes an offset of
\* a later one fall outside the text (enforce_swift6.py:50-74).
THEOREM ManifestTypeCorrect == ManifestSpec => []ManifestTypeOK
<1>1. ManifestInit => ManifestTypeOK
  <2>1. SUFFICES ASSUME ManifestInit PROVE ManifestTypeOK
    OBVIOUS
  <2>2. manifest \in Manifest /\ original = manifest /\ edits = {} /\ outcome = "none"
    BY <2>1, WrittenAssumption DEF ManifestInit
  <2>3. QED
    BY <2>2 DEF ManifestTypeOK
<1>2. ManifestTypeOK /\ [ManifestNext]_manifestVars => ManifestTypeOK'
  <2>1. SUFFICES ASSUME ManifestTypeOK, [ManifestNext]_manifestVars
                 PROVE  ManifestTypeOK'
    OBVIOUS
  <2>2. /\ manifest \in Manifest /\ manifest.text \in Seq(Cells)
        /\ edits \subseteq [at : 1..(Len(manifest.text) + 1), text : Seq(Cells)]
    BY <2>1 DEF ManifestTypeOK, Manifest
  <2>8. [ManifestNext]_manifestVars => original' = original
    BY DEF ManifestNext, Examine, Apply, Finish, manifestVars
  <2>9. original' \in Manifest
    BY <2>1, <2>8 DEF ManifestTypeOK
  <2>3. CASE Examine
    <3>1. CASE Refused(manifest)
      BY <3>1, <2>1, <2>3, <2>9 DEF Examine, ManifestTypeOK
    <3>2. CASE ~Refused(manifest)
      <4>1. /\ edits' = PlatformEdits(manifest.text) \cup ModeEdits(manifest.text)
            /\ manifest' = manifest /\ outcome' = "editing"
        BY <3>2, <2>3 DEF Examine
      <4>2. "targets" \in Arguments(manifest.text)
        BY <3>2 DEF Refused
      <4>3. edits' \subseteq [at : 1..(Len(manifest.text) + 1), text : Seq(Cells)]
        BY <4>1, <4>2, <2>2, EditsTyped
      <4>4. QED
        BY <4>1, <4>3, <2>2, <2>9 DEF ManifestTypeOK
    <3>3. QED
      BY <3>1, <3>2
  <2>4. CASE Apply
    <3>1. PICK e \in edits :
            /\ manifest' = [manifest EXCEPT !.text = Insert(@, e)]
            /\ edits' = edits \ {e} /\ outcome' = outcome
      BY <2>4 DEF Apply
    <3>2. PICK s : s = manifest.text
      OBVIOUS
    <3>3. PICK t : t = Insert(s, e)
      OBVIOUS
    <3>4. s \in Seq(Cells) /\ e \in [at : 1..(Len(s) + 1), text : Seq(Cells)]
      BY <3>1, <3>2, <2>2
    <3>5. t \in Seq(Cells) /\ Len(s) <= Len(t)
      BY <3>3, <3>4, InsertTyped
    <3>6. manifest' = [manifest EXCEPT !.text = t]
      BY <3>1, <3>2, <3>3
    <3>7. manifest' \in Manifest /\ manifest'.text = t
      BY <3>5, <3>6, <2>2 DEF Manifest
    <3>8. edits' \subseteq [at : 1..(Len(t) + 1), text : Seq(Cells)]
      <4>1. Len(s) \in Nat /\ Len(t) \in Nat
        BY <3>4, <3>5
      <4>2. 1..(Len(s) + 1) \subseteq 1..(Len(t) + 1)
        BY <4>1, <3>5
      <4>3. [at : 1..(Len(s) + 1), text : Seq(Cells)] \subseteq
              [at : 1..(Len(t) + 1), text : Seq(Cells)]
        BY <4>2
      <4>4. QED
        BY <4>3, <3>1, <3>2, <2>2
    <3>9. QED
      BY <3>1, <3>7, <3>8, <2>1, <2>9 DEF ManifestTypeOK
  <2>5. CASE Finish
    <3>1. /\ manifest' = [manifest EXCEPT !.tools = IF @ < 6 THEN 6 ELSE @]
          /\ edits' = edits /\ outcome' = "strict"
      BY <2>5 DEF Finish
    <3>2. manifest' \in Manifest /\ manifest'.text = manifest.text
      BY <3>1, <2>2 DEF Manifest
    <3>3. QED
      BY <3>1, <3>2, <2>2, <2>9 DEF ManifestTypeOK
  <2>6. CASE UNCHANGED manifestVars
    BY <2>1, <2>6 DEF manifestVars, ManifestTypeOK
  <2>7. QED
    BY <2>1, <2>3, <2>4, <2>5, <2>6 DEF ManifestNext
<1>3. QED
  BY <1>1, <1>2, PTL DEF ManifestSpec

\* A manifest that enforce() does not refuse is acceptable
\* (enforce_swift6.py:12-66).
LEMMA NotRefused ==
  ASSUME NEW m \in Manifest, IsSwift(m.text), ~Refused(m)
  PROVE  /\ Acceptable(m.text, Misplaces(m.text))
         /\ ~SharesOffset(m.text) => Apart(m.text)
         /\ m.tools <= 6 /\ m.target # "v5"
<1>1. PICK s : s = m.text
  OBVIOUS
<1>2. s \in Seq(Cells) /\ IsArgumentList(s) /\ InOrder(s) /\ m.tools \in 5..7
  BY <1>1 DEF Manifest, IsSwift
<1>3. /\ ~(m.tools > 6) /\ "targets" \in Arguments(s)
      /\ "swiftLanguageVersions" \notin Arguments(s) /\ m.target # "v5"
  BY <1>1 DEF Refused
<1>4. \A i \in Starts(s) : \A j, k \in Tokens(s) :
        s[i] = "swiftLanguageModes" /\ Adjacent(s, i, j) /\ Adjacent(s, j, k) => s[k] = "v6"
  BY <1>1 DEF Refused
<1>5. AllV6(s)
  BY <1>2, <1>4, NamesStart, NamesAre DEF AllV6
<1>6. \A n \in Names : n \in Arguments(s) <=> Has(s, n)
  BY <1>2, ArgumentsAre
<1>7. Has(s, "targets") /\ ~Has(s, "swiftLanguageVersions")
  BY <1>3, <1>6, NamesAre
<1>8. IF Has(s, "platforms") THEN ~InOrder(s) <=> Misplaces(s) ELSE Misplaces(s) <=> Misplaces(s)
  <2>1. Has(s, "platforms") => ~Misplaces(s)
    BY <1>6, NamesAre DEF Misplaces
  <2>2. QED
    BY <2>1, <1>2
<1>9. Acceptable(s, Misplaces(s))
  BY <1>2, <1>5, <1>7, <1>8, LooselyInOrder DEF Acceptable
<1>10. ASSUME ~SharesOffset(s), ~Has(s, "swiftLanguageModes"), ~HasStandard(s)
       PROVE  s[Len(s)] \in {Break, Comma}
  <2>1. Arguments(s) \cap (Standards \cup {"swiftLanguageModes"}) = {}
    BY <1>6, <1>10, NamesAre DEF HasStandard, Standards
  <2>2. LastToken(s) # Len(s) \/ s[Len(s)] = Comma
    BY <2>1, <1>10 DEF SharesOffset
  <2>3. CASE LastToken(s) # Len(s)
    <3>1. Tokens(s) # {} /\ Len(s) \in Nat
      BY <1>2, <1>7 DEF Has
    <3>2. LastToken(s) \in 1..Len(s) /\ \A j \in Tokens(s) : j <= LastToken(s)
      BY <3>1, <1>2, LastFound, TokensIn
    <3>3. Len(s) \notin Tokens(s) /\ Len(s) \in 1..Len(s)
      BY <3>1, <3>2, <2>3
    <3>4. QED
      BY <3>3, <1>2, TokensIn
  <2>4. QED
    BY <2>2, <2>3
<1>11. ~SharesOffset(s) => Apart(s)
  BY <1>10 DEF Apart
<1>12. QED
  BY <1>1, <1>2, <1>3, <1>9, <1>11

\* Every name is followed by a colon and a value.
LEMMA NameFollowed ==
  ASSUME NEW s \in Seq(Cells), IsArgumentList(s), NEW i \in Tokens(s), s[i] \in Names
  PROVE  \E j, k \in Tokens(s) :
           Adjacent(s, i, j) /\ s[j] = Colon /\ Adjacent(s, j, k) /\ s[k] \in Terms
<1>1. PICK l \in Tokens(s) : s[l] \in Terms \cup {Comma} /\ \A j \in Tokens(s) : j <= l
  BY DEF IsArgumentList
<1>2. \A j \in Tokens(s) : j \in Nat
  BY TokensIn
<1>3. i < l
  BY <1>1, <1>2, NotNames
<1>4. PICK j \in Tokens(s) : Adjacent(s, i, j)
  BY <1>1, <1>3, NextToken
<1>5. Joins(s[i], s[j])
  BY <1>4 DEF IsArgumentList
<1>6. s[j] = Colon
  BY <1>5, NotNames DEF Joins
<1>7. j < l
  BY <1>1, <1>2, <1>6, NotNames
<1>8. PICK k \in Tokens(s) : Adjacent(s, j, k)
  BY <1>1, <1>7, NextToken
<1>9. Joins(s[j], s[k])
  BY <1>8 DEF IsArgumentList
<1>10. s[k] \in Terms
  BY <1>6, <1>9, NotNames DEF Joins
<1>11. QED
  BY <1>4, <1>6, <1>8, <1>10

\* Between two steps of enforce(), and after it, if the two edits at the end
\* had offsets of their own.
EditInv ==
  LET late == Misplaces(original.text)
  IN  /\ outcome = "none" => manifest = original /\ original \in Written
      /\ outcome = "editing" /\ ~SharesOffset(original.text) =>
           /\ Whole(manifest.text, edits, late) \/ CommaMissing(manifest.text, edits, late)
           /\ manifest.tools <= 6 /\ manifest.target # "v5"
      /\ outcome = "strict" /\ ~SharesOffset(original.text) =>
           /\ Whole(manifest.text, edits, late) /\ edits = {}
           /\ manifest.tools = 6 /\ manifest.target # "v5"

\* Every step of enforce() keeps it.
LEMMA EditInvNext ==
  ASSUME ManifestTypeOK, EditInv, [ManifestNext]_manifestVars
  PROVE  EditInv'
<1>1. manifest \in Manifest
  BY DEF ManifestTypeOK
<1>6. PICK late : late = Misplaces(original.text)
  OBVIOUS
<1>7. original' = original
  BY DEF ManifestNext, Examine, Apply, Finish, manifestVars
<1>8. late = Misplaces(original'.text)
  BY <1>6, <1>7
<1>9. SharesOffset(original'.text) <=> SharesOffset(original.text)
  BY <1>7
<1>2. CASE Examine
  <2>1. CASE Refused(manifest)
    BY <2>1, <1>2 DEF Examine, EditInv
  <2>2. CASE ~Refused(manifest)
    <3>1. /\ edits' = PlatformEdits(manifest.text) \cup ModeEdits(manifest.text)
          /\ manifest' = manifest /\ outcome' = "editing"
          /\ outcome \in {"none", "strict"}
      BY <2>2, <1>2 DEF Examine
    <3>2. ASSUME ~SharesOffset(original.text)
          PROVE  /\ Acceptable(manifest.text, late) /\ Apart(manifest.text)
                 /\ manifest.tools <= 6 /\ manifest.target # "v5"
      <4>1. CASE outcome = "none"
        <5>1. manifest \in Written /\ manifest = original
          BY <4>1 DEF EditInv
        <5>2. IsSwift(manifest.text)
          BY <5>1, WrittenAssumption
        <5>3. /\ Acceptable(manifest.text, Misplaces(manifest.text))
              /\ ~SharesOffset(manifest.text) => Apart(manifest.text)
              /\ manifest.tools <= 6 /\ manifest.target # "v5"
          BY <5>2, <2>2, <1>1, NotRefused
        <5>4. QED
          BY <5>1, <5>3, <3>2, <1>6
      <4>2. CASE outcome = "strict"
        <5>1. /\ Whole(manifest.text, edits, late)
              /\ manifest.tools = 6 /\ manifest.target # "v5"
          BY <4>2, <3>2, <1>6 DEF EditInv
        <5>2. QED
          BY <5>1 DEF Whole
      <4>3. QED
        BY <4>1, <4>2, <3>1
    <3>3. ~SharesOffset(original.text) => Whole(manifest.text, edits', late)
      BY <3>1, <3>2 DEF Whole
    <3>4. QED
      BY <3>1, <3>2, <3>3, <1>8, <1>9 DEF EditInv
  <2>3. QED
    BY <2>1, <2>2
<1>3. CASE Apply
  <2>1. PICK e \in edits :
          /\ \A f \in edits \ {e} : Before(e, f)
          /\ manifest' = [manifest EXCEPT !.text = Insert(@, e)]
          /\ edits' = edits \ {e} /\ outcome' = "editing" /\ outcome = "editing"
    BY <1>3 DEF Apply
  <2>2. PICK s : s = manifest.text
    OBVIOUS
  <2>3. PICK t : t = Insert(s, e)
    OBVIOUS
  <2>4. manifest' = [manifest EXCEPT !.text = t]
    BY <2>1, <2>2, <2>3
  <2>5. manifest'.text = t /\ manifest'.tools = manifest.tools /\ manifest'.target = manifest.target
    BY <2>4, <1>1 DEF Manifest
  <2>6. ~SharesOffset(original.text) => Whole(s, edits, late) \/ CommaMissing(s, edits, late)
    BY <2>1, <2>2, <1>6 DEF EditInv
  <2>7. PICK P : P = edits
    OBVIOUS
  <2>8. ~SharesOffset(original.text) =>
          Whole(t, P \ {e}, late) \/ CommaMissing(t, P \ {e}, late)
    BY <2>1, <2>3, <2>6, <2>7, AppliedToWhole, AppliedComma
  <2>9. ~SharesOffset(original.text) => manifest.tools <= 6 /\ manifest.target # "v5"
    BY <2>1 DEF EditInv
  <2>10. QED
    BY <2>1, <2>5, <2>7, <2>8, <2>9, <1>8, <1>9 DEF EditInv
<1>4. CASE Finish
  <2>1. /\ manifest' = [manifest EXCEPT !.tools = IF @ < 6 THEN 6 ELSE @]
        /\ edits' = {} /\ edits = {} /\ outcome' = "strict" /\ outcome = "editing"
    BY <1>4 DEF Finish
  <2>2. ~CommaMissing(manifest.text, edits, late)
    BY <2>1 DEF CommaMissing
  <2>3. ~SharesOffset(original.text) =>
          Whole(manifest.text, edits, late) /\ manifest.tools <= 6 /\ manifest.target # "v5"
    BY <2>1, <2>2, <1>6 DEF EditInv
  <2>4. manifest.tools \in 5..7
    BY <1>1 DEF Manifest
  <2>5. manifest'.text = manifest.text /\ manifest'.target = manifest.target
    BY <2>1, <1>1 DEF Manifest
  <2>6. ~SharesOffset(original.text) => manifest'.tools = 6
    BY <2>1, <2>3, <2>4, <1>1 DEF Manifest
  <2>7. QED
    BY <2>1, <2>3, <2>5, <2>6, <1>8, <1>9 DEF EditInv
<1>5. CASE UNCHANGED manifestVars
  BY <1>5 DEF manifestVars, EditInv
<1>10. QED
  BY <1>2, <1>3, <1>4, <1>5 DEF ManifestNext

\* It holds of every behaviour.
LEMMA EditInvAlways == ManifestSpec => []EditInv
<1>1. ManifestInit => EditInv
  BY DEF ManifestInit, EditInv
<1>2. EditInv /\ ManifestTypeOK /\ [ManifestNext]_manifestVars => EditInv'
  BY EditInvNext
<1>3. QED
  BY <1>1, <1>2, ManifestTypeCorrect, PTL DEF ManifestSpec

\* An enforced manifest is an argument list with every argument once, in the
\* order of Package exactly if the platforms were not added too late, and
\* scan_swift.py accepts it: for every manifest that was Swift, if the comma and
\* the modes did not share an offset (enforce_swift6.py:50-75, scan_swift.py:81-90).
THEOREM StrictCorrect == ManifestSpec => []StrictIsSwift
<1>1. EditInv => StrictIsSwift
  <2>1. SUFFICES ASSUME EditInv, outcome = "strict", ~SharesOffset(original.text)
                 PROVE  /\ Accepts(manifest)
                        /\ IsArgumentList(manifest.text)
                        /\ \A i, j \in Starts(manifest.text) :
                             manifest.text[i] = manifest.text[j] => i = j
                        /\ InOrder(manifest.text) <=> ~Misplaces(original.text)
    BY DEF StrictIsSwift
  <2>2. PICK s : s = manifest.text
    OBVIOUS
  <2>12. PICK late : late = Misplaces(original.text)
    OBVIOUS
  <2>3. Whole(s, {}, late) /\ manifest.tools = 6 /\ manifest.target # "v5"
    BY <2>1, <2>2, <2>12 DEF EditInv
  <2>4. Acceptable(s, late) /\ ModeEdits(s) = {} /\ PlatformEdits(s) = {}
    BY <2>3 DEF Whole
  <2>5. /\ s \in Seq(Cells) /\ IsArgumentList(s) /\ Sorted(s, Loosely) /\ AllV6(s)
        /\ ~Has(s, "swiftLanguageVersions")
    BY <2>4 DEF Acceptable
  <2>6. PICK i \in Tokens(s) : s[i] = "swiftLanguageModes"
    BY <2>4, NoModeEdits DEF Has
  <2>7. PICK j, k \in Tokens(s) :
          Adjacent(s, i, j) /\ s[j] = Colon /\ Adjacent(s, j, k) /\ s[k] \in Terms
    BY <2>5, <2>6, NameFollowed, NamesAre
  <2>8. s[k] = "v6"
    BY <2>5, <2>6, <2>7 DEF AllV6
  <2>9. \A x \in Tokens(s) : s[x] # "swiftLanguageVersions"
    BY <2>5 DEF Has
  <2>10. Accepts(manifest)
    BY <2>2, <2>3, <2>6, <2>7, <2>8, <2>9 DEF Accepts
  <2>13. \A x, y \in Starts(s) : s[x] = s[y] => x = y
    BY <2>5, NamesStart, SortedOnce
  <2>14. Has(s, "platforms")
    <3>1. PlatformEdits(s) = {} => "platforms" \in Arguments(s)
      BY DEF PlatformEdits
    <3>2. QED
      BY <3>1, <2>4, NoModeEdits
  <2>15. ~InOrder(s) <=> late
    BY <2>4, <2>14 DEF Acceptable
  <2>11. QED
    BY <2>2, <2>5, <2>10, <2>12, <2>13, <2>15
<1>2. QED
  BY <1>1, EditInvAlways, PTL

\* Enforcing an enforced manifest neither refuses nor changes it, for every
\* manifest that was Swift, if the comma and the modes did not share an offset
\* (enforce_swift6.py:83-86, test_strict_swift.py:43).
THEOREM OnceCorrect == ManifestSpec => []StaysEnforced
<1>1. EditInv => StaysEnforced
  <2>1. SUFFICES ASSUME EditInv, outcome = "strict", ~SharesOffset(original.text)
                 PROVE  /\ ~Refused(manifest) /\ manifest.tools >= 6
                        /\ PlatformEdits(manifest.text) \cup ModeEdits(manifest.text) = {}
    BY DEF StaysEnforced, EnforcedOnce
  <2>2. PICK s : s = manifest.text
    OBVIOUS
  <2>14. PICK late : late = Misplaces(original.text)
    OBVIOUS
  <2>3. Whole(s, {}, late) /\ manifest.tools = 6 /\ manifest.target # "v5"
    BY <2>1, <2>2, <2>14 DEF EditInv
  <2>4. Acceptable(s, late) /\ PlatformEdits(s) \cup ModeEdits(s) = {}
    BY <2>3 DEF Whole
  <2>5. /\ s \in Seq(Cells) /\ IsArgumentList(s) /\ Sorted(s, Loosely) /\ AllV6(s)
        /\ Has(s, "targets") /\ ~Has(s, "swiftLanguageVersions")
    BY <2>4 DEF Acceptable
  <2>6. "swiftLanguageModes" \in Arguments(s)
    BY <2>4, NoModeEdits
  <2>7. "targets" \in Arguments(s) /\ "swiftLanguageVersions" \notin Arguments(s)
    BY <2>5, ArgumentsAre, NamesAre
  <2>8. \A i \in Starts(s) : i \in Tokens(s) /\ s[i] \in Names
    BY <2>5, NamesStart
  <2>9. \A i \in Starts(s) : \E j \in Tokens(s) : Adjacent(s, i, j) /\ s[j] = Colon
    BY <2>5, <2>8, NameFollowed
  <2>10. \A i, j \in Starts(s) : s[i] = s[j] => i = j
    BY <2>5, <2>8, SortedOnce
  <2>11. \A i \in Starts(s) : \A j, k \in Tokens(s) :
           s[i] = "swiftLanguageModes" /\ Adjacent(s, i, j) /\ Adjacent(s, j, k) => s[k] = "v6"
    BY <2>5, <2>8 DEF AllV6
  <2>12. ~Refused(manifest)
    BY <2>2, <2>3, <2>6, <2>7, <2>9, <2>10, <2>11 DEF Refused
  <2>13. QED
    BY <2>2, <2>3, <2>4, <2>12
<1>2. QED
  BY <1>1, EditInvAlways, PTL
===============================================================================
