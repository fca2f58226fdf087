--------------------------- MODULE SwiftManifest ---------------------------
(***************************************************************************)
(* enforce_swift6.py: a generated Package.swift is given an explicit       *)
(* Swift 6 language mode by edits at offsets of its text; scan_swift.py    *)
(* later decides whether a manifest has one.                               *)
(*                                                                         *)
(* The text is what stands between the parentheses of Package(...), as a   *)
(* sequence of cells: an argument's name, a colon, its value, a comma, or  *)
(* a line break. An offset is an index of the sequence.                    *)
(***************************************************************************)
EXTENDS Integers, Sequences

CONSTANTS
  Written   \* the manifests a generator or an owner may have written

VARIABLES
  manifest,  \* [tools, target, text]
  edits,     \* the insertions that are still to be made
  outcome,   \* of the last enforcement
  original   \* history: the manifest before the first of them

manifestVars == <<manifest, edits, outcome, original>>

\* The arguments of Package in the order Swift requires.
Order == << "name", "defaultLocalization", "platforms", "pkgConfig", "providers", "products",
            "traits", "dependencies", "targets", "swiftLanguageModes", "swiftLanguageVersions",
            "cLanguageStandard", "cxxLanguageStandard" >>

Names == {Order[i] : i \in DOMAIN Order}

Rank(name) == CHOOSE i \in DOMAIN Order : Order[i] = name

Colon == ":"

Comma == ","

Break == "\n"

Terms == {"value", "v5", "v6"}

Cells == Names \cup Terms \cup {Colon, Comma, Break}

\* An edit inserts text before an offset.
Edit(at, text) == [at |-> at, text |-> text]

Manifest == [tools : 5..7,                    \* of swift-tools-version
             target : {"none", "v5", "v6"},   \* mode of a single target
             text : Seq(Cells)]

ManifestTypeOK ==
  /\ manifest \in Manifest
  /\ edits \subseteq [at : 1..(Len(manifest.text) + 1), text : Seq(Cells)]
  /\ outcome \in {"none", "editing", "strict", "refused"}
  /\ original \in Manifest

-----------------------------------------------------------------------------
\* tokens(): what is not space, and where; the one that follows another.
Tokens(text) == {i \in DOMAIN text : text[i] # Break}

Adjacent(text, i, j) ==
  /\ i < j
  /\ \A k \in (i + 1)..(j - 1) : text[k] = Break
  /\ {i, j} \subseteq Tokens(text)

\* Tokens that begin an argument: the first one and those after a comma.
Starts(text) ==
  {i \in Tokens(text) : text[i] # Comma /\ \A j \in 1..i : Adjacent(text, j, i) => text[j] = Comma}

Arguments(text) == {text[i] : i \in Starts(text)}

\* Offset of the first argument with one of these names.
Offset(text, names) ==
  CHOOSE i \in Starts(text) :
    text[i] \in names /\ \A j \in Starts(text) : text[j] \in names => i <= j

LastToken(text) == CHOOSE i \in Tokens(text) : \A j \in Tokens(text) : j <= i

\* The arguments one of which the platforms, or the modes, are written before.
Anchors == {"products", "dependencies", "targets"}

Standards == {"cLanguageStandard", "cxxLanguageStandard"}

\* Does the token at an offset begin a line?
BeginsLine(text, at) == at > 1 /\ text[at - 1] = Break

Refused(m) ==
  \/ m.tools > 6
  \/ \E i \in Starts(m.text) : ~\E j \in Tokens(m.text) : Adjacent(m.text, i, j) /\ m.text[j] = Colon
  \/ \E i, j \in Starts(m.text) : i # j /\ m.text[i] = m.text[j]
  \/ "targets" \notin Arguments(m.text)
  \/ "swiftLanguageVersions" \in Arguments(m.text)
  \/ m.target = "v5"
  \/ \E i \in Starts(m.text) : \E j, k \in Tokens(m.text) :
       /\ m.text[i] = "swiftLanguageModes"
       /\ Adjacent(m.text, i, j) /\ Adjacent(m.text, j, k) /\ m.text[k] # "v6"
  \/ /\ "swiftLanguageModes" \notin Arguments(m.text)
     /\ Standards \cap Arguments(m.text) # {}
     /\ ~BeginsLine(m.text, Offset(m.text, Standards))

\* Mutant: the platform is added whether there is one or not.
AnotherPlatform(text) ==
  {Edit(Offset(text, Anchors), <<"platforms", Colon, "value", Comma>>)}

\* Mutant: the argument is misnamed.
MisnamedPlatform(text) ==
  IF "platforms" \in Arguments(text) THEN {}
  ELSE {Edit(Offset(text, {"targets"}), <<"platform", Colon, "value", Comma>>)}

\* On a line of its own if the argument after it is.
PlatformEdits(text) ==
  IF "platforms" \in Arguments(text) THEN {} ELSE
  LET at == Offset(text, Anchors)
  IN  {Edit(at, <<"platforms", Colon, "value", Comma>> \o
                IF BeginsLine(text, at) THEN <<Break>> ELSE <<>>)}

\* Mutant: the comma after the last argument is forgotten.
NoComma(text) ==
  IF "swiftLanguageModes" \in Arguments(text) THEN {}
  ELSE {Edit(Len(text) + 1, <<Break, "swiftLanguageModes", Colon, "v6", Break>>)}

\* Before an argument that must follow, or before the closing parenthesis.
ModeEdits(text) ==
  IF "swiftLanguageModes" \in Arguments(text) THEN {}
  ELSE IF Standards \cap Arguments(text) # {}
    THEN {Edit(Offset(text, Standards),
               <<"swiftLanguageModes", Colon, "v6", Comma, Break>>)}
    ELSE {Edit(Len(text) + 1, <<Break, "swiftLanguageModes", Colon, "v6", Break>>)} \cup
         (IF text[LastToken(text)] = Comma THEN {} ELSE {Edit(LastToken(text) + 1, <<Comma>>)})

\* enforce() refuses, or decides on its edits. It may be run any number of
\* times over the same file.
Examine ==
  /\ outcome \in {"none", "strict"}
  /\ IF Refused(manifest)
       THEN outcome' = "refused" /\ UNCHANGED edits
       ELSE /\ outcome' = "editing"
            /\ edits' = PlatformEdits(manifest.text) \cup ModeEdits(manifest.text)
  /\ UNCHANGED <<manifest, original>>

\* sorted(edits, reverse=True) compares offsets, then texts: a comma is
\* greater than a line break.
Before(e, f) == e.at > f.at \/ (e.at = f.at /\ e.text = <<Comma>> /\ f.text # <<Comma>>)

Insert(text, e) == SubSeq(text, 1, e.at - 1) \o e.text \o SubSeq(text, e.at, Len(text))

\* One turn of the loop over the sorted edits.
Apply ==
  /\ outcome = "editing"
  /\ \E e \in edits :
       /\ \A f \in edits \ {e} : Before(e, f)
       /\ manifest' = [manifest EXCEPT !.text = Insert(@, e)]
       /\ edits' = edits \ {e}
  /\ UNCHANGED <<outcome, original>>

\* The header comes last, its offset being 0; the file is written.
Finish ==
  /\ outcome = "editing"
  /\ edits = {}
  /\ manifest' = [manifest EXCEPT !.tools = IF @ < 6 THEN 6 ELSE @]
  /\ outcome' = "strict"
  /\ UNCHANGED <<edits, original>>

-----------------------------------------------------------------------------
\* scan_swift.py: whether a manifest has the Swift 6 mode.
Accepts(m) ==
  /\ m.tools >= 6
  /\ \E i, j, k \in Tokens(m.text) :
       /\ Adjacent(m.text, i, j) /\ Adjacent(m.text, j, k)
       /\ m.text[i] = "swiftLanguageModes" /\ m.text[j] = Colon /\ m.text[k] = "v6"
  /\ m.target # "v5"
  /\ \A i \in Tokens(m.text) : m.text[i] # "swiftLanguageVersions"

-----------------------------------------------------------------------------
ManifestInit ==
  manifest \in Written /\ original = manifest /\ edits = {} /\ outcome = "none"

ManifestNext == Examine \/ Apply \/ Finish

ManifestSpec == ManifestInit /\ [][ManifestNext]_manifestVars

-----------------------------------------------------------------------------
\* Swift.

\* What may follow what in an argument list: name, colon, value, comma.
Joins(c, d) ==
  \/ c \in Names /\ d = Colon
  \/ c = Colon /\ d \in Terms
  \/ c \in Terms /\ d = Comma
  \/ c = Comma /\ d \in Names

\* It begins with a name and ends with a value; one more comma may follow.
IsArgumentList(text) ==
  /\ \E i \in Tokens(text) : text[i] \in Names /\ \A j \in Tokens(text) : i <= j
  /\ \E i \in Tokens(text) : text[i] \in Terms \cup {Comma} /\ \A j \in Tokens(text) : j <= i
  /\ \A i, j \in Tokens(text) : Adjacent(text, i, j) => Joins(text[i], text[j])

\* Every argument once, in the order Package declares.
InOrder(text) ==
  \A i, j \in Tokens(text) :
    i < j /\ text[i] \in Names /\ text[j] \in Names => Rank(text[i]) < Rank(text[j])

IsSwift(text) == IsArgumentList(text) /\ InOrder(text)

\* What was written is a manifest that compiles.
ASSUME WrittenAssumption == \A m \in Written : m \in Manifest /\ IsSwift(m.text)

-----------------------------------------------------------------------------
\* Where enforce() writes something else than what is meant.

\* The closing parenthesis follows the last argument at once: the comma after
\* that argument and the modes are two edits at one offset, and the modes come
\* out before the comma (enforce_swift6.py:69-73).
SharesOffset(text) ==
  /\ Arguments(text) \cap (Standards \cup {"swiftLanguageModes"}) = {}
  /\ LastToken(text) = Len(text) /\ text[Len(text)] # Comma

\* The first anchor of the platforms comes after an argument that the platforms
\* must precede: pkgConfig, providers, or traits without products
\* (enforce_swift6.py:52).
Misplaces(text) ==
  /\ "platforms" \notin Arguments(text)
  /\ \E i \in Starts(text) :
       i < Offset(text, Anchors) /\ Rank("platforms") < Rank(text[i])

-----------------------------------------------------------------------------
\* Properties.

\* An enforced manifest has the mode that scan_swift.py looks for and is an
\* argument list the compiler can read, with every argument once; they are in
\* the order Package requires unless the platforms had to be added and
\* something that must follow them was before the place they are added at,
\* and then they are not. Excepted are manifests whose closing parenthesis
\* follows the last argument at once, if the modes are added behind that one
\* (enforce_swift6.py:50-75, scan_swift.py:81-90).
StrictIsSwift ==
  outcome = "strict" /\ ~SharesOffset(original.text) =>
    /\ Accepts(manifest)
    /\ IsArgumentList(manifest.text)
    /\ \A i, j \in Starts(manifest.text) : manifest.text[i] = manifest.text[j] => i = j
    /\ InOrder(manifest.text) <=> ~Misplaces(original.text)

\* Enforcing a manifest once more neither refuses nor changes it
\* (enforce_swift6.py:83-86, test_strict_swift.py:43).
EnforcedOnce ==
  outcome = "strict" =>
    /\ ~Refused(manifest) /\ manifest.tools >= 6
    /\ PlatformEdits(manifest.text) \cup ModeEdits(manifest.text) = {}

\* So it is if the two edits at the end had offsets of their own
\* (enforce_swift6.py:69-73).
StaysEnforced == ~SharesOffset(original.text) => EnforcedOnce
=============================================================================
