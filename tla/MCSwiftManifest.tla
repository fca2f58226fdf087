-------------------------- MODULE MCSwiftManifest --------------------------
(* Manifests with any of the arguments, each on a line of its own or all on *)
(* one, and the closing parenthesis on a line of its own or not.            *)
EXTENDS SwiftManifest, SequencesExt

Modes == {"v5", "v6"}

Argument(name, mode, lines) ==
  (IF lines THEN <<Break>> ELSE <<>>) \o
  <<name, ":", IF name \in {"swiftLanguageModes", "swiftLanguageVersions"} THEN mode ELSE "value">>

Text(names, mode, lines, trailing, closing) ==
  LET args == SelectSeq(Order, LAMBDA n : n \in names)
      last == Len(args)
  IN  FlattenSeq([i \in DOMAIN args |->
        Argument(args[i], mode, lines) \o (IF i < last \/ trailing THEN <<",">> ELSE <<>>)]) \o
      (IF closing THEN <<Break>> ELSE <<>>)

Laid(names, tools, target, mode, closings) ==
  {[tools |-> tools, target |-> target,
    text |-> Text({"name"} \cup names, mode, lines, trailing, closing)] :
     lines, trailing \in BOOLEAN, closing \in closings}

\* Of each kind of argument: before the platforms' anchors and after them.
Kinds == {"platforms", "pkgConfig", "products", "traits", "swiftLanguageModes",
          "cLanguageStandard", "cxxLanguageStandard"}

Few == {"platforms", "targets", "swiftLanguageModes", "swiftLanguageVersions"}

Generated(closings) ==
  UNION {Laid({"targets"} \cup names, 5, "none", "v6", closings) : names \in SUBSET Kinds}

\* Every such set in every layout, and every version and mode for a few.
MCWritten ==
  Generated(BOOLEAN) \cup
  UNION {Laid(names, t, g, m, {TRUE}) :
           names \in SUBSET Few, t \in 5..7, g \in {"none", "v5", "v6"}, m \in Modes}

\* The closing parenthesis after the last argument.
MCInline == Generated({FALSE})
=============================================================================
