------------------------------- MODULE Readers -------------------------------
(***************************************************************************)
(* What reads a storage and does more than return what it loaded: equals,  *)
(* which loads two storages one after the other (ArcSwapAny.kt), and       *)
(* serialization (Serde.kt), whose form depends on how the storage was     *)
(* made (ArcSwapOption.kt).  Other threads store before, between and after *)
(* the steps of the one call in progress.                                  *)
(*                                                                         *)
(* Each storage is an atomic cell here: that is what ArcSwapAny implements *)
(* (ArcSwapAny_proofs, RefinesAtomicCell).                                 *)
(***************************************************************************)
EXTENDS FiniteSets, Naturals

CONSTANTS
  Storages,    \* the storages
  Contents,    \* the values they hold
  Opaque,      \* those of a class that serialization does not know
  null,        \* Kotlin's null
  MaxMoments   \* bound: how many states of the storages one call sees

ASSUME OpaqueAssumption == Opaque \subseteq Contents /\ null \notin Contents

VARIABLES
  made,        \* made[s]: the function that created storage s
  content,     \* content[s]: what s holds
  call,        \* the call in progress, or the last one and its result
  moments      \* history: the contents of all storages during that call

readersVars == <<made, content, call, moments>>

Makers == {"ArcSwap", "arcSwapOption", "arcSwapOptionEmpty", "ArcSwapOption"}

\* Mutant: the factory of empty storages forgets the flag.
FlagForgotten(maker) == maker = "arcSwapOption"

\* The flag of the constructor: the factories of optional storages set it,
\* the alias ArcSwapOption, which is the constructor, leaves it FALSE.
IsOption(maker) == maker \in {"arcSwapOption", "arcSwapOptionEmpty"}

MayHold(maker) == IF maker = "ArcSwap" THEN Contents ELSE Contents \cup {null}

\* What a storage starts with: what its maker was given, or nothing.
Made(maker) == IF maker = "arcSwapOptionEmpty" THEN {null} ELSE MayHold(maker)

Idle == [op |-> "idle"]

Token(kind, v) == [token |-> kind, value |-> v]

None == Token("none", null)

Failure == Token("failure", null)

NoStorage == [maker |-> "none", content |-> null]

-----------------------------------------------------------------------------
\* Pure parts.

\* What the serializer is told, in the tokens of SerdeTest.
Form(maker, loaded) ==
  IF loaded = null THEN None
  ELSE IF loaded \in Opaque THEN Failure
  ELSE Token(IF IsOption(maker) THEN "some" ELSE "value", loaded)

\* What ArcSwapDeserialize and ArcSwapOptionDeserialize make of these: a
\* storage, given by its maker and content, or an error.
ReadBack(reader, wire) ==
  IF reader = "ArcSwapDeserialize" /\ wire.token = "value"
  THEN [maker |-> "ArcSwap", content |-> wire.value]
  ELSE IF reader = "ArcSwapOptionDeserialize" /\ wire.token \in {"some", "none"}
  THEN [maker |-> "arcSwapOption", content |-> wire.value]
  ELSE NoStorage

-----------------------------------------------------------------------------
\* Actions.

InCall == call.op \in {"equals", "serialize"}

Start(c) ==
  /\ ~InCall
  /\ call' = c
  /\ moments' = {content}
  /\ UNCHANGED <<made, content>>

\* Another thread stores, swaps or updates.
StoreInto(s, v) ==
  /\ v \in MayHold(made[s])
  /\ content' = [content EXCEPT ![s] = v]
  /\ moments' = IF InCall THEN moments \cup {content'} ELSE moments
  /\ Cardinality(moments') <= MaxMoments
  /\ UNCHANGED <<made, call>>

\* ptr.load() of the left operand.
EqualsLeft(s, o) ==
  Start([op |-> "equals", left |-> s, right |-> o, first |-> content[s]])

\* Mutant: the storages' kinds are compared too.
KindComparing ==
  /\ call.op = "equals"
  /\ call' = [op |-> "compared", left |-> call.left, right |-> call.right,
              answer |-> /\ call.first = content[call.right]
                         /\ IsOption(made[call.left]) = IsOption(made[call.right])]
  /\ UNCHANGED <<made, content, moments>>

\* other.ptr.load(), and the comparison.
EqualsRight ==
  /\ call.op = "equals"
  /\ call' = [op |-> "compared", left |-> call.left, right |-> call.right,
              answer |-> call.first = content[call.right]]
  /\ UNCHANGED <<made, content, moments>>

\* arcSwap.load().value
SerializeLoad(s) == Start([op |-> "serialize", of |-> s, loaded |-> content[s]])

\* Mutant: the value is loaded again after the test for null.
Reloading ==
  /\ call.op = "serialize"
  /\ LET again == content[call.of] IN
       call' = [op |-> "encoded", of |-> call.of,
                wire |-> IF call.loaded # null /\ again = null THEN Failure
                         ELSE Form(made[call.of], again)]
  /\ UNCHANGED <<made, content, moments>>

\* The serializer is called, which takes as long as it takes.
Encode ==
  /\ call.op = "serialize"
  /\ call' = [op |-> "encoded", of |-> call.of, wire |-> Form(made[call.of], call.loaded)]
  /\ UNCHANGED <<made, content, moments>>

\* Somebody deserializes what was written.
Decode(reader) ==
  /\ call.op = "encoded"
  /\ call.wire # Failure
  /\ call' = [op |-> "decoded", of |-> call.of, wire |-> call.wire, reader |-> reader,
              copy |-> ReadBack(reader, call.wire)]
  /\ UNCHANGED <<made, content, moments>>

ReadersInit ==
  /\ made \in [Storages -> Makers]
  /\ content \in [Storages -> Contents \cup {null}]
  /\ \A s \in Storages : content[s] \in Made(made[s])
  /\ call = Idle
  /\ moments = {content}

ReadersNext ==
  \/ \E s \in Storages, v \in Contents \cup {null} : StoreInto(s, v)
  \/ \E s, o \in Storages : EqualsLeft(s, o)
  \/ EqualsRight
  \/ \E s \in Storages : SerializeLoad(s)
  \/ Encode
  \/ \E reader \in {"ArcSwapDeserialize", "ArcSwapOptionDeserialize"} : Decode(reader)

ReadersSpec == ReadersInit /\ [][ReadersNext]_readersVars

-----------------------------------------------------------------------------
\* Properties.

\* equals, whose two loads are not one step (ArcSwapAny.kt:224-225): when at
\* most one of two different storages changes during the call, its answer is
\* the right one at some moment of the call.  When both change, and for a
\* storage compared with itself, it promises nothing.
Steady(s) == \A p, q \in moments : p[s] = q[s]

EqualsOfAMoment ==
  call.op = "compared" /\ call.left # call.right /\ (Steady(call.left) \/ Steady(call.right)) =>
    \E p \in moments : call.answer = (p[call.left] = p[call.right])

\* Serialization writes one content the storage had during the call, and
\* fails only for one it cannot write; the matching deserializer makes a
\* storage of it that is written the same way again, whatever was stored
\* meanwhile (Serde.kt:39-54, 59-63, 83-89; SerdeTest.kt's assertTokens, which
\* writes and reads, states it for storages nobody else uses).  A storage
\* made by the alias ArcSwapOption(value) is written as its content without
\* the option, so that neither deserializer is promised to read it.
RoundTrip ==
  /\ call.op = "encoded" /\ call.wire = Failure =>
       \E p \in moments : p[call.of] \in Opaque
  /\ call.op = "decoded"
     /\ made[call.of] # "ArcSwapOption"
     /\ (made[call.of] = "ArcSwap") = (call.reader = "ArcSwapDeserialize") =>
       /\ call.copy # NoStorage
       /\ \E p \in moments : p[call.of] = call.copy.content
       /\ Form(call.copy.maker, call.copy.content) = call.wire
=============================================================================
