----------------------------- MODULE NamesProofs -----------------------------
(***************************************************************************)
(* Proofs about Names, for texts of any length over any characters.        *)
(***************************************************************************)
EXTENDS Names, Extrema, SequenceTheorems

(* The inductive invariant. *)

LabelCharacters == Letters \cup {"-"}

SuffixCharacters == Letters \cup {"-", "."}

Label(value) == Joined(value, {"-"})

Domain(value) == Joined(value, {"-", "."})

\* What the loop over characters has written of those before position.
Written ==
    /\ Len(origin) = Len(builder)
    /\ \A k \in DOMAIN builder : origin[k] < position /\ builder[k] = text[origin[k]]
    /\ \A k \in 2 .. Len(builder) : origin[k - 1] < origin[k]
    /\ \A p \in 1 .. position - 1 :
          text[p] \in Letters => \E k \in DOMAIN builder : origin[k] = p

\* No two hyphens follow each other, and previousHyphen says so of the next.
SingleHyphens ==
    /\ previousHyphen <=> builder # <<>> /\ builder[Len(builder)] = "-"
    /\ \A k \in 2 .. Len(builder) : {builder[k - 1], builder[k]} # {"-"}

\* No hyphen is dropped after a letter.
HyphensKept ==
    /\ \A k \in 2 .. Len(builder) :
          {builder[k - 1], builder[k]} \subseteq Letters =>
              \A p \in origin[k - 1] + 1 .. origin[k] - 1 : text[p] # "-"
    /\ builder # <<>> /\ builder[Len(builder)] \in Letters =>
          \A p \in origin[Len(builder)] + 1 .. position - 1 : text[p] # "-"

\* A label is written as it is.
Copied ==
    Label(text) => Len(builder) = position - 1 /\ \A k \in DOMAIN builder : builder[k] = text[k]

LoopInv == call = "running" => Written /\ SingleHyphens /\ HyphensKept /\ Copied

\* What the loop has returned: LabelsKeepTheLetters, and a label as it is.
ReturnInv == LabelsKeepTheLetters /\ (call = "returned" /\ Label(text) => label = text)

HostnameInv ==
    /\ stage = "hostname" => /\ call # "none" /\ text = Reading(input.name)
                             /\ from = 1 /\ suffix = <<>>
    /\ stage \in {"suffix", "label", "served", "refused"} => Label(hostname)
    /\ stage = "left out" => ~HasLetter(input.name)

\* A letter of the parts so far is in what they were joined to, or in the text
\* that the loop is called for.
LettersInv ==
    stage = "suffix" /\ suffix = <<>> =>
        \A k \in 1 .. from - 1 :
            k \in DOMAIN Value /\ Value[k] \in Letters =>
                call # "none" /\ \E p \in DOMAIN text : text[p] \in Letters

\* Of a suffix in its normal form, the parts so far are joined to what they were.
UnchangedInv ==
    stage = "suffix" /\ Domain(Value) =>
        /\ from > 1 => from - 1 = Len(Value) + 1 \/ Value[from - 1] = "."
        /\ call = "none" => suffix = SubSeq(Value, 1, from - 2)
        /\ call # "none" =>
              Label(text) /\ Joining(suffix, text) = SubSeq(Value, 1, from - 2)

SuffixInv ==
    /\ suffix # <<>> => Domain(suffix)
    /\ stage \in {"label", "served"} =>
          suffix # <<>> /\ (Domain(input.suffix) => suffix = input.suffix)
    /\ stage = "refused" => ~HasLetter(input.suffix)

LabelInv ==
    /\ call # "none" => stage \in {"hostname", "suffix", "label"}
    /\ stage = "label" => call # "none" /\ text = hostname
    /\ stage = "served" => label = hostname

IInv == /\ TypeOK /\ LoopInv /\ ReturnInv /\ HostnameInv
        /\ LettersInv /\ UnchangedInv /\ SuffixInv /\ LabelInv

-----------------------------------------------------------------------------
(* Characters and texts. *)

LEMMA CharactersDiffer ==
  /\ "-" # "_" /\ "-" # "." /\ "_" # "."
  /\ "-" \notin Letters /\ "_" \notin Letters /\ "." \notin Letters
  /\ "-" \notin Capitals /\ "_" \notin Capitals /\ "." \notin Capitals
  /\ Letters \cap Capitals = {} /\ (Letters \cup Capitals) \cap Blanks = {}
<1>1. "-" \in Marks /\ "_" \in Marks /\ "." \in Marks
  BY Zenon DEF Marks
<1>2. "-" # "_" /\ "-" # "." /\ "_" # "."
  BY Zenon
<1> QED
  BY <1>1, <1>2, CharacterAssumption

LEMMA LowerIs ==
  ASSUME NEW c \in Characters
  PROVE  /\ Lower(c) \in Characters
         /\ c \in Letters => Lower(c) = c
         /\ c \in Marks => Lower(c) = c
<1>1. CASE c \in Capitals
  <2>1. Lower(c) \in Letters
    BY <1>1, CharacterAssumption DEF Lower
  <2> QED
    BY <1>1, <2>1, CharacterAssumption DEF Characters
<1>2. CASE c \notin Capitals
  BY <1>2 DEF Lower
<1> QED
  BY <1>1, <1>2

\* A text mapped character by character.
LEMMA ToLowerIs ==
  ASSUME NEW value \in Seq(Characters)
  PROVE  /\ ToLower(value) \in Seq(Characters)
         /\ Len(ToLower(value)) = Len(value)
         /\ \A k \in 1 .. Len(value) : ToLower(value)[k] = Lower(value[k])
<1>1. Len(value) \in Nat /\ DOMAIN value = 1 .. Len(value)
  BY LenProperties
<1>2. \A k \in 1 .. Len(value) : Lower(value[k]) \in Characters
  BY ElementOfSeq, LowerIs
<1>3. ToLower(value) \in [1 .. Len(value) -> Characters]
  BY <1>1, <1>2 DEF ToLower
<1>4. ToLower(value) \in Seq(Characters)
  BY <1>1, <1>3, SeqDef
<1> QED
  BY <1>1, <1>3, <1>4, LenProperties DEF ToLower

LEMMA HyphenatedIs ==
  ASSUME NEW value \in Seq(Characters)
  PROVE  /\ Hyphenated(value) \in Seq(Characters)
         /\ Len(Hyphenated(value)) = Len(value)
         /\ \A k \in 1 .. Len(value) :
               Hyphenated(value)[k] = IF value[k] = "_" THEN "-" ELSE value[k]
<1>1. Len(value) \in Nat /\ DOMAIN value = 1 .. Len(value)
  BY LenProperties
<1>2. "-" \in Characters
  BY Zenon DEF Characters, Marks
<1>3. \A k \in 1 .. Len(value) : (IF value[k] = "_" THEN "-" ELSE value[k]) \in Characters
  BY <1>2, ElementOfSeq
<1>4. Hyphenated(value) \in [1 .. Len(value) -> Characters]
  BY <1>1, <1>3 DEF Hyphenated
<1>5. Hyphenated(value) \in Seq(Characters)
  BY <1>1, <1>4, SeqDef
<1>6. Len(Hyphenated(value)) = Len(value)
  BY <1>1, <1>4, <1>5, LenProperties
<1>7. \A k \in 1 .. Len(value) :
         Hyphenated(value)[k] = IF value[k] = "_" THEN "-" ELSE value[k]
  BY <1>1 DEF Hyphenated
<1> QED
  BY <1>5, <1>6, <1>7

\* What strings.Trim and the like return: nothing, or all from the first to the
\* last position that is kept.
LEMMA BetweenIs ==
  ASSUME NEW S, NEW value \in Seq(S), NEW kept \in SUBSET (1 .. Len(value))
  PROVE  /\ Between(value, kept) \in Seq(S)
         /\ kept = {} => Between(value, kept) = <<>>
         /\ kept # {} =>
               /\ Min(kept) \in kept /\ Max(kept) \in kept
               /\ \A k \in kept : Min(kept) <= k /\ k <= Max(kept)
               /\ Len(Between(value, kept)) = Max(kept) - Min(kept) + 1
               /\ \A i \in 1 .. Max(kept) - Min(kept) + 1 :
                     Between(value, kept)[i] = value[Min(kept) + i - 1]
<1>1. Len(value) \in Nat
  BY LenProperties
<1>2. CASE kept = {}
  BY <1>2, EmptySeq DEF Between
<1>3. CASE kept # {}
  <2>1. Min(kept) \in kept /\ \A k \in kept : Min(kept) <= k
    <3>1. kept \in SUBSET Nat
      BY <1>1
    <3> QED
      BY <1>3, <3>1, MinOfNaturals
  <2>2. Max(kept) \in kept /\ \A k \in kept : k <= Max(kept)
    BY <1>1, <1>3, MaxOfInterval
  <2>3. PICK lo \in 1 .. Len(value), hi \in 1 .. Len(value) :
           lo = Min(kept) /\ hi = Max(kept) /\ lo <= hi
    BY <2>1, <2>2
  <2>4. \A i \in lo .. hi : value[i] \in S
    BY <1>1, ElementOfSeq
  <2>5. /\ SubSeq(value, lo, hi) \in Seq(S)
        /\ Len(SubSeq(value, lo, hi)) = hi - lo + 1
        /\ \A i \in 1 .. hi - lo + 1 : SubSeq(value, lo, hi)[i] = value[lo + i - 1]
    BY <2>3, <2>4, SubSeqProperties
  <2>6. Between(value, kept) = SubSeq(value, lo, hi)
    BY <1>3, <2>3 DEF Between
  <2> QED
    BY <1>3, <2>1, <2>2, <2>3, <2>5, <2>6
<1> QED
  BY <1>2, <1>3

\* Trim loses no character but those of the cutset, and adds none.
LEMMA TrimKeeps ==
  ASSUME NEW S, NEW value \in Seq(S), NEW cutset
  PROVE  /\ Trim(value, cutset) \in Seq(S)
         /\ \A k \in 1 .. Len(value) :
               value[k] \notin cutset =>
                   \E j \in 1 .. Len(Trim(value, cutset)) : Trim(value, cutset)[j] = value[k]
<1>1. Len(value) \in Nat /\ DOMAIN value = 1 .. Len(value)
  BY LenProperties
<1> DEFINE kept == Kept(value, cutset)
           trimmed == Between(value, kept)
<1>2. kept \in SUBSET (1 .. Len(value))
  BY <1>1 DEF Kept
<1>3. Trim(value, cutset) = trimmed
  BY DEF Trim
<1>4. trimmed \in Seq(S)
  BY <1>2, BetweenIs
<1>5. ASSUME NEW k \in 1 .. Len(value), value[k] \notin cutset
      PROVE  \E j \in 1 .. Len(trimmed) : trimmed[j] = value[k]
  <2>1. k \in kept
    BY <1>1, <1>5 DEF Kept
  <2> HIDE DEF kept, trimmed
  <2>2. PICK lo \in 1 .. Len(value), hi \in 1 .. Len(value) :
           /\ lo <= k /\ k <= hi
           /\ Len(trimmed) = hi - lo + 1
           /\ \A i \in 1 .. hi - lo + 1 : trimmed[i] = value[lo + i - 1]
    BY <1>2, <2>1, BetweenIs DEF trimmed
  <2>3. k - lo + 1 \in 1 .. Len(trimmed) /\ lo + (k - lo + 1) - 1 = k
    BY <1>1, <2>2
  <2> QED
    BY <2>2, <2>3
<1> QED
  BY <1>3, <1>4, <1>5

\* A text whose ends stay is not changed.
LEMMA TrimOfEnds ==
  ASSUME NEW S, NEW value \in Seq(S), value # <<>>, NEW cutset,
         value[1] \notin cutset, value[Len(value)] \notin cutset
  PROVE  Trim(value, cutset) = value
<1>1. Len(value) \in Nat \ {0} /\ DOMAIN value = 1 .. Len(value)
  BY EmptySeq, LenProperties
<1> DEFINE kept == Kept(value, cutset)
<1>2. kept \in SUBSET (1 .. Len(value)) /\ 1 \in kept /\ Len(value) \in kept
  BY <1>1 DEF Kept
<1>3. Trim(value, cutset) = Between(value, kept)
  BY DEF Trim
<1> HIDE DEF kept
<1>4. Min(kept) = 1 /\ Max(kept) = Len(value)
  <2>1. /\ Min(kept) \in kept /\ Max(kept) \in kept
        /\ \A k \in kept : Min(kept) <= k /\ k <= Max(kept)
    BY <1>2, BetweenIs
  <2>2. PICK lo \in 1 .. Len(value), hi \in 1 .. Len(value) :
           lo = Min(kept) /\ hi = Max(kept)
    BY <1>2, <2>1
  <2>3. lo <= 1 /\ Len(value) <= hi
    BY <1>2, <2>1, <2>2
  <2> QED
    BY <1>1, <2>2, <2>3
<1>5. Between(value, kept) = SubSeq(value, 1, Len(value))
  BY <1>2, <1>4 DEF Between
<1> QED
  BY <1>3, <1>5, SubSeqFull

-----------------------------------------------------------------------------
(* What is read of a value, and values in their normal form. *)

LEMMA JoinedIs ==
  ASSUME NEW value \in Seq(Characters), NEW joints, Joined(value, joints)
  PROVE  /\ Len(value) \in Nat \ {0}
         /\ value[1] \in Letters /\ value[Len(value)] \in Letters
         /\ \A k \in 1 .. Len(value) : value[k] \in Letters \cup joints
<1>1. Len(value) \in Nat \ {0} /\ DOMAIN value = 1 .. Len(value)
  BY EmptySeq, LenProperties DEF Joined
<1>2. 0 \notin DOMAIN value /\ Len(value) + 1 \notin DOMAIN value
  BY <1>1
<1>3. 1 \in DOMAIN value /\ Len(value) \in DOMAIN value /\ 1 - 1 = 0
  BY <1>1
<1> QED
  BY <1>1, <1>2, <1>3 DEF Joined

\* None of strings.TrimSpace, ToLower and Trim changes a normal form.
LEMMA NormalIsKept ==
  ASSUME NEW value \in Seq(Characters), Domain(value)
  PROVE  TrimSpace(value) = value /\ ToLower(value) = value /\ Trim(value, {"."}) = value
<1>1. /\ Len(value) \in Nat \ {0} /\ value # <<>>
      /\ value[1] \in Letters /\ value[Len(value)] \in Letters
      /\ \A k \in 1 .. Len(value) : value[k] \in Letters \cup {"-", "."}
  BY JoinedIs DEF Domain, Joined
<1>2. TrimSpace(value) = value
  BY <1>1, CharactersDiffer, TrimOfEnds DEF TrimSpace
<1>3. Trim(value, {"."}) = value
  BY <1>1, CharactersDiffer, TrimOfEnds
<1>4. \A k \in 1 .. Len(value) : ToLower(value)[k] = value[k]
  <2>1. "-" \in Marks /\ "." \in Marks
    BY Zenon DEF Marks
  <2>2. \A k \in 1 .. Len(value) : value[k] \in Letters \cup Marks /\ value[k] \in Characters
    BY <1>1, <2>1, ElementOfSeq
  <2> QED
    BY <2>2, ToLowerIs, LowerIs
<1>5. ToLower(value) = value
  BY <1>4, ToLowerIs, SeqEqual
<1> QED
  BY <1>2, <1>3, <1>5

LEMMA LabelIsDomain ==
  ASSUME NEW value, Label(value)
  PROVE  Domain(value)
BY DEF Label, Domain, Joined

LEMMA ReadingIs ==
  ASSUME NEW value \in Seq(Characters)
  PROVE  /\ Reading(value) \in Seq(Characters)
         /\ HasLetter(value) => \E p \in DOMAIN Reading(value) : Reading(value)[p] \in Letters
         /\ Label(value) => Reading(value) = value
<1> DEFINE trimmed == TrimSpace(value)
           lower == ToLower(trimmed)
<1>1. trimmed \in Seq(Characters)
  BY TrimKeeps DEF TrimSpace
<1>2. lower \in Seq(Characters)
  BY <1>1, ToLowerIs
<1>3. Reading(value) = Hyphenated(lower)
  BY DEF Reading
<1>4. Reading(value) \in Seq(Characters)
  BY <1>2, <1>3, HyphenatedIs
<1>5. ASSUME HasLetter(value)
      PROVE  \E p \in DOMAIN Reading(value) : Reading(value)[p] \in Letters
  <2>1. PICK k \in DOMAIN value : Lower(value[k]) \in Letters
    BY <1>5 DEF HasLetter
  <2>2. k \in 1 .. Len(value)
    BY LenProperties
  <2>3. value[k] \in Letters \cup Capitals
    BY <2>1 DEF Lower
  <2>4. value[k] \notin Blanks
    BY <2>3, CharactersDiffer
  <2>5. PICK j \in 1 .. Len(trimmed) : trimmed[j] = value[k]
    BY <2>2, <2>4, TrimKeeps DEF TrimSpace
  <2> HIDE DEF trimmed
  <2>6. j \in 1 .. Len(lower) /\ lower[j] \in Letters
    BY <1>1, <2>1, <2>5, ToLowerIs
  <2> HIDE DEF lower
  <2>7. lower[j] # "_"
    BY <2>6, CharactersDiffer
  <2>8. /\ j \in 1 .. Len(Hyphenated(lower))
        /\ Hyphenated(lower)[j] \in Letters
    BY <1>2, <2>6, <2>7, HyphenatedIs
  <2> QED
    BY <1>3, <1>4, <2>8, LenProperties
<1>6. ASSUME Label(value) PROVE Reading(value) = value
  <2>1. lower = value
    BY <1>6, LabelIsDomain, NormalIsKept
  <2>2. \A k \in 1 .. Len(value) : value[k] \in Letters \cup {"-"}
    BY <1>6, JoinedIs DEF Label
  <2> HIDE DEF lower
  <2>3. \A k \in 1 .. Len(value) : Hyphenated(value)[k] = value[k]
    BY <2>2, HyphenatedIs, CharactersDiffer
  <2>4. Hyphenated(value) = value
    BY <2>3, HyphenatedIs, SeqEqual
  <2> QED
    BY <1>3, <2>1, <2>4
<1> QED
  BY <1>4, <1>5, <1>6

LEMMA ValueIs ==
  ASSUME TypeOK
  PROVE  /\ input.name \in Seq(Characters) /\ input.suffix \in Seq(Characters)
         /\ Value \in Seq(Characters)
         /\ Len(Value) \in Nat /\ DOMAIN Value = 1 .. Len(Value)
         /\ HasLetter(input.suffix) => \E k \in DOMAIN Value : Value[k] \in Letters
         /\ Domain(input.suffix) => Value = input.suffix
<1> DEFINE trimmed == TrimSpace(input.suffix)
           lower == ToLower(trimmed)
<1>1. input.name \in Seq(Characters) /\ input.suffix \in Seq(Characters)
  BY InputAssumption DEF TypeOK
<1>2. trimmed \in Seq(Characters)
  BY <1>1, TrimKeeps DEF TrimSpace
<1>3. lower \in Seq(Characters)
  BY <1>2, ToLowerIs
<1>4. Value = Trim(lower, {"."})
  BY DEF Value
<1>5. Value \in Seq(Characters)
  BY <1>3, <1>4, TrimKeeps
<1>6. Len(Value) \in Nat /\ DOMAIN Value = 1 .. Len(Value)
  BY <1>5, LenProperties
<1>7. ASSUME HasLetter(input.suffix)
      PROVE  \E k \in DOMAIN Value : Value[k] \in Letters
  <2>1. PICK k \in DOMAIN input.suffix : Lower(input.suffix[k]) \in Letters
    BY <1>7 DEF HasLetter
  <2>2. k \in 1 .. Len(input.suffix)
    BY <1>1, LenProperties
  <2>3. input.suffix[k] \in Letters \cup Capitals
    BY <2>1 DEF Lower
  <2>4. input.suffix[k] \notin Blanks
    BY <2>3, CharactersDiffer
  <2>5. PICK j \in 1 .. Len(trimmed) : trimmed[j] = input.suffix[k]
    BY <1>1, <2>2, <2>4, TrimKeeps DEF TrimSpace
  <2> HIDE DEF trimmed
  <2>6. j \in 1 .. Len(lower) /\ lower[j] \in Letters
    BY <1>2, <2>1, <2>5, ToLowerIs
  <2> HIDE DEF lower
  <2>7. lower[j] \notin {"."}
    BY <2>6, CharactersDiffer
  <2>8. PICK i \in 1 .. Len(Value) : Value[i] = lower[j]
    BY <1>3, <1>4, <2>6, <2>7, TrimKeeps
  <2> QED
    BY <1>6, <2>6, <2>8
<1>8. Domain(input.suffix) => Value = input.suffix
  BY <1>1, <1>4, NormalIsKept
<1> QED
  BY <1>1, <1>5, <1>6, <1>7, <1>8

-----------------------------------------------------------------------------
(* Type correctness. *)

LEMMA LabelTexts ==
  /\ Seq(LabelCharacters) \subseteq Seq(Characters)
  /\ Seq(LabelCharacters) \subseteq Seq(SuffixCharacters)
  /\ Seq(SuffixCharacters) \subseteq Seq(Characters)
<1>1. "-" \in Characters /\ "." \in Characters
  BY Zenon DEF Characters, Marks
<1>2. Letters \subseteq Characters
  BY DEF Characters
<1>3. LabelCharacters \subseteq Characters /\ SuffixCharacters \subseteq Characters
  BY <1>1, <1>2 DEF LabelCharacters, SuffixCharacters
<1>4. LabelCharacters \subseteq SuffixCharacters
  BY Zenon DEF LabelCharacters, SuffixCharacters
<1> QED
  BY <1>3, <1>4, SeqMonotonic

\* A part of the suffix ends before the next dot, or with the suffix.
LEMMA PartEndIs ==
  ASSUME TypeOK, from <= Len(Value) + 1
  PROVE  /\ PartEnd \in from .. Len(Value) + 1
         /\ PartEnd = Len(Value) + 1 \/ (PartEnd \in 1 .. Len(Value) /\ Value[PartEnd] = ".")
         /\ \A k \in from .. PartEnd - 1 : k \in 1 .. Len(Value) /\ Value[k] # "."
<1>1. Len(Value) \in Nat /\ from \in 1 .. Len(Value) + 1
  <2>1. Len(Value) \in Nat
    BY ValueIs
  <2>2. from \in 1 .. Len(Value) + 2
    BY DEF TypeOK
  <2> QED
    BY <2>1, <2>2
<1> DEFINE ends == {k \in from .. Len(Value) : Value[k] = "."} \cup {Len(Value) + 1}
<1>2. ends \in SUBSET Nat /\ ends # {}
  BY <1>1
<1>3. Min(ends) \in ends /\ \A k \in ends : Min(ends) <= k
  BY <1>2, MinOfNaturals
<1>4. PartEnd = Min(ends)
  BY DEF PartEnd
<1>5. PartEnd \in from .. Len(Value) + 1
  BY <1>1, <1>3, <1>4
<1>6. PartEnd = Len(Value) + 1 \/ (PartEnd \in 1 .. Len(Value) /\ Value[PartEnd] = ".")
  BY <1>1, <1>3, <1>4
<1>7. ASSUME NEW k \in from .. PartEnd - 1 PROVE k \in 1 .. Len(Value) /\ Value[k] # "."
  <2>1. k \in from .. Len(Value) /\ ~(PartEnd <= k)
    BY <1>1, <1>5
  <2> QED
    BY <1>1, <1>3, <1>4, <2>1
<1> QED
  BY <1>5, <1>6, <1>7

LEMMA PartIs ==
  ASSUME TypeOK, from <= Len(Value) + 1
  PROVE  /\ SubSeq(Value, from, PartEnd - 1) \in Seq(Characters)
         /\ Len(SubSeq(Value, from, PartEnd - 1)) = PartEnd - from
         /\ \A i \in 1 .. PartEnd - from :
               SubSeq(Value, from, PartEnd - 1)[i] = Value[from + i - 1]
<1>1. from \in Int /\ PartEnd \in Int /\ from <= PartEnd
  <2>1. Len(Value) \in Nat
    BY ValueIs
  <2>2. from \in 1 .. Len(Value) + 2
    BY DEF TypeOK
  <2> QED
    BY <2>1, <2>2, PartEndIs
<1>2. \A k \in from .. PartEnd - 1 : Value[k] \in Characters
  BY PartEndIs, ValueIs, ElementOfSeq
<1> QED
  BY <1>1, <1>2, SubSeqProperties

LEMMA CallIsTyped ==
  ASSUME NEW value \in Seq(Characters), Call(value)
  PROVE  /\ text' \in Seq(Characters)
         /\ position' \in 1 .. Len(text') + 1
         /\ builder' \in Seq(Letters \cup {"-"})
         /\ previousHyphen' \in BOOLEAN
         /\ origin' \in Seq(DOMAIN text')
         /\ call' \in {"none", "running", "returned"}
<1>1. Reading(value) \in Seq(Characters)
  BY ReadingIs
<1>2. Len(Reading(value)) \in Nat
  BY <1>1, LenProperties
<1>3. 1 \in 1 .. Len(Reading(value)) + 1
  BY <1>2
<1>4. \A S : <<>> \in Seq(S)
  BY EmptySeq
<1> QED
  BY <1>1, <1>3, <1>4 DEF Call

LEMMA TurnIsTyped ==
  ASSUME TypeOK, Turn
  PROVE  TypeOK'
<1>1. /\ text \in Seq(Characters) /\ Len(text) \in Nat /\ DOMAIN text = 1 .. Len(text)
      /\ position \in 1 .. Len(text)
  <2>1. text \in Seq(Characters) /\ position \in 1 .. Len(text) + 1 /\ position <= Len(text)
    BY DEF TypeOK, Turn, AtCharacter
  <2> QED
    BY <2>1, LenProperties
<1>2. position \in DOMAIN text
  BY <1>1
<1>3. ASSUME NEW hyphen \in BOOLEAN, text[position] \in Letters \cup {"-"}, Write(hyphen)
      PROVE  /\ builder' \in Seq(Letters \cup {"-"})
             /\ origin' \in Seq(DOMAIN text)
             /\ previousHyphen' \in BOOLEAN
  BY <1>2, <1>3, AppendProperties DEF TypeOK, Write
<1>4. /\ builder' \in Seq(Letters \cup {"-"})
      /\ origin' \in Seq(DOMAIN text)
      /\ previousHyphen' \in BOOLEAN
  BY <1>3 DEF TypeOK, Turn
<1>5. Value' = Value
  BY DEF Turn, Value
<1>6. position' \in 1 .. Len(text) + 1
  BY <1>1 DEF Turn
<1> QED
  BY <1>4, <1>5, <1>6 DEF TypeOK, Turn

LEMMA ReturnIsTyped ==
  ASSUME TypeOK, Return(Kept(builder, {"-"}))
  PROVE  TypeOK'
<1>1. DOMAIN builder = 1 .. Len(builder)
  BY LenProperties DEF TypeOK
<1>2. Kept(builder, {"-"}) \in SUBSET (1 .. Len(builder))
  BY <1>1 DEF Kept
<1>3. label' \in Seq(Letters \cup {"-"})
  BY <1>2, BetweenIs DEF TypeOK, Return
<1>4. Value' = Value
  BY DEF Return, Value
<1> QED
  BY <1>3, <1>4 DEF TypeOK, Return, loopVars

LEMMA JoiningIsTyped ==
  ASSUME NEW parts \in Seq(SuffixCharacters), NEW part \in Seq(LabelCharacters)
  PROVE  Joining(parts, part) \in Seq(SuffixCharacters)
<1>1. part \in Seq(SuffixCharacters)
  BY LabelTexts
<1>2. "." \in SuffixCharacters
  BY Zenon DEF SuffixCharacters
<1>3. <<".">> \in Seq(SuffixCharacters)
  BY <1>2
<1>4. parts \o <<".">> \in Seq(SuffixCharacters)
  BY <1>3, ConcatProperties
<1>5. (parts \o <<".">>) \o part \in Seq(SuffixCharacters)
  BY <1>1, <1>4, ConcatProperties
<1> QED
  BY <1>1, <1>5 DEF Joining

LEMMA NextIsTyped ==
  ASSUME TypeOK, [Next]_vars
  PROVE  TypeOK'
<1>1. input' = input /\ Value' = Value
  <2>1. input' = input
    BY DEF Next, HostnameTurn, LabelTurn, Turn, HostnameReturns, LabelReturns, Return,
           validateResolvedHostname, NextPart, PartReturned, RefuseSuffix, LabelHostname,
           FormDomain, vars
  <2> QED
    BY <2>1 DEF Value
<1>2. CASE HostnameTurn \/ LabelTurn
  BY <1>2, TurnIsTyped DEF HostnameTurn, LabelTurn
<1>3. CASE HostnameReturns \/ LabelReturns
  BY <1>3, ReturnIsTyped DEF HostnameReturns, LabelReturns
<1>4. CASE validateResolvedHostname
  BY <1>1, <1>4 DEF validateResolvedHostname, TypeOK, loopVars
<1>5. CASE NextPart
  <2>1. from <= Len(Value) + 1
    BY <1>5 DEF NextPart
  <2>2. from' \in 1 .. Len(Value) + 2
    BY <1>5, <2>1, PartEndIs, ValueIs DEF NextPart, TypeOK
  <2>3. Call(SubSeq(Value, from, PartEnd - 1))
    BY <1>5 DEF NextPart
  <2>4. SubSeq(Value, from, PartEnd - 1) \in Seq(Characters)
    BY <2>1, PartIs
  <2> QED
    BY <1>1, <1>5, <2>2, <2>3, <2>4, CallIsTyped DEF NextPart, TypeOK
<1>6. CASE PartReturned
  <2>1. suffix' \in Seq(Letters \cup {"-", "."})
    BY <1>6, JoiningIsTyped DEF PartReturned, TypeOK, SuffixCharacters, LabelCharacters
  <2> QED
    BY <1>1, <1>6, <2>1 DEF PartReturned, TypeOK, loopVars
<1>7. CASE RefuseSuffix
  BY <1>1, <1>7 DEF RefuseSuffix, TypeOK, loopVars
<1>8. CASE LabelHostname
  <2>1. hostname \in Seq(Characters)
    BY LabelTexts DEF TypeOK, LabelCharacters
  <2> QED
    BY <1>1, <1>8, <2>1, CallIsTyped DEF LabelHostname, TypeOK
<1>9. CASE FormDomain
  BY <1>1, <1>9 DEF FormDomain, TypeOK, loopVars
<1>10. CASE UNCHANGED vars
  BY <1>1, <1>10 DEF vars, TypeOK
<1> QED
  BY <1>2, <1>3, <1>4, <1>5, <1>6, <1>7, <1>8, <1>9, <1>10 DEF Next

-----------------------------------------------------------------------------
(* The loop over characters. *)

\* The loop begins with nothing written.
LEMMA CallBegins ==
  ASSUME NEW value \in Seq(Characters), Call(value)
  PROVE  LoopInv'
<1>1. builder' = <<>> /\ origin' = <<>> /\ Len(<<>>) = 0 /\ DOMAIN <<>> = {}
  BY DEF Call
<1>2. position' = 1 /\ previousHyphen' = FALSE
  BY DEF Call
<1>3. Written'
  BY <1>1, <1>2 DEF Written
<1>4. SingleHyphens'
  BY <1>1, <1>2 DEF SingleHyphens
<1>5. HyphensKept'
  BY <1>1, <1>2 DEF HyphensKept
<1>6. Copied'
  BY <1>1, <1>2 DEF Copied
<1> QED
  BY <1>3, <1>4, <1>5, <1>6 DEF LoopInv

\* What a turn that writes makes of the texts.
LEMMA WriteIs ==
  ASSUME TypeOK, LoopInv, AtCharacter, text[position] \in Letters \cup {"-"},
         NEW hyphen \in BOOLEAN, Write(hyphen)
  PROVE  LET n == Len(builder) IN
         /\ n \in Nat /\ DOMAIN builder = 1 .. n /\ position \in 1 .. Len(text)
         /\ Len(builder') = n + 1 /\ Len(origin') = n + 1 /\ DOMAIN builder' = 1 .. n + 1
         /\ \A k \in 1 .. n : builder'[k] = builder[k] /\ origin'[k] = origin[k]
         /\ builder'[n + 1] = text[position] /\ origin'[n + 1] = position
<1>1. /\ builder \in Seq(LabelCharacters) /\ origin \in Seq(DOMAIN text)
      /\ text \in Seq(Characters) /\ position \in 1 .. Len(text) + 1
  BY DEF TypeOK, LabelCharacters
<1>2. position \in 1 .. Len(text) /\ position \in DOMAIN text
  <2>1. Len(text) \in Nat /\ DOMAIN text = 1 .. Len(text)
    BY <1>1, LenProperties
  <2> QED
    BY <1>1, <2>1 DEF AtCharacter
<1>3. text[position] \in LabelCharacters
  BY DEF LabelCharacters
<1>4. Len(origin) = Len(builder)
  BY DEF LoopInv, Written, AtCharacter
<1>5. builder' = Append(builder, text[position]) /\ origin' = Append(origin, position)
  BY DEF Write
<1>6. Len(builder) \in Nat /\ DOMAIN builder = 1 .. Len(builder)
  BY <1>1, LenProperties
<1>7. /\ builder' \in Seq(LabelCharacters)
      /\ Len(builder') = Len(builder) + 1
      /\ \A k \in 1 .. Len(builder) : builder'[k] = builder[k]
      /\ builder'[Len(builder) + 1] = text[position]
  BY <1>1, <1>3, <1>5, AppendProperties
<1>8. /\ Len(origin') = Len(builder) + 1
      /\ \A k \in 1 .. Len(builder) : origin'[k] = origin[k]
      /\ origin'[Len(builder) + 1] = position
  BY <1>1, <1>2, <1>4, <1>5, AppendProperties
<1>9. DOMAIN builder' = 1 .. Len(builder) + 1
  BY <1>7, LenProperties
<1> QED
  BY <1>2, <1>6, <1>7, <1>8, <1>9

\* A turn that writes keeps the invariant of the loop, if it says of hyphens
\* what is so and writes no second one.
LEMMA WritingKeepsLoopInv ==
  ASSUME TypeOK, LoopInv, Turn, NEW hyphen \in BOOLEAN, Write(hyphen),
         \/ text[position] \in Letters /\ ~hyphen
         \/ text[position] = "-" /\ ~previousHyphen /\ hyphen
  PROVE  LoopInv'
<1> DEFINE n == Len(builder)
<1>1. AtCharacter /\ call = "running" /\ text' = text /\ position' = position + 1
  BY DEF Turn, AtCharacter
<1>2. previousHyphen' = hyphen
  BY DEF Write
<1>3. Written /\ SingleHyphens /\ HyphensKept /\ Copied
  BY <1>1 DEF LoopInv
<1>4. text[position] \in Letters \cup {"-"}
  OBVIOUS
<1>5. /\ n \in Nat /\ DOMAIN builder = 1 .. n /\ position \in 1 .. Len(text)
      /\ Len(builder') = n + 1 /\ Len(origin') = n + 1 /\ DOMAIN builder' = 1 .. n + 1
      /\ \A k \in 1 .. n : builder'[k] = builder[k] /\ origin'[k] = origin[k]
      /\ builder'[n + 1] = text[position] /\ origin'[n + 1] = position
  BY <1>1, <1>4, WriteIs
<1>6. \A k \in 1 .. n : origin[k] < position /\ builder[k] = text[origin[k]]
  BY <1>3, <1>5 DEF Written
<1>7. position \in Int
  BY <1>5
<1>8. \A k \in 1 .. n : origin[k] \in Int
  <2>1. origin \in Seq(DOMAIN text) /\ Len(origin) = n /\ DOMAIN text \subseteq Int
    <3>1. text \in Seq(Characters) /\ origin \in Seq(DOMAIN text)
      BY DEF TypeOK
    <3> QED
      BY <1>3, <3>1, LenProperties DEF Written
  <2> QED
    BY <2>1, ElementOfSeq
<1>9. (n > 0 <=> builder # <<>>) /\ builder' # <<>>
  <2>1. builder \in Seq(LabelCharacters)
    BY DEF TypeOK, LabelCharacters
  <2> QED
    BY <1>5, <2>1, EmptySeq
<1> HIDE DEF n
<1>10. Written'
  <2>1. \A k \in 1 .. n + 1 : origin'[k] < position + 1 /\ builder'[k] = text[origin'[k]]
    BY <1>5, <1>6, <1>7, <1>8
  <2>2. \A k \in 2 .. n + 1 : origin'[k - 1] < origin'[k]
    <3> TAKE k \in 2 .. n + 1
    <3>1. CASE k = n + 1
      BY <1>5, <1>6, <3>1
    <3>2. CASE k # n + 1
      <4>1. k \in 2 .. n /\ k - 1 \in 1 .. n /\ k \in 1 .. n
        BY <1>5, <3>2
      <4> QED
        BY <1>3, <1>5, <4>1 DEF Written, n
    <3> QED
      BY <3>1, <3>2
  <2>3. \A p \in 1 .. position : text[p] \in Letters => \E k \in 1 .. n + 1 : origin'[k] = p
    <3> SUFFICES ASSUME NEW p \in 1 .. position, text[p] \in Letters
                 PROVE  \E k \in 1 .. n + 1 : origin'[k] = p
      OBVIOUS
    <3>1. CASE p = position
      BY <1>5, <3>1
    <3>2. CASE p # position
      <4>1. p \in 1 .. position - 1
        BY <1>7, <3>2
      <4>2. PICK k \in 1 .. n : origin[k] = p
        BY <1>3, <1>5, <4>1 DEF Written, n
      <4> QED
        BY <1>5, <4>2
    <3> QED
      BY <3>1, <3>2
  <2>4. position' - 1 = position
    BY <1>1, <1>7
  <2> QED
    BY <1>1, <1>5, <2>1, <2>2, <2>3, <2>4 DEF Written
<1>11. SingleHyphens'
  <2>1. hyphen <=> text[position] = "-"
    BY CharactersDiffer
  <2>2. previousHyphen' <=> builder' # <<>> /\ builder'[Len(builder')] = "-"
    BY <1>2, <1>5, <1>9, <2>1
  <2>3. \A k \in 2 .. n + 1 : {builder'[k - 1], builder'[k]} # {"-"}
    <3> TAKE k \in 2 .. n + 1
    <3>1. CASE k = n + 1
      <4>1. builder'[k - 1] = builder[n] /\ builder'[k] = text[position] /\ n > 0
        BY <1>5, <3>1
      <4>2. ~(builder[n] = "-" /\ text[position] = "-")
        BY <1>3, <1>9, <2>1, <4>1, CharactersDiffer DEF SingleHyphens, n
      <4> QED
        BY <4>1, <4>2
    <3>2. CASE k # n + 1
      <4>1. k \in 2 .. n /\ k - 1 \in 1 .. n /\ k \in 1 .. n
        BY <1>5, <3>2
      <4> QED
        BY <1>3, <1>5, <4>1 DEF SingleHyphens, n
    <3> QED
      BY <3>1, <3>2
  <2> QED
    BY <1>5, <2>2, <2>3 DEF SingleHyphens
<1>12. HyphensKept'
  <2>1. ASSUME NEW k \in 2 .. n + 1, {builder'[k - 1], builder'[k]} \subseteq Letters,
               NEW p \in origin'[k - 1] + 1 .. origin'[k] - 1
        PROVE  text[p] # "-"
    <3>1. CASE k = n + 1
      <4>1. builder'[k - 1] = builder[n] /\ origin'[k - 1] = origin[n] /\ n > 0
        BY <1>5, <3>1
      <4>2. p \in origin[n] + 1 .. position - 1 /\ builder[n] \in Letters
        BY <1>5, <2>1, <3>1, <4>1
      <4> QED
        BY <1>3, <1>9, <4>1, <4>2 DEF HyphensKept, n
    <3>2. CASE k # n + 1
      <4>1. k \in 2 .. n /\ k - 1 \in 1 .. n /\ k \in 1 .. n
        BY <1>5, <3>2
      <4>2. /\ {builder[k - 1], builder[k]} \subseteq Letters
            /\ p \in origin[k - 1] + 1 .. origin[k] - 1
        BY <1>5, <2>1, <4>1
      <4> QED
        BY <1>3, <4>1, <4>2 DEF HyphensKept, n
    <3> QED
      BY <3>1, <3>2
  <2>2. \A p \in origin'[n + 1] + 1 .. position' - 1 : FALSE
    BY <1>1, <1>5, <1>7
  <2> QED
    BY <1>1, <1>5, <2>1, <2>2 DEF HyphensKept
<1>13. Copied'
  <2> SUFFICES ASSUME Label(text)
               PROVE  n + 1 = position /\ \A k \in 1 .. n + 1 : builder'[k] = text[k]
    BY <1>1, <1>5, <1>7 DEF Copied
  <2>1. n = position - 1 /\ \A k \in 1 .. n : builder[k] = text[k]
    BY <1>3, <1>5 DEF Copied, n
  <2> QED
    BY <1>5, <1>7, <2>1
<1> QED
  BY <1>10, <1>11, <1>12, <1>13 DEF LoopInv

LEMMA TurnKeepsLoopInv ==
  ASSUME TypeOK, LoopInv, Turn
  PROVE  LoopInv'
<1>1. CASE text[position] \in Letters /\ Write(FALSE)
  BY <1>1, WritingKeepsLoopInv
<1>2. CASE text[position] = "-" /\ ~previousHyphen /\ Write(TRUE)
  BY <1>2, WritingKeepsLoopInv
<1>3. CASE /\ text[position] \notin Letters
           /\ text[position] = "-" => previousHyphen
           /\ UNCHANGED <<builder, origin, previousHyphen>>
  <2>1. /\ call = "running" /\ text' = text /\ position' = position + 1 /\ call' = call
        /\ UNCHANGED <<builder, origin, previousHyphen>>
    BY <1>3 DEF Turn, AtCharacter
  <2>2. Written /\ SingleHyphens /\ HyphensKept /\ Copied
    BY <2>1 DEF LoopInv
  <2>3. /\ builder \in Seq(LabelCharacters) /\ Len(builder) \in Nat
        /\ DOMAIN builder = 1 .. Len(builder) /\ position \in Int
        /\ text \in Seq(Characters) /\ position \in 1 .. Len(text) /\ DOMAIN text = 1 .. Len(text)
    <3>1. /\ builder \in Seq(LabelCharacters) /\ position \in 1 .. Len(text) + 1
          /\ text \in Seq(Characters) /\ position <= Len(text)
      BY DEF TypeOK, LabelCharacters, Turn, AtCharacter
    <3> QED
      BY <3>1, LenProperties
  <2>4. \A k \in DOMAIN builder : origin[k] \in Int
    <3>1. origin \in Seq(DOMAIN text) /\ Len(origin) = Len(builder)
      BY <2>2 DEF TypeOK, Written
    <3> QED
      BY <2>3, <3>1, ElementOfSeq
  <2>5. \A p \in 1 .. position : p = position \/ p \in 1 .. position - 1
    BY <2>3
  <2>6. Written'
    <3>1. \A k \in DOMAIN builder : origin[k] < position + 1 /\ builder[k] = text[origin[k]]
      BY <2>2, <2>3, <2>4 DEF Written
    <3>2. \A p \in 1 .. position : text[p] \in Letters => \E k \in DOMAIN builder : origin[k] = p
      BY <1>3, <2>2, <2>5 DEF Written
    <3>3. position' - 1 = position
      BY <2>1, <2>3
    <3> QED
      BY <2>1, <2>2, <3>1, <3>2, <3>3 DEF Written
  <2>7. SingleHyphens'
    BY <2>1, <2>2 DEF SingleHyphens
  <2>8. HyphensKept'
    <3>1. ASSUME builder # <<>>, builder[Len(builder)] \in Letters,
                 NEW p \in origin[Len(builder)] + 1 .. position
          PROVE  text[p] # "-"
      <4>1. CASE p = position
        <5>1. ~previousHyphen
          BY <2>2, <3>1, CharactersDiffer DEF SingleHyphens
        <5> QED
          BY <1>3, <4>1, <5>1
      <4>2. CASE p # position
        <5>1. Len(builder) \in DOMAIN builder
          BY <2>3, <3>1, EmptySeq
        <5>2. p \in origin[Len(builder)] + 1 .. position - 1
          BY <2>3, <2>4, <3>1, <4>2, <5>1
        <5> QED
          BY <2>2, <3>1, <5>2 DEF HyphensKept
      <4> QED
        BY <4>1, <4>2
    <3>2. position' - 1 = position
      BY <2>1, <2>3
    <3> QED
      BY <2>1, <2>2, <3>1, <3>2 DEF HyphensKept
  <2>9. Copied'
    <3> SUFFICES ASSUME Label(text)
                 PROVE  FALSE
      BY <2>1 DEF Copied
    \* A character of a label that is no letter is a hyphen after a letter.
    <3>1. /\ text[position] = "-" /\ position - 1 \in DOMAIN text
          /\ text[position - 1] \in Letters
      BY <1>3, <2>3 DEF Label, Joined
    <3>2. Len(builder) = position - 1 /\ \A k \in DOMAIN builder : builder[k] = text[k]
      BY <2>2 DEF Copied
    <3>3. Len(builder) \in DOMAIN builder
      BY <2>3, <3>1, <3>2
    <3>4. builder[Len(builder)] \in Letters
      BY <3>1, <3>2, <3>3
    <3>5. ~previousHyphen
      BY <2>2, <3>4, CharactersDiffer DEF SingleHyphens
    <3> QED
      BY <1>3, <3>1, <3>5
  <2> QED
    BY <2>6, <2>7, <2>8, <2>9 DEF LoopInv
<1> QED
  BY <1>1, <1>2, <1>3 DEF Turn

\* What trimming its hyphens leaves of what was written is as the property
\* says, and a label as it is.
LEMMA ReturnGivesLabel ==
  ASSUME TypeOK, LoopInv, Return(Kept(builder, {"-"}))
  PROVE  ReturnInv'
<1> DEFINE kept == Kept(builder, {"-"})
           n == Len(builder)
<1>1. /\ call' = "returned" /\ text' = text
      /\ label' = Between(builder, kept) /\ places' = Between(origin, kept)
  BY DEF Return, loopVars
<1>2. Written /\ SingleHyphens /\ HyphensKept /\ Copied
  BY DEF LoopInv, Return
<1>3. /\ builder \in Seq(LabelCharacters) /\ origin \in Seq(DOMAIN text)
      /\ text \in Seq(Characters) /\ position \in 1 .. Len(text) + 1
  BY DEF TypeOK, LabelCharacters
<1>4. /\ n \in Nat /\ DOMAIN builder = 1 .. n /\ Len(origin) = n
      /\ Len(text) \in Nat /\ DOMAIN text = 1 .. Len(text) /\ position - 1 = Len(text)
  <2>1. position > Len(text)
    BY DEF Return
  <2>2. n \in Nat /\ DOMAIN builder = 1 .. n /\ Len(text) \in Nat /\ DOMAIN text = 1 .. Len(text)
    BY <1>3, LenProperties
  <2>3. position - 1 = Len(text)
    BY <1>3, <2>1, <2>2
  <2> QED
    BY <1>2, <2>2, <2>3 DEF Written
<1>5. \A k \in 1 .. n :
         /\ origin[k] \in 1 .. Len(text)
         /\ builder[k] = text[origin[k]]
         /\ builder[k] \in Letters <=> k \in kept
  <2>1. \A k \in 1 .. n : builder[k] \in LabelCharacters /\ origin[k] \in DOMAIN text
    BY <1>3, <1>4, ElementOfSeq
  <2>2. \A k \in 1 .. n : k \in kept <=> builder[k] # "-"
    BY <1>4 DEF Kept
  <2>3. \A k \in 1 .. n : builder[k] \in Letters <=> builder[k] # "-"
    BY <2>1, CharactersDiffer DEF LabelCharacters
  <2> QED
    BY <1>2, <1>4, <2>1, <2>2, <2>3 DEF Written
<1>6. \A p \in 1 .. Len(text) : text[p] \in Letters => \E k \in kept : k \in 1 .. n /\ origin[k] = p
  <2> SUFFICES ASSUME NEW p \in 1 .. Len(text), text[p] \in Letters
               PROVE  \E k \in kept : k \in 1 .. n /\ origin[k] = p
    OBVIOUS
  <2>1. PICK k \in 1 .. n : origin[k] = p
    BY <1>2, <1>4 DEF Written
  <2> QED
    BY <1>5, <2>1
<1>7. kept \in SUBSET (1 .. n)
  BY <1>4 DEF Kept
<1>8. Label(text) => n = Len(text) /\ builder = text
  <2>1. Label(text) => n = Len(text) /\ \A k \in 1 .. n : builder[k] = text[k]
    BY <1>2, <1>4 DEF Copied
  <2>2. builder \in Seq(Characters)
    BY <1>3, LabelTexts
  <2> QED
    BY <1>3, <2>1, <2>2, SeqEqual
<1>9. Label(text) => label' = text
  <2> SUFFICES ASSUME Label(text) PROVE label' = text
    OBVIOUS
  <2>1. label' = Trim(text, {"-"})
    BY <1>1, <1>8 DEF Trim
  <2>2. text # <<>> /\ text[1] \notin {"-"} /\ text[Len(text)] \notin {"-"}
    BY <1>3, JoinedIs, CharactersDiffer DEF Label, Joined
  <2> QED
    BY <1>3, <2>1, <2>2, TrimOfEnds
<1> HIDE DEF kept, n
<1>10. CASE kept = {}
  <2>1. label' = <<>> /\ places' = <<>>
    BY <1>1, <1>10 DEF Between
  <2>2. Len(label') = 0 /\ DOMAIN label' = {} /\ DOMAIN places' = {}
    BY <2>1
  <2>3. LabelsKeepTheLetters'
    BY <1>1, <1>4, <1>6, <1>10, <2>1, <2>2 DEF LabelsKeepTheLetters
  <2> QED
    BY <1>1, <1>9, <2>3 DEF ReturnInv
<1>11. CASE kept # {}
  <2>1. PICK lo \in 1 .. n, hi \in 1 .. n :
           /\ lo \in kept /\ hi \in kept
           /\ \A k \in kept : lo <= k /\ k <= hi
           /\ Len(label') = hi - lo + 1 /\ Len(places') = hi - lo + 1
           /\ \A i \in 1 .. hi - lo + 1 :
                 label'[i] = builder[lo + i - 1] /\ places'[i] = origin[lo + i - 1]
           /\ label' \in Seq(LabelCharacters) /\ places' \in Seq(DOMAIN text)
    <3>1. /\ Min(kept) \in kept /\ Max(kept) \in kept
          /\ \A k \in kept : Min(kept) <= k /\ k <= Max(kept)
          /\ label' \in Seq(LabelCharacters)
          /\ Len(label') = Max(kept) - Min(kept) + 1
          /\ \A i \in 1 .. Max(kept) - Min(kept) + 1 : label'[i] = builder[Min(kept) + i - 1]
      BY <1>1, <1>3, <1>7, <1>11, BetweenIs DEF n
    <3>2. /\ places' \in Seq(DOMAIN text)
          /\ Len(places') = Max(kept) - Min(kept) + 1
          /\ \A i \in 1 .. Max(kept) - Min(kept) + 1 : places'[i] = origin[Min(kept) + i - 1]
      BY <1>1, <1>3, <1>4, <1>7, <1>11, BetweenIs
    <3>3. Min(kept) \in 1 .. n /\ Max(kept) \in 1 .. n
      BY <1>7, <3>1
    <3> QED
      BY <3>1, <3>2, <3>3
  <2> DEFINE m == hi - lo + 1
  <2>2. lo <= hi /\ m \in Nat \ {0} /\ DOMAIN label' = 1 .. m /\ DOMAIN places' = 1 .. m
    <3>1. lo <= hi
      BY <2>1
    <3>2. DOMAIN label' = 1 .. Len(label') /\ DOMAIN places' = 1 .. Len(places')
      BY <2>1, LenProperties
    <3> QED
      BY <1>4, <2>1, <3>1, <3>2
  <2>3. \A i \in 1 .. m :
           /\ lo + i - 1 \in 1 .. n
           /\ label'[i] = builder[lo + i - 1] /\ places'[i] = origin[lo + i - 1]
    BY <1>4, <2>1, <2>2
  <2>4. builder[lo] \in Letters /\ builder[hi] \in Letters
    BY <1>5, <2>1
  <2>5. Joined(label', {"-"})
    <3>1. label' # <<>>
      BY <2>2
    <3>2. ASSUME NEW i \in 1 .. m, label'[i] \notin Letters
          PROVE  /\ label'[i] = "-" /\ i - 1 \in 1 .. m /\ i + 1 \in 1 .. m
                 /\ label'[i - 1] \in Letters /\ label'[i + 1] \in Letters
      <4>1. i # 1 /\ i # m
        BY <1>4, <2>2, <2>3, <2>4, <3>2
      <4>2. i - 1 \in 1 .. m /\ i + 1 \in 1 .. m
        BY <2>2, <4>1
      <4>3. label'[i] = "-"
        BY <2>1, <3>2, <2>2, ElementOfSeq DEF LabelCharacters
      <4>4. PICK k \in 2 .. n : k = lo + i - 1 /\ k + 1 \in 2 .. n
        <5>1. lo + i - 1 \in 1 .. n /\ lo + (i - 1) - 1 \in 1 .. n /\ lo + (i + 1) - 1 \in 1 .. n
          BY <2>3, <4>2
        <5>2. lo + i - 1 \in 2 .. n /\ (lo + i - 1) + 1 \in 2 .. n
          BY <1>4, <2>1, <2>2, <5>1
        <5>3. lo + i - 1 \in Int
          BY <5>2
        <5> QED
          BY <5>2, <5>3
      <4>5. /\ ~(builder[k - 1] = "-" /\ builder[k] = "-")
            /\ ~(builder[k] = "-" /\ builder[k + 1] = "-")
        <5>1. \A j \in 2 .. n : {builder[j - 1], builder[j]} # {"-"}
          BY <1>2 DEF SingleHyphens, n
        <5>2. \A j \in 2 .. n : ~(builder[j - 1] = "-" /\ builder[j] = "-")
          BY <5>1
        <5>3. k \in 2 .. n /\ k + 1 \in 2 .. n /\ (k + 1) - 1 = k
          BY <4>4
        <5> QED
          BY <5>2, <5>3
      <4>6. /\ label'[i - 1] = builder[k - 1] /\ label'[i] = builder[k]
            /\ label'[i + 1] = builder[k + 1]
        <5>1. lo + (i - 1) - 1 = k - 1 /\ lo + (i + 1) - 1 = k + 1
          BY <1>4, <4>4
        <5> QED
          BY <2>3, <4>2, <4>4, <5>1
      <4>7. label'[i - 1] # "-" /\ label'[i + 1] # "-"
        BY <4>3, <4>5, <4>6
      <4>8. label'[i - 1] \in LabelCharacters /\ label'[i + 1] \in LabelCharacters
        BY <2>1, <4>2, ElementOfSeq
      <4> QED
        BY <4>2, <4>3, <4>7, <4>8 DEF LabelCharacters
    <3> QED
      BY <2>2, <3>1, <3>2 DEF Joined
  <2>6. \A i \in 1 .. m : places'[i] \in DOMAIN text /\ label'[i] = text[places'[i]]
    BY <1>4, <1>5, <2>3
  <2>7. ASSUME NEW i \in 2 .. m
        PROVE  \E k \in 2 .. n :
                  /\ label'[i - 1] = builder[k - 1] /\ label'[i] = builder[k]
                  /\ places'[i - 1] = origin[k - 1] /\ places'[i] = origin[k]
    <3>1. i - 1 \in 1 .. m /\ i \in 1 .. m /\ lo + (i - 1) - 1 = (lo + i - 1) - 1
      BY <2>2
    <3>2. lo + i - 1 \in 2 .. n
      BY <1>4, <2>3, <3>1
    <3> QED
      BY <2>3, <3>1, <3>2
  <2>8. \A i \in 2 .. m : places'[i - 1] < places'[i]
    BY <1>2, <2>7 DEF Written, n
  <2>9. ASSUME NEW p \in 1 .. Len(text), text[p] \in Letters
        PROVE  \E i \in 1 .. m : places'[i] = p
    <3>1. PICK k \in kept : k \in 1 .. n /\ origin[k] = p
      BY <1>6, <2>9
    <3>2. k - lo + 1 \in 1 .. m /\ lo + (k - lo + 1) - 1 = k
      BY <1>4, <2>1, <2>2, <3>1
    <3> QED
      BY <2>3, <3>1, <3>2
  <2>10. \A i \in 2 .. m :
            {label'[i - 1], label'[i]} \subseteq Letters =>
                \A p \in places'[i - 1] + 1 .. places'[i] - 1 : text[p] # "-"
    <3> TAKE i \in 2 .. m
    <3>1. PICK k \in 2 .. n :
             /\ label'[i - 1] = builder[k - 1] /\ label'[i] = builder[k]
             /\ places'[i - 1] = origin[k - 1] /\ places'[i] = origin[k]
      BY <2>7
    <3>2. {builder[k - 1], builder[k]} \subseteq Letters =>
             \A p \in origin[k - 1] + 1 .. origin[k] - 1 : text[p] # "-"
      BY <1>2 DEF HyphensKept, n
    <3> QED
      BY <3>1, <3>2
  <2>11. Len(label') = m
    BY <2>1
  <2> HIDE DEF m
  <2>12. LabelsKeepTheLetters'
    BY <1>1, <1>4, <2>2, <2>5, <2>6, <2>8, <2>9, <2>10, <2>11 DEF LabelsKeepTheLetters
  <2> QED
    BY <1>1, <1>9, <2>12 DEF ReturnInv
<1> QED
  BY <1>10, <1>11

-----------------------------------------------------------------------------
(* Joining the parts of a domain. *)

LEMMA DottedIs ==
  ASSUME NEW a \in Seq(SuffixCharacters), NEW b \in Seq(SuffixCharacters)
  PROVE  LET c == a \o <<".">> \o b IN
         /\ c \in Seq(SuffixCharacters)
         /\ Len(c) = Len(a) + 1 + Len(b)
         /\ \A k \in 1 .. Len(a) : c[k] = a[k]
         /\ c[Len(a) + 1] = "."
         /\ \A k \in 1 .. Len(b) : c[Len(a) + 1 + k] = b[k]
<1> DEFINE dot == <<".">>
           c == (a \o dot) \o b
<1>1. "." \in SuffixCharacters
  BY Zenon DEF SuffixCharacters
<1>2. dot \in Seq(SuffixCharacters) /\ Len(dot) = 1 /\ dot[1] = "."
  BY <1>1
<1> HIDE DEF dot
<1>3. Len(a) \in Nat /\ Len(b) \in Nat
  BY LenProperties
<1>4. /\ a \o dot \in Seq(SuffixCharacters)
      /\ Len(a \o dot) = Len(a) + 1
      /\ \A k \in 1 .. Len(a) + 1 : (a \o dot)[k] = IF k <= Len(a) THEN a[k] ELSE dot[k - Len(a)]
  <2>1. /\ a \o dot \in Seq(SuffixCharacters)
        /\ Len(a \o dot) = Len(a) + Len(dot)
        /\ \A k \in 1 .. Len(a) + Len(dot) :
              (a \o dot)[k] = IF k <= Len(a) THEN a[k] ELSE dot[k - Len(a)]
    BY <1>2, ConcatProperties
  <2> QED
    BY <1>2, <2>1
<1>5. /\ c \in Seq(SuffixCharacters)
      /\ Len(c) = Len(a) + 1 + Len(b)
      /\ \A k \in 1 .. Len(a) + 1 + Len(b) :
            c[k] = IF k <= Len(a) + 1 THEN (a \o dot)[k] ELSE b[k - (Len(a) + 1)]
  <2> DEFINE d == a \o dot
  <2>1. d \in Seq(SuffixCharacters) /\ Len(d) = Len(a) + 1
    BY <1>4
  <2> HIDE DEF d
  <2>2. /\ d \o b \in Seq(SuffixCharacters)
        /\ Len(d \o b) = Len(d) + Len(b)
        /\ \A k \in 1 .. Len(d) + Len(b) :
              (d \o b)[k] = IF k <= Len(d) THEN d[k] ELSE b[k - Len(d)]
    BY <2>1, ConcatProperties
  <2>3. c = d \o b /\ d = a \o dot
    BY DEF d
  <2> HIDE DEF c
  <2> QED
    BY <2>1, <2>2, <2>3
<1> HIDE DEF c
<1>6. \A k \in 1 .. Len(a) : c[k] = a[k]
  BY <1>3, <1>4, <1>5
<1>7. c[Len(a) + 1] = "."
  <2>1. Len(a) + 1 \in 1 .. Len(a) + 1 + Len(b) /\ Len(a) + 1 \in 1 .. Len(a) + 1
        /\ ~(Len(a) + 1 <= Len(a)) /\ Len(a) + 1 - Len(a) = 1
    BY <1>3
  <2> QED
    BY <1>2, <1>4, <1>5, <2>1
<1>8. \A k \in 1 .. Len(b) : c[Len(a) + 1 + k] = b[k]
  BY <1>3, <1>5
<1> QED
  BY <1>5, <1>6, <1>7, <1>8 DEF c, dot

LEMMA DottedIsDomain ==
  ASSUME NEW a \in Seq(SuffixCharacters), NEW b \in Seq(SuffixCharacters),
         Domain(a), Domain(b)
  PROVE  Domain(a \o <<".">> \o b)
<1> DEFINE c == a \o <<".">> \o b
           n == Len(a)
           m == Len(b)
<1>1. /\ c \in Seq(SuffixCharacters) /\ Len(c) = n + 1 + m
      /\ \A k \in 1 .. n : c[k] = a[k]
      /\ c[n + 1] = "."
      /\ \A k \in 1 .. m : c[n + 1 + k] = b[k]
  BY DottedIs
<1>2. a \in Seq(Characters) /\ b \in Seq(Characters)
  BY LabelTexts
<1>3. n \in Nat \ {0} /\ m \in Nat \ {0} /\ DOMAIN a = 1 .. n /\ DOMAIN b = 1 .. m
      /\ a[n] \in Letters /\ b[1] \in Letters
  BY <1>2, JoinedIs, LenProperties DEF Domain
<1> HIDE DEF c
<1>4. DOMAIN c = 1 .. n + 1 + m
  BY <1>1, LenProperties
<1> HIDE DEF n, m
<1>5. ASSUME NEW k \in 1 .. n + 1 + m, c[k] \notin Letters
      PROVE  /\ c[k] \in {"-", "."} /\ k - 1 \in 1 .. n + 1 + m /\ k + 1 \in 1 .. n + 1 + m
             /\ c[k - 1] \in Letters /\ c[k + 1] \in Letters
  <2>1. CASE k \in 1 .. n
    <3>1. a[k] \notin Letters
      BY <1>1, <1>5, <2>1
    <3>2. /\ a[k] \in {"-", "."} /\ k - 1 \in 1 .. n /\ k + 1 \in 1 .. n
          /\ a[k - 1] \in Letters /\ a[k + 1] \in Letters
      BY <1>3, <2>1, <3>1 DEF Domain, Joined
    <3> QED
      BY <1>1, <1>3, <2>1, <3>2
  <2>2. CASE k = n + 1
    <3>1. k - 1 = n /\ k + 1 = n + 1 + 1 /\ n \in 1 .. n /\ 1 \in 1 .. m
      BY <1>3, <2>2
    <3>2. c[k] = "." /\ c[k - 1] = a[n] /\ c[k + 1] = b[1]
      BY <1>1, <2>2, <3>1
    <3> QED
      BY <1>3, <2>2, <3>2
  <2>3. CASE k \in n + 2 .. n + 1 + m
    <3>1. PICK j \in 1 .. m : k = n + 1 + j
      <4>1. k - (n + 1) \in 1 .. m /\ k = n + 1 + (k - (n + 1))
        BY <1>3, <2>3
      <4> QED
        BY <4>1
    <3>2. b[j] \notin Letters
      BY <1>1, <1>5, <3>1
    <3>3. /\ b[j] \in {"-", "."} /\ j - 1 \in 1 .. m /\ j + 1 \in 1 .. m
          /\ b[j - 1] \in Letters /\ b[j + 1] \in Letters
      BY <1>3, <3>2 DEF Domain, Joined
    <3>4. k - 1 = n + 1 + (j - 1) /\ k + 1 = n + 1 + (j + 1)
      BY <1>3, <3>1
    <3>5. c[k] = b[j] /\ c[k - 1] = b[j - 1] /\ c[k + 1] = b[j + 1]
      BY <1>1, <3>1, <3>3, <3>4
    <3> QED
      BY <1>3, <3>1, <3>3, <3>4, <3>5
  <2> QED
    BY <1>3, <2>1, <2>2, <2>3
<1>6. c # <<>>
  <2>1. 1 \in DOMAIN c
    BY <1>3, <1>4
  <2> QED
    BY <2>1
<1>7. Domain(c)
  BY <1>4, <1>5, <1>6 DEF Domain, Joined
<1> QED
  BY <1>7 DEF c

LEMMA JoiningIsDomain ==
  ASSUME NEW parts \in Seq(SuffixCharacters), parts # <<>> => Domain(parts),
         NEW part \in Seq(LabelCharacters), Label(part)
  PROVE  Domain(Joining(parts, part)) /\ Joining(parts, part) # <<>>
<1>1. part \in Seq(SuffixCharacters) /\ Domain(part)
  BY LabelTexts, LabelIsDomain
<1>2. Domain(Joining(parts, part))
  BY <1>1, DottedIsDomain DEF Joining
<1> QED
  BY <1>2 DEF Domain, Joined

\* A part of a suffix in its normal form is a label.
LEMMA PartIsLabel ==
  ASSUME TypeOK, Domain(Value), from <= Len(Value) + 1,
         from > 1 => Value[from - 1] = "."
  PROVE  Label(SubSeq(Value, from, PartEnd - 1))
<1> DEFINE part == SubSeq(Value, from, PartEnd - 1)
           n == Len(Value)
           to == PartEnd
<1>1. n \in Nat /\ from \in 1 .. n + 1
  <2>1. n \in Nat /\ from \in 1 .. n + 2
    BY ValueIs DEF TypeOK
  <2> QED
    BY <2>1
<1>2. /\ to \in from .. n + 1
      /\ to = n + 1 \/ (to \in 1 .. n /\ Value[to] = ".")
      /\ \A k \in from .. to - 1 : k \in 1 .. n /\ Value[k] # "."
  BY PartEndIs
<1>3. /\ part \in Seq(Characters) /\ Len(part) = to - from
      /\ \A i \in 1 .. to - from : part[i] = Value[from + i - 1]
  BY PartIs
<1>4. DOMAIN part = 1 .. to - from
  BY <1>3, LenProperties
<1> HIDE DEF to, part
<1>5. DOMAIN Value = 1 .. n /\ n # 0 /\ Value[1] \in Letters
  BY ValueIs, JoinedIs DEF Domain
<1>6. \A k \in 1 .. n :
         Value[k] \notin Letters =>
            /\ Value[k] \in {"-", "."} /\ k - 1 \in 1 .. n /\ k + 1 \in 1 .. n
            /\ Value[k - 1] \in Letters /\ Value[k + 1] \in Letters
  BY <1>5 DEF Domain, Joined
<1> HIDE DEF n
\* The first character of a part is a letter, for a dot or nothing is before it.
<1>7. from \in 1 .. n /\ Value[from] \in Letters
  <2>1. CASE from = 1
    BY <1>1, <1>5, <2>1
  <2>2. CASE from # 1
    <3>1. from - 1 \in 1 .. n /\ Value[from - 1] = "." /\ (from - 1) + 1 = from
      BY <1>1, <2>2
    <3>2. Value[from - 1] \notin Letters
      BY <3>1, CharactersDiffer
    <3> QED
      BY <1>6, <3>1, <3>2
  <2> QED
    BY <2>1, <2>2
<1>8. from < to
  <2>1. Value[from] # "."
    BY <1>7, CharactersDiffer
  <2>2. from # n + 1
    BY <1>1, <1>7
  <2>3. from # to
    BY <1>2, <2>1, <2>2
  <2>4. from \in Int /\ to \in Int /\ from <= to
    BY <1>1, <1>2
  <2> QED
    BY <2>3, <2>4
<1>9. ASSUME NEW i \in 1 .. to - from, part[i] \notin Letters
      PROVE  /\ part[i] \in {"-"} /\ i - 1 \in 1 .. to - from /\ i + 1 \in 1 .. to - from
             /\ part[i - 1] \in Letters /\ part[i + 1] \in Letters
  <2>1. PICK k \in from .. to - 1 : k = from + i - 1
    <3>1. from + i - 1 \in from .. to - 1
      BY <1>1, <1>2
    <3> QED
      BY <3>1
  <2>2. k \in 1 .. n /\ Value[k] # "." /\ Value[k] \notin Letters
    BY <1>2, <1>3, <1>9, <2>1
  <2>3. /\ Value[k] = "-" /\ k - 1 \in 1 .. n /\ k + 1 \in 1 .. n
        /\ Value[k - 1] \in Letters /\ Value[k + 1] \in Letters
    BY <1>6, <2>2
  <2>4. k # from /\ k + 1 # to
    <3>1. Value[k + 1] # "."
      BY <2>3, CharactersDiffer
    <3>2. k + 1 # n + 1
      BY <1>1, <2>3
    <3> QED
      BY <1>2, <1>7, <2>2, <3>1, <3>2
  <2>5. i - 1 \in 1 .. to - from /\ i + 1 \in 1 .. to - from
    BY <1>1, <1>2, <2>1, <2>4
  <2>6. from + (i - 1) - 1 = k - 1 /\ from + (i + 1) - 1 = k + 1
    BY <1>1, <2>1
  <2>7. part[i] = Value[k] /\ part[i - 1] = Value[k - 1] /\ part[i + 1] = Value[k + 1]
    BY <1>3, <2>1, <2>5, <2>6
  <2> QED
    BY <2>3, <2>5, <2>7
<1>10. part # <<>>
  <2>1. 1 \in DOMAIN part
    BY <1>1, <1>2, <1>4, <1>8
  <2> QED
    BY <2>1
<1>11. Label(part)
  BY <1>4, <1>9, <1>10 DEF Label, Joined
<1> QED
  BY <1>11 DEF part, to

\* The parts so far and the next one, joined, are the suffix up to its end.
LEMMA JoiningIsPrefix ==
  ASSUME TypeOK, Domain(Value), from <= Len(Value) + 1,
         from > 1 => Value[from - 1] = ".",
         suffix = SubSeq(Value, 1, from - 2)
  PROVE  Joining(suffix, SubSeq(Value, from, PartEnd - 1)) = SubSeq(Value, 1, PartEnd - 1)
<1> DEFINE part == SubSeq(Value, from, PartEnd - 1)
           n == Len(Value)
           to == PartEnd
<1>1. /\ n \in Nat /\ from \in 1 .. n + 1 /\ to \in from .. n + 1
      /\ Value \in Seq(Characters) /\ n # 0 /\ Value[1] \in Letters
  <2>1. n \in Nat /\ from \in 1 .. n + 2 /\ Value \in Seq(Characters)
    BY ValueIs DEF TypeOK
  <2> QED
    BY <2>1, PartEndIs, JoinedIs DEF Domain
<1>2. /\ part \in Seq(Characters) /\ Len(part) = to - from
      /\ \A i \in 1 .. to - from : part[i] = Value[from + i - 1]
  BY PartIs
<1>3. part \in Seq(SuffixCharacters)
  <2>1. Label(part)
    BY PartIsLabel
  <2>2. \A i \in 1 .. Len(part) : part[i] \in LabelCharacters
    BY <1>2, <2>1, JoinedIs DEF Label, LabelCharacters
  <2>3. part \in [1 .. Len(part) -> LabelCharacters] /\ Len(part) \in Nat
    BY <1>2, <2>2, LenProperties
  <2>4. part \in Seq(LabelCharacters)
    BY <2>3, SeqDef
  <2> QED
    BY <2>4, LabelTexts
<1>4. /\ SubSeq(Value, 1, to - 1) \in Seq(Characters)
      /\ Len(SubSeq(Value, 1, to - 1)) = to - 1
      /\ \A k \in 1 .. to - 1 : SubSeq(Value, 1, to - 1)[k] = Value[k]
  <2>1. \A k \in 1 .. to - 1 : Value[k] \in Characters
    BY <1>1, ElementOfSeq
  <2> QED
    BY <1>1, <2>1, SubSeqProperties
<1>5. CASE from = 1
  <2>1. suffix = <<>>
    BY <1>5, SubSeqEmpty
  <2> QED
    BY <1>5, <2>1 DEF Joining
<1>6. CASE from > 1
  <2>1. from - 2 \in 1 .. n /\ from - 1 \in 1 .. n /\ Value[from - 1] = "."
    <3>1. from - 1 \in 1 .. n /\ Value[from - 1] = "."
      BY <1>1, <1>6
    <3>2. from - 1 # 1
      BY <1>1, <3>1, CharactersDiffer
    <3> QED
      BY <1>1, <3>1, <3>2
  <2>2. /\ Len(suffix) = from - 2
        /\ \A k \in 1 .. from - 2 : suffix[k] = Value[k]
    <3>1. \A k \in 1 .. from - 2 : Value[k] \in Characters
      BY <1>1, <2>1, ElementOfSeq
    <3> QED
      BY <1>1, <2>1, <3>1, SubSeqProperties
  <2>3. suffix # <<>> /\ suffix \in Seq(SuffixCharacters)
    <3>1. suffix \in Seq(SuffixCharacters)
      BY DEF TypeOK, SuffixCharacters
    <3>2. Len(suffix) # 0
      BY <2>1, <2>2
    <3> QED
      BY <3>1, <3>2
  <2> DEFINE joined == suffix \o <<".">> \o part
  <2>4. /\ joined \in Seq(SuffixCharacters)
        /\ Len(joined) = Len(suffix) + 1 + Len(part)
        /\ \A k \in 1 .. Len(suffix) : joined[k] = suffix[k]
        /\ joined[Len(suffix) + 1] = "."
        /\ \A k \in 1 .. Len(part) : joined[Len(suffix) + 1 + k] = part[k]
    BY <1>3, <2>3, DottedIs
  <2>5. Joining(suffix, part) = joined
    BY <2>3 DEF Joining
  <2> HIDE DEF joined, part, to, n
  <2>6. joined \in Seq(Characters) /\ Len(joined) = to - 1
    BY <1>1, <1>2, <2>2, <2>4, LabelTexts
  <2>7. ASSUME NEW k \in 1 .. to - 1 PROVE joined[k] = Value[k]
    <3>1. CASE k <= from - 2
      BY <1>1, <2>1, <2>2, <2>4, <3>1
    <3>2. CASE k = from - 1
      BY <1>1, <2>1, <2>2, <2>4, <3>2
    <3>3. CASE k > from - 1
      <4>1. PICK j \in 1 .. to - from : k = from - 1 + j
        <5>1. k - (from - 1) \in 1 .. to - from /\ k = from - 1 + (k - (from - 1))
          BY <1>1, <3>3
        <5> QED
          BY <5>1
      <4>2. Len(suffix) + 1 + j = k /\ from + j - 1 = k /\ j \in 1 .. Len(part)
        BY <1>1, <1>2, <2>2, <4>1
      <4> QED
        BY <1>2, <2>4, <4>1, <4>2
    <3> QED
      BY <1>1, <2>1, <3>1, <3>2, <3>3
  <2>8. joined = SubSeq(Value, 1, to - 1)
    BY <1>4, <2>6, <2>7, SeqEqual
  <2> QED
    BY <2>5, <2>8 DEF part, to
<1> QED
  BY <1>1, <1>5, <1>6

-----------------------------------------------------------------------------
(* The callers. *)

CallerInv == HostnameInv /\ LettersInv /\ UnchangedInv /\ SuffixInv /\ LabelInv

\* Of what was returned, in the terms of the callers.
LEMMA LabelIsReturned ==
  ASSUME TypeOK, ReturnInv, call = "returned"
  PROVE  /\ label \in Seq(LabelCharacters)
         /\ label = <<>> => \A p \in DOMAIN text : text[p] \notin Letters
         /\ label # <<>> => Label(label)
         /\ Label(text) => label = text
<1>1. label = <<>> => DOMAIN label = {}
  OBVIOUS
<1> QED
  BY <1>1 DEF TypeOK, ReturnInv, LabelsKeepTheLetters, Label, LabelCharacters

\* The loop changes nothing of its callers'.
LEMMA LoopKeepsCallers ==
  ASSUME TypeOK, CallerInv, call = "running", call' \in {"running", "returned"},
         UNCHANGED <<input, stage, text, hostname, from, suffix>>
  PROVE  CallerInv'
<1>1. Value' = Value
  BY DEF Value
<1>2. HostnameInv'
  BY DEF CallerInv, HostnameInv
<1>3. LettersInv'
  BY <1>1 DEF CallerInv, LettersInv
<1>4. UnchangedInv'
  BY <1>1 DEF CallerInv, UnchangedInv
<1>5. SuffixInv'
  BY DEF CallerInv, SuffixInv
<1>6. LabelInv'
  BY DEF CallerInv, LabelInv
<1> QED
  BY <1>2, <1>3, <1>4, <1>5, <1>6 DEF CallerInv

LEMMA ValidateKeepsCallers ==
  ASSUME TypeOK, ReturnInv, CallerInv, validateResolvedHostname
  PROVE  CallerInv'
<1>1. /\ stage = "hostname" /\ call = "returned" /\ call' = "none" /\ hostname' = label
      /\ stage' = IF label = <<>> THEN "left out" ELSE "suffix"
      /\ UNCHANGED <<input, text, label, from, suffix>> /\ Value' = Value
  BY DEF validateResolvedHostname, loopVars, Value
<1>2. text = Reading(input.name) /\ from = 1 /\ suffix = <<>>
  BY <1>1 DEF CallerInv, HostnameInv
<1>3. label = <<>> => ~HasLetter(input.name)
  BY <1>1, <1>2, LabelIsReturned, ReadingIs, ValueIs
<1>4. HostnameInv'
  BY <1>1, <1>3, LabelIsReturned DEF HostnameInv
<1>5. LettersInv'
  BY <1>1, <1>2 DEF LettersInv
<1>6. UnchangedInv'
  BY <1>1, <1>2, SubSeqEmpty DEF UnchangedInv
<1>7. SuffixInv'
  BY <1>1, <1>2 DEF SuffixInv
<1>8. LabelInv'
  BY <1>1 DEF LabelInv
<1> QED
  BY <1>4, <1>5, <1>6, <1>7, <1>8 DEF CallerInv

LEMMA NextPartKeepsCallers ==
  ASSUME TypeOK, CallerInv, NextPart
  PROVE  CallerInv'
<1> DEFINE part == SubSeq(Value, from, PartEnd - 1)
           n == Len(Value)
<1>1. /\ stage = "suffix" /\ call = "none" /\ from <= n + 1 /\ from' = PartEnd + 1
      /\ call' = "running" /\ text' = Reading(part)
      /\ UNCHANGED <<input, stage, hostname, suffix>> /\ Value' = Value
  BY DEF NextPart, Call, Value
<1>2. /\ n \in Nat /\ DOMAIN Value = 1 .. n /\ Value \in Seq(Characters)
      /\ from \in 1 .. n + 1 /\ PartEnd \in from .. n + 1
      /\ PartEnd = n + 1 \/ (PartEnd \in 1 .. n /\ Value[PartEnd] = ".")
  <2>1. n \in Nat /\ from \in 1 .. n + 2 /\ DOMAIN Value = 1 .. n /\ Value \in Seq(Characters)
    BY ValueIs DEF TypeOK
  <2> QED
    BY <1>1, <2>1, PartEndIs
<1>3. /\ part \in Seq(Characters) /\ Len(part) = PartEnd - from
      /\ \A i \in 1 .. PartEnd - from : part[i] = Value[from + i - 1]
  BY <1>1, PartIs
<1> HIDE DEF part, n
<1>4. HostnameInv'
  BY <1>1 DEF CallerInv, HostnameInv
<1>5. LettersInv'
  <2> SUFFICES ASSUME suffix = <<>>, NEW k \in 1 .. PartEnd,
                      k \in DOMAIN Value, Value[k] \in Letters
               PROVE  \E p \in DOMAIN text' : text'[p] \in Letters
    <3>1. from' - 1 = PartEnd
      BY <1>1, <1>2
    <3> QED
      BY <1>1, <3>1 DEF LettersInv
  <2>1. k >= from
    <3>1. \A j \in 1 .. from - 1 : ~(j \in DOMAIN Value /\ Value[j] \in Letters)
      BY <1>1 DEF CallerInv, LettersInv
    <3> QED
      BY <1>2, <3>1
  <2>2. k # PartEnd
    <3>1. PartEnd = n + 1 \/ Value[PartEnd] \notin Letters
      BY <1>2, CharactersDiffer
    <3>2. k # n + 1
      BY <1>2
    <3> QED
      BY <3>1, <3>2
  <2>3. k - from + 1 \in 1 .. PartEnd - from /\ from + (k - from + 1) - 1 = k
    BY <1>2, <2>1, <2>2
  <2>4. part[k - from + 1] = Value[k]
    BY <1>3, <2>3
  <2>5. k - from + 1 \in DOMAIN part
    BY <1>3, <2>3, LenProperties
  <2>6. Lower(Value[k]) \in Letters
    BY <1>2, ElementOfSeq, LowerIs
  <2>7. HasLetter(part)
    BY <2>4, <2>5, <2>6 DEF HasLetter
  <2> QED
    BY <1>1, <1>3, <2>7, ReadingIs
<1>6. UnchangedInv'
  <2> SUFFICES ASSUME Domain(Value)
               PROVE  /\ PartEnd = n + 1 \/ Value[PartEnd] = "."
                      /\ Label(text')
                      /\ Joining(suffix, text') = SubSeq(Value, 1, PartEnd - 1)
    <3>1. from' - 1 = PartEnd /\ from' - 2 = PartEnd - 1
      BY <1>1, <1>2
    <3> QED
      BY <1>1, <3>1 DEF UnchangedInv, n
  <2>1. /\ from > 1 => Value[from - 1] = "."
        /\ suffix = SubSeq(Value, 1, from - 2)
    <3>1. from - 1 # n + 1
      BY <1>2
    <3> QED
      BY <1>1, <3>1 DEF CallerInv, UnchangedInv, n
  <2>2. Label(part)
    BY <1>1, <2>1, PartIsLabel DEF part, n
  <2>3. text' = part
    BY <1>1, <1>3, <2>2, ReadingIs
  <2>4. Joining(suffix, part) = SubSeq(Value, 1, PartEnd - 1)
    BY <1>1, <2>1, JoiningIsPrefix DEF part, n
  <2> QED
    BY <1>2, <2>2, <2>3, <2>4
<1>7. SuffixInv'
  BY <1>1 DEF CallerInv, SuffixInv
<1>8. LabelInv'
  BY <1>1 DEF CallerInv, LabelInv
<1> QED
  BY <1>4, <1>5, <1>6, <1>7, <1>8 DEF CallerInv

LEMMA PartReturnedKeepsCallers ==
  ASSUME TypeOK, ReturnInv, CallerInv, PartReturned
  PROVE  CallerInv'
<1>1. /\ stage = "suffix" /\ call = "returned" /\ call' = "none"
      /\ suffix' = IF label = <<>> THEN suffix ELSE Joining(suffix, label)
      /\ UNCHANGED <<input, stage, text, label, hostname, from>> /\ Value' = Value
  BY DEF PartReturned, loopVars, Value
<1>2. label # <<>> => Domain(Joining(suffix, label)) /\ Joining(suffix, label) # <<>>
  <2>1. suffix \in Seq(SuffixCharacters) /\ (suffix # <<>> => Domain(suffix))
    BY DEF TypeOK, SuffixCharacters, CallerInv, SuffixInv
  <2>2. label \in Seq(LabelCharacters) /\ (label # <<>> => Label(label))
    BY <1>1, LabelIsReturned
  <2> QED
    BY <2>1, <2>2, JoiningIsDomain
<1>3. HostnameInv'
  BY <1>1 DEF CallerInv, HostnameInv
<1>4. LettersInv'
  <2> SUFFICES ASSUME suffix' = <<>>, NEW k \in 1 .. from - 1,
                      k \in DOMAIN Value, Value[k] \in Letters
               PROVE  FALSE
    BY <1>1 DEF LettersInv
  <2>1. label = <<>> /\ suffix = <<>>
    BY <1>1, <1>2
  <2>2. \E p \in DOMAIN text : text[p] \in Letters
    BY <1>1, <2>1 DEF CallerInv, LettersInv
  <2> QED
    BY <1>1, <2>1, <2>2, LabelIsReturned
<1>5. UnchangedInv'
  <2> SUFFICES ASSUME Domain(Value)
               PROVE  /\ from > 1 => from - 1 = Len(Value) + 1 \/ Value[from - 1] = "."
                      /\ suffix' = SubSeq(Value, 1, from - 2)
    BY <1>1 DEF UnchangedInv
  <2>1. /\ from > 1 => from - 1 = Len(Value) + 1 \/ Value[from - 1] = "."
        /\ Label(text) /\ Joining(suffix, text) = SubSeq(Value, 1, from - 2)
    BY <1>1 DEF CallerInv, UnchangedInv
  <2>2. label = text /\ label # <<>>
    BY <1>1, <2>1, LabelIsReturned DEF Label, Joined
  <2> QED
    BY <1>1, <2>1, <2>2
<1>6. SuffixInv'
  BY <1>1, <1>2 DEF CallerInv, SuffixInv
<1>7. LabelInv'
  BY <1>1 DEF CallerInv, LabelInv
<1> QED
  BY <1>3, <1>4, <1>5, <1>6, <1>7 DEF CallerInv

LEMMA RefuseKeepsCallers ==
  ASSUME TypeOK, CallerInv, RefuseSuffix
  PROVE  CallerInv'
<1>1. /\ stage = "suffix" /\ call = "none" /\ from > Len(Value) + 1 /\ suffix = <<>>
      /\ stage' = "refused" /\ UNCHANGED <<input, call, text, label, hostname, from, suffix>>
  BY DEF RefuseSuffix, NoMoreParts, loopVars
<1>2. ~HasLetter(input.suffix)
  <2> SUFFICES ASSUME NEW k \in DOMAIN Value, Value[k] \in Letters
               PROVE  FALSE
    BY ValueIs
  <2>1. k \in 1 .. from - 1
    <3>1. Len(Value) \in Nat /\ DOMAIN Value = 1 .. Len(Value)
      BY ValueIs
    <3>2. from \in 1 .. Len(Value) + 2
      BY DEF TypeOK
    <3> QED
      BY <1>1, <3>1, <3>2
  <2> QED
    BY <1>1, <2>1 DEF CallerInv, LettersInv
<1>3. HostnameInv'
  BY <1>1 DEF CallerInv, HostnameInv
<1>4. LettersInv' /\ UnchangedInv'
  BY <1>1 DEF LettersInv, UnchangedInv
<1>5. SuffixInv'
  BY <1>1, <1>2 DEF SuffixInv
<1>6. LabelInv'
  BY <1>1 DEF LabelInv
<1> QED
  BY <1>3, <1>4, <1>5, <1>6 DEF CallerInv

LEMMA LabelHostnameKeepsCallers ==
  ASSUME TypeOK, CallerInv, LabelHostname
  PROVE  CallerInv'
<1>1. /\ stage = "suffix" /\ call = "none" /\ from > Len(Value) + 1 /\ suffix # <<>>
      /\ stage' = "label" /\ call' = "running" /\ text' = Reading(hostname)
      /\ UNCHANGED <<input, label, hostname, from, suffix>>
  BY DEF LabelHostname, NoMoreParts, Call
<1>2. text' = hostname /\ Label(hostname)
  <2>1. hostname \in Seq(Characters)
    BY LabelTexts DEF TypeOK, LabelCharacters
  <2>2. Label(hostname)
    BY <1>1 DEF CallerInv, HostnameInv
  <2> QED
    BY <1>1, <2>1, <2>2, ReadingIs
<1>3. Domain(input.suffix) => suffix = input.suffix
  <2> SUFFICES ASSUME Domain(input.suffix)
               PROVE  suffix = input.suffix
    OBVIOUS
  <2>1. Value = input.suffix /\ Value \in Seq(Characters) /\ Len(Value) \in Nat
    BY ValueIs
  <2>2. from \in 1 .. Len(Value) + 2
    BY DEF TypeOK
  <2>3. from - 2 = Len(Value)
    BY <1>1, <2>1, <2>2
  <2>4. Domain(Value)
    BY <2>1
  <2>5. suffix = SubSeq(Value, 1, from - 2)
    BY <1>1, <2>4 DEF CallerInv, UnchangedInv
  <2> QED
    BY <2>1, <2>3, <2>5, SubSeqFull
<1>4. HostnameInv'
  BY <1>1, <1>2 DEF HostnameInv
<1>5. LettersInv' /\ UnchangedInv'
  BY <1>1 DEF LettersInv, UnchangedInv
<1>6. SuffixInv'
  BY <1>1, <1>3 DEF CallerInv, SuffixInv
<1>7. LabelInv'
  BY <1>1, <1>2 DEF LabelInv
<1> QED
  BY <1>4, <1>5, <1>6, <1>7 DEF CallerInv

LEMMA FormDomainKeepsCallers ==
  ASSUME TypeOK, ReturnInv, CallerInv, FormDomain
  PROVE  CallerInv'
<1>1. /\ stage = "label" /\ call = "returned" /\ call' = "none"
      /\ stage' = IF label = <<>> THEN "refused" ELSE "served"
      /\ UNCHANGED <<input, text, label, hostname, from, suffix>>
  BY DEF FormDomain, loopVars
<1>2. label = hostname /\ label # <<>>
  <2>1. text = hostname /\ Label(hostname)
    BY <1>1 DEF CallerInv, LabelInv, HostnameInv
  <2> QED
    BY <1>1, <2>1, LabelIsReturned DEF Label, Joined
<1>3. HostnameInv'
  BY <1>1, <1>2 DEF CallerInv, HostnameInv
<1>4. LettersInv' /\ UnchangedInv'
  BY <1>1, <1>2 DEF LettersInv, UnchangedInv
<1>5. SuffixInv'
  BY <1>1, <1>2 DEF CallerInv, SuffixInv
<1>6. LabelInv'
  BY <1>1, <1>2 DEF LabelInv
<1> QED
  BY <1>3, <1>4, <1>5, <1>6 DEF CallerInv

-----------------------------------------------------------------------------
(* The inductive invariant holds. *)

LEMMA InitIsInvariant ==
  ASSUME Init
  PROVE  IInv
<1>1. /\ input \in Inputs /\ stage = "hostname" /\ call = "running"
      /\ text = Reading(input.name) /\ position = 1 /\ previousHyphen = FALSE /\ from = 1
      /\ builder = <<>> /\ origin = <<>> /\ label = <<>> /\ places = <<>>
      /\ hostname = <<>> /\ suffix = <<>>
  BY DEF Init
<1>2. input.name \in Seq(Characters) /\ input.suffix \in Seq(Characters)
  BY <1>1, InputAssumption
<1>3. text \in Seq(Characters) /\ Len(text) \in Nat
  BY <1>1, <1>2, ReadingIs, LenProperties
<1>4. Len(Value) \in Nat
  <2>1. TrimSpace(input.suffix) \in Seq(Characters)
    BY <1>2, TrimKeeps DEF TrimSpace
  <2>2. Value \in Seq(Characters)
    BY <2>1, ToLowerIs, TrimKeeps DEF Value
  <2> QED
    BY <2>2, LenProperties
<1>5. TypeOK
  <2>1. position \in 1 .. Len(text) + 1 /\ from \in 1 .. Len(Value) + 2
    BY <1>1, <1>3, <1>4
  <2>2. \A S : <<>> \in Seq(S)
    BY EmptySeq
  <2> QED
    BY <1>1, <1>3, <2>1, <2>2 DEF TypeOK
<1>6. LoopInv
  <2>1. Len(<<>>) = 0 /\ DOMAIN <<>> = {}
    OBVIOUS
  <2>2. Written
    BY <1>1, <2>1 DEF Written
  <2>3. SingleHyphens
    BY <1>1, <2>1 DEF SingleHyphens
  <2>4. HyphensKept
    BY <1>1, <2>1 DEF HyphensKept
  <2>5. Copied
    BY <1>1, <2>1 DEF Copied
  <2> QED
    BY <2>2, <2>3, <2>4, <2>5 DEF LoopInv
<1>7. ReturnInv
  BY <1>1 DEF ReturnInv, LabelsKeepTheLetters
<1>8. HostnameInv /\ LettersInv /\ UnchangedInv /\ SuffixInv /\ LabelInv
  BY <1>1 DEF HostnameInv, LettersInv, UnchangedInv, SuffixInv, LabelInv
<1> QED
  BY <1>5, <1>6, <1>7, <1>8 DEF IInv

LEMMA NextKeepsInvariant ==
  ASSUME IInv, [Next]_vars
  PROVE  IInv'
<1>1. TypeOK /\ LoopInv /\ ReturnInv /\ CallerInv
  BY DEF IInv, CallerInv
<1>2. TypeOK'
  BY <1>1, NextIsTyped
<1> SUFFICES LoopInv' /\ ReturnInv' /\ CallerInv'
  BY <1>2 DEF IInv, CallerInv
<1>3. ASSUME call' = "none" PROVE LoopInv' /\ ReturnInv'
  BY <1>3 DEF LoopInv, ReturnInv, LabelsKeepTheLetters
<1>4. CASE HostnameTurn \/ LabelTurn
  <2>1. Turn
    BY <1>4 DEF HostnameTurn, LabelTurn
  <2>2. call = "running" /\ call' = "running"
        /\ UNCHANGED <<input, stage, text, hostname, from, suffix>>
    BY <2>1 DEF Turn, AtCharacter
  <2>3. ReturnInv'
    BY <2>2 DEF ReturnInv, LabelsKeepTheLetters
  <2> QED
    BY <1>1, <2>1, <2>2, <2>3, TurnKeepsLoopInv, LoopKeepsCallers
<1>5. CASE HostnameReturns \/ LabelReturns
  <2>1. Return(Kept(builder, {"-"}))
    BY <1>5 DEF HostnameReturns, LabelReturns
  <2>2. call = "running" /\ call' = "returned"
        /\ UNCHANGED <<input, stage, text, hostname, from, suffix>>
    BY <2>1 DEF Return, loopVars
  <2>3. LoopInv'
    BY <2>2 DEF LoopInv
  <2> QED
    BY <1>1, <2>1, <2>2, <2>3, ReturnGivesLabel, LoopKeepsCallers
<1>6. CASE validateResolvedHostname
  BY <1>1, <1>3, <1>6, ValidateKeepsCallers DEF validateResolvedHostname
<1>7. CASE NextPart
  <2>1. Call(SubSeq(Value, from, PartEnd - 1)) /\ from <= Len(Value) + 1
    BY <1>7 DEF NextPart
  <2>2. LoopInv'
    BY <1>1, <2>1, PartIs, CallBegins
  <2>3. ReturnInv'
    BY <2>1 DEF Call, ReturnInv, LabelsKeepTheLetters
  <2> QED
    BY <1>1, <1>7, <2>2, <2>3, NextPartKeepsCallers
<1>8. CASE PartReturned
  BY <1>1, <1>3, <1>8, PartReturnedKeepsCallers DEF PartReturned
<1>9. CASE RefuseSuffix
  <2>1. call' = "none"
    BY <1>9 DEF RefuseSuffix, NoMoreParts
  <2> QED
    BY <1>1, <1>3, <1>9, <2>1, RefuseKeepsCallers
<1>10. CASE LabelHostname
  <2>1. Call(hostname) /\ hostname \in Seq(Characters)
    BY <1>1, <1>10, LabelTexts DEF LabelHostname, TypeOK, LabelCharacters
  <2>2. LoopInv'
    BY <2>1, CallBegins
  <2>3. ReturnInv'
    BY <2>1 DEF Call, ReturnInv, LabelsKeepTheLetters
  <2> QED
    BY <1>1, <1>10, <2>2, <2>3, LabelHostnameKeepsCallers
<1>11. CASE FormDomain
  BY <1>1, <1>3, <1>11, FormDomainKeepsCallers DEF FormDomain
<1>12. CASE UNCHANGED vars
  <2>1. Value' = Value
    BY <1>12 DEF vars, Value
  <2>2. LoopInv'
    BY <1>1, <1>12 DEF vars, LoopInv, Written, SingleHyphens, HyphensKept, Copied
  <2>3. ReturnInv'
    BY <1>1, <1>12 DEF vars, ReturnInv, LabelsKeepTheLetters
  <2>4. CallerInv'
    BY <1>1, <1>12, <2>1 DEF vars, CallerInv, HostnameInv, LettersInv, UnchangedInv, SuffixInv,
                             LabelInv
  <2> QED
    BY <2>2, <2>3, <2>4
<1> QED
  BY <1>4, <1>5, <1>6, <1>7, <1>8, <1>9, <1>10, <1>11, <1>12 DEF Next

\* The inductive invariant: what the loop has written and returned, and what
\* each caller knows of it.
THEOREM NamesInvariant == Spec => []IInv
<1>1. Init => IInv
  BY InitIsInvariant
<1>2. IInv /\ [Next]_vars => IInv'
  BY NextKeepsInvariant
<1> QED
  BY <1>1, <1>2, PTL DEF Spec

-----------------------------------------------------------------------------
(* The properties. *)

\* The loop writes nothing but letters, digits and hyphens, its index stays
\* within the text, and so does what its callers make of the labels.
THEOREM TypesHold == Spec => []TypeOK
<1>1. IInv => TypeOK
  BY DEF IInv
<1> QED
  BY <1>1, NamesInvariant, PTL

\* A guest is left out only for want of a letter in its name, the suffix is
\* refused only for want of one in it, and an accepted hostname is its label.
THEOREM NamesAreServed == Spec => []AcceptedNamesAreServed
<1>1. IInv => AcceptedNamesAreServed
  BY DEF IInv, HostnameInv, SuffixInv, LabelInv, AcceptedNamesAreServed
<1> QED
  BY <1>1, NamesInvariant, PTL

\* The domain that is asked for is its own normal form, and a suffix in normal
\* form is taken as it is.
THEOREM DomainsAreNormal == Spec => []DomainsHaveOneSpelling
<1>1. IInv => DomainsHaveOneSpelling
  <2> SUFFICES ASSUME IInv, stage = "served"
               PROVE  /\ Domain(domain) /\ normalizeDomain(domain) = domain
                      /\ Domain(input.suffix) => suffix = input.suffix
    BY DEF DomainsHaveOneSpelling, Domain
  <2>1. /\ Label(label) /\ suffix # <<>> /\ Domain(suffix)
        /\ Domain(input.suffix) => suffix = input.suffix
    BY DEF IInv, HostnameInv, LabelInv, SuffixInv
  <2>2. label \in Seq(LabelCharacters) /\ suffix \in Seq(SuffixCharacters)
    BY DEF IInv, TypeOK, LabelCharacters, SuffixCharacters
  <2>3. label \in Seq(SuffixCharacters) /\ Domain(label)
    BY <2>1, <2>2, LabelTexts, LabelIsDomain
  <2>4. Domain(domain)
    BY <2>1, <2>2, <2>3, DottedIsDomain DEF domain
  <2>5. domain \in Seq(Characters)
    BY <2>2, <2>3, DottedIs, LabelTexts DEF domain
  <2>6. normalizeDomain(domain) = domain
    BY <2>4, <2>5, NormalIsKept DEF normalizeDomain
  <2> QED
    BY <2>1, <2>4, <2>6
<1> QED
  BY <1>1, NamesInvariant, PTL

\* Every call of the loop, for a name or a part of the suffix, returns the letters
\* and digits of its text in order, with one hyphen between two of them where
\* there are hyphens or underscores in the text, and nothing else.
THEOREM LabelsKeepLetters == Spec => []LabelsKeepTheLetters
<1>1. IInv => LabelsKeepTheLetters
  BY DEF IInv, ReturnInv
<1> QED
  BY <1>1, NamesInvariant, PTL
=============================================================================
