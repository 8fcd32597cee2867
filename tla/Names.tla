-------------------------------- MODULE Names --------------------------------
(***************************************************************************)
(* How a guest's name and the DNS suffix become the domain of a rewrite:   *)
(* normalizeHostname of discovery/resolver.go, then normalizeDNSSuffix,    *)
(* normalizeDNSLabel and the domain that BuildDesiredRewrites forms, in    *)
(* reconcile/plan.go.  The other modules take domains as given, in one     *)
(* normalised spelling; this one shows that there is one.                  *)
(*                                                                         *)
(* The steps are the turns of the loops: of the one over the characters of *)
(* a value, which both packages have a copy of, and of the one over the    *)
(* parts of the suffix, which calls the former.  Characters are told apart *)
(* as far as the code tells them apart.                                    *)
(***************************************************************************)
EXTENDS Integers, Sequences, FiniteSetsExt

CONSTANTS Letters,    \* a to z, 0 to 9
          Capitals,   \* what strings.ToLower makes one of them
          LowerOf,    \* which one
          Blanks,     \* what strings.TrimSpace trims
          Others,     \* all other characters
          Inputs      \* names of guests (or of their descriptions), with a suffix

Marks == {"-", "_", "."}

Characters == Letters \cup Capitals \cup Blanks \cup Others \cup Marks

ASSUME CharacterAssumption ==
    /\ Letters \cap Capitals = {}
    /\ (Letters \cup Capitals) \cap (Blanks \cup Marks) = {}
    /\ LowerOf \in [Capitals -> Letters]

ASSUME InputAssumption ==
    Inputs \subseteq [name : Seq(Characters), suffix : Seq(Characters)]

VARIABLES
    input,            \* the guest's name and DNS_SUFFIX
    stage,            \* the caller: "hostname", "suffix", "label"; or how it ended
    call,             \* "running" in the loop over characters, "returned", or "none"
    text,             \* the value it reads, in lower case and hyphenated
    position,         \* the character it is at
    builder, previousHyphen,
    label,            \* what it returned
    hostname,         \* Hostname of the resolved guest
    from,             \* where the next part of the suffix begins
    suffix,           \* the parts so far, joined
    \* History: where each character of builder, and of label, was in text
    origin, places

vars == <<input, stage, call, text, position, builder, previousHyphen, label,
          hostname, from, suffix, origin, places>>

loopVars == <<text, position, builder, previousHyphen, origin>>

-----------------------------------------------------------------------------
(* Go's package strings. *)

Lower(c) == IF c \in Capitals THEN LowerOf[c] ELSE c

ToLower(value) == [k \in DOMAIN value |-> Lower(value[k])]

Hyphenated(value) == [k \in DOMAIN value |-> IF value[k] = "_" THEN "-" ELSE value[k]]

Kept(value, cutset) == {k \in DOMAIN value : value[k] \notin cutset}

Between(value, kept) == IF kept = {} THEN <<>> ELSE SubSeq(value, Min(kept), Max(kept))

Trim(value, cutset) == Between(value, Kept(value, cutset))

TrimSpace(value) == Trim(value, Blanks)

-----------------------------------------------------------------------------
(* The loop over the characters of a value. *)

\* What the loop reads of the value it is called for.
Reading(value) == Hyphenated(ToLower(TrimSpace(value)))

Call(value) ==
    /\ call' = "running"
    /\ text' = Reading(value)
    /\ position' = 1
    /\ builder' = <<>>
    /\ previousHyphen' = FALSE
    /\ origin' = <<>>

AtCharacter == call = "running" /\ position <= Len(text)

Write(hyphen) ==
    /\ builder' = Append(builder, text[position])
    /\ origin' = Append(origin, position)
    /\ previousHyphen' = hyphen

\* Slip: a character that is dropped ends a run of hyphens.
TurnForgetful ==
    /\ AtCharacter
    /\ \/ text[position] \in Letters /\ Write(FALSE)
       \/ text[position] = "-" /\ ~previousHyphen /\ Write(TRUE)
       \/ /\ text[position] \notin Letters
          /\ text[position] = "-" => previousHyphen
          /\ previousHyphen' = FALSE
          /\ UNCHANGED <<builder, origin>>
    /\ position' = position + 1
    /\ UNCHANGED <<input, stage, call, text, label, places, hostname, from, suffix>>

\* Slip: there is no character that is dropped.
TurnKeepingAll ==
    /\ AtCharacter
    /\ Write(text[position] = "-")
    /\ position' = position + 1
    /\ UNCHANGED <<input, stage, call, text, label, places, hostname, from, suffix>>

\* Letters and digits are written, a hyphen unless one was written last, and
\* all others are dropped.
Turn ==
    /\ AtCharacter
    /\ \/ text[position] \in Letters /\ Write(FALSE)
       \/ text[position] = "-" /\ ~previousHyphen /\ Write(TRUE)
       \/ /\ text[position] \notin Letters
          /\ text[position] = "-" => previousHyphen
          /\ UNCHANGED <<builder, origin, previousHyphen>>
    /\ position' = position + 1
    /\ UNCHANGED <<input, stage, call, text, label, places, hostname, from, suffix>>

Return(kept) ==
    /\ call = "running"
    /\ position > Len(text)
    /\ call' = "returned"
    /\ label' = Between(builder, kept)
    /\ places' = Between(origin, kept)
    /\ UNCHANGED <<input, stage, loopVars, hostname, from, suffix>>

\* The copy of package discovery
HostnameTurn == stage = "hostname" /\ Turn

HostnameReturns == stage = "hostname" /\ Return(Kept(builder, {"-"}))

\* Slip: only one of the copies knows of hyphens.
LabelTurnWithoutHyphens ==
    /\ stage # "hostname"
    /\ AtCharacter
    /\ IF text[position] \in Letters
         THEN Write(FALSE)
         ELSE UNCHANGED <<builder, origin, previousHyphen>>
    /\ position' = position + 1
    /\ UNCHANGED <<input, stage, call, text, label, places, hostname, from, suffix>>

\* The copy of package reconcile
LabelTurn == stage # "hostname" /\ Turn

LabelReturns == stage # "hostname" /\ Return(Kept(builder, {"-"}))

-----------------------------------------------------------------------------
(* The callers. *)

validateResolvedHostname ==
    /\ stage = "hostname"
    /\ call = "returned"
    /\ call' = "none"
    /\ hostname' = label
    /\ stage' = IF label = <<>> THEN "left out" ELSE "suffix"
    /\ UNCHANGED <<input, loopVars, label, places, from, suffix>>

\* DNS_SUFFIX as it is split, one part after another.
Value == Trim(ToLower(TrimSpace(input.suffix)), {"."})

PartEnd == Min({k \in from .. Len(Value) : Value[k] = "."} \cup {Len(Value) + 1})

NextPart ==
    /\ stage = "suffix"
    /\ call = "none"
    /\ from <= Len(Value) + 1
    /\ Call(SubSeq(Value, from, PartEnd - 1))
    /\ from' = PartEnd + 1
    /\ UNCHANGED <<input, stage, label, places, hostname, suffix>>

Joining(parts, part) == IF parts = <<>> THEN part ELSE parts \o <<".">> \o part

\* Slip: labels that come out empty are kept.
PartReturnedKeepingAll ==
    /\ stage = "suffix"
    /\ call = "returned"
    /\ call' = "none"
    /\ suffix' = Joining(suffix, label)
    /\ UNCHANGED <<input, stage, loopVars, label, places, hostname, from>>

PartReturned ==
    /\ stage = "suffix"
    /\ call = "returned"
    /\ call' = "none"
    /\ suffix' = IF label = <<>> THEN suffix ELSE Joining(suffix, label)
    /\ UNCHANGED <<input, stage, loopVars, label, places, hostname, from>>

NoMoreParts == stage = "suffix" /\ call = "none" /\ from > Len(Value) + 1

\* A refusal fails the synchronisation, for all guests.
RefuseSuffix ==
    /\ NoMoreParts
    /\ suffix = <<>>
    /\ stage' = "refused"
    /\ UNCHANGED <<input, call, loopVars, label, places, hostname, from, suffix>>

LabelHostname ==
    /\ NoMoreParts
    /\ suffix # <<>>
    /\ stage' = "label"
    /\ Call(hostname)
    /\ UNCHANGED <<input, label, places, hostname, from, suffix>>

FormDomain ==
    /\ stage = "label"
    /\ call = "returned"
    /\ call' = "none"
    /\ stage' = IF label = <<>> THEN "refused" ELSE "served"
    /\ UNCHANGED <<input, loopVars, label, places, hostname, from, suffix>>

\* The domain of the rewrite, once served.
domain == label \o <<".">> \o suffix

normalizeDomain(value) == ToLower(Trim(TrimSpace(value), {"."}))

-----------------------------------------------------------------------------
Init ==
    /\ input \in Inputs
    /\ stage = "hostname"
    /\ call = "running"
    /\ text = Reading(input.name)
    /\ position = 1
    /\ previousHyphen = FALSE
    /\ from = 1
    /\ builder = <<>> /\ origin = <<>>
    /\ label = <<>> /\ places = <<>>
    /\ hostname = <<>>
    /\ suffix = <<>>

Next ==
    \/ HostnameTurn \/ HostnameReturns \/ validateResolvedHostname
    \/ NextPart \/ LabelTurn \/ LabelReturns \/ PartReturned
    \/ RefuseSuffix \/ LabelHostname \/ FormDomain

Spec == Init /\ [][Next]_vars

-----------------------------------------------------------------------------
TypeOK ==
    /\ input \in Inputs
    /\ stage \in {"hostname", "suffix", "label", "left out", "refused", "served"}
    /\ call \in {"none", "running", "returned"}
    /\ text \in Seq(Characters)
    /\ position \in 1 .. Len(text) + 1
    /\ builder \in Seq(Letters \cup {"-"})
    /\ previousHyphen \in BOOLEAN
    /\ origin \in Seq(DOMAIN text)
    /\ label \in Seq(Letters \cup {"-"})
    /\ hostname \in Seq(Letters \cup {"-"})
    /\ from \in 1 .. Len(Value) + 2
    /\ suffix \in Seq(Letters \cup {"-", "."})

HasLetter(value) == \E k \in DOMAIN value : Lower(value[k]) \in Letters

\* A guest is left out only if there is no letter or digit in its name, and
\* every synchronisation is refused only if there is none in the suffix.  The
\* hostname that discovery accepts is the label that is served: the two copies
\* of the normalisation agree, and a name they disagree on would stop the
\* synchronisation of every guest (resolver.go:99,161; plan.go:31,46).
AcceptedNamesAreServed ==
    /\ stage = "left out" => ~HasLetter(input.name)
    /\ stage = "refused" => ~HasLetter(input.suffix)
    /\ stage = "served" => label = hostname

\* Letters and digits, with single ones of the joints between two of them.
Joined(value, joints) ==
    /\ value # <<>>
    /\ \A k \in DOMAIN value :
          \/ value[k] \in Letters
          \/ /\ value[k] \in joints
             /\ {k - 1, k + 1} \subseteq DOMAIN value
             /\ value[k - 1] \in Letters /\ value[k + 1] \in Letters

\* A domain that is asked for is made of labels and is its own normal form, and
\* so is a suffix: the index of what AdGuard Home lists, the keys of the state
\* file and the next synchronisation all know the domain by the same text
\* (plan.go:62,166; store.go:184).
DomainsHaveOneSpelling ==
    stage = "served" =>
        /\ Joined(domain, {"-", "."})
        /\ normalizeDomain(domain) = domain
        /\ Joined(input.suffix, {"-", "."}) => suffix = input.suffix

\* A label is the letters and digits of its text, in order: none is lost, moved
\* or written twice.  One hyphen stands between two of them exactly where there
\* are hyphens or underscores between them in the text; blanks, dots and all
\* other characters are dropped and part nothing, so that "My App!" becomes
\* "myapp" (plan.go:199-226, resolver_test.go:502-506).
LabelsKeepTheLetters ==
    call = "returned" =>
        /\ label # <<>> => Joined(label, {"-"})
        /\ DOMAIN places = DOMAIN label
        /\ \A k \in DOMAIN label : places[k] \in DOMAIN text /\ label[k] = text[places[k]]
        /\ \A k \in 2 .. Len(label) : places[k - 1] < places[k]
        /\ \A p \in DOMAIN text : text[p] \in Letters => \E k \in DOMAIN label : places[k] = p
        /\ \A k \in 2 .. Len(label) :
              {label[k - 1], label[k]} \subseteq Letters =>
                  \A p \in places[k - 1] + 1 .. places[k] - 1 : text[p] # "-"
=============================================================================
