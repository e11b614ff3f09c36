---------------------------- MODULE Configuration ----------------------------
(***************************************************************************)
(* Turning answers into a configuration: the pure functions of             *)
(* packages/domain/src/catalog/configuration.ts, which the browser runs on *)
(* every keystroke and the server again before it saves.                   *)
(*                                                                         *)
(* An answer is the set of option codes it names, {} when there is none.   *)
(* What is typed instead of picked is one of three codes that no option    *)
(* has.  A price is told apart by the options it is made of: base price,   *)
(* deltas, quantity and tax are the same wherever those are.               *)
(***************************************************************************)
CONSTANTS
    Groups,   \* codes of option groups of one product
    Codes,    \* codes of options
    Always,   \* the rule of a group that is always asked
    Typed,    \* a number in range, a text, a yes or a no
    Blank,    \* a text of spaces only
    Invalid   \* a number out of range, a text too long

ASSUME ConfigurationAssumption ==
    /\ {Typed, Blank, Invalid} \cap Codes = {}
    /\ Typed # Blank /\ Typed # Invalid /\ Blank # Invalid
    /\ Always \notin [group : Groups, equals : Codes]

Picks == {"SELECT", "MULTI_SELECT"}
Inputs == Picks \cup {"NUMBER", "TEXT", "BOOLEAN"}

\* The editor writes rules of this form only, or none.
Rules == {Always} \cup [group : Groups, equals : Codes]

GroupSpec == [exists : BOOLEAN, input : Inputs, required : BOOLEAN,
              options : SUBSET Codes, rule : Rules]
NoGroup == [exists |-> FALSE, input |-> "SELECT", required |-> FALSE,
            options |-> {}, rule |-> Always]
ProductSpec == [Groups -> GroupSpec]

Values == SUBSET (Codes \cup {Typed, Blank, Invalid})
Answers == [Groups -> Values]
Unanswered == [g \in Groups |-> {}]

Answered(value) == value # {}

\* What the control of a group lets a person enter, from what is there.
Entries(group) ==
    CASE group.input = "SELECT" -> {{}} \cup {{c} : c \in group.options}
      [] group.input = "MULTI_SELECT" -> SUBSET group.options
      [] group.input = "NUMBER" -> {{}, {Typed}, {Invalid}}
      [] group.input = "TEXT" -> {{}, {Typed}, {Blank}, {Invalid}}
      [] group.input = "BOOLEAN" -> {{Typed}}

\* A rule names one option of one group; an answer that is a list matches
\* when it contains the option.
IsVisible(rule, answers) ==
    rule # Always => rule.equals \in answers[rule.group]

VisibleGroups(spec, answers) ==
    {g \in Groups : spec[g].exists /\ IsVisible(spec[g].rule, answers)}

\* An answer passes when its group takes it.
Fits(group, value) ==
    CASE group.input = "SELECT" -> \E c \in group.options : value = {c}
      [] group.input = "MULTI_SELECT" -> value \subseteq group.options
      [] group.input = "NUMBER" -> value = {Typed}
      [] group.input = "TEXT" -> value # {Invalid}
      [] group.input = "BOOLEAN" -> TRUE

\* Texts are trimmed, and anything is a yes or a no.
Kept(group, value) ==
    CASE group.input = "BOOLEAN" -> {Typed}
      [] group.input = "TEXT" /\ value = {Blank} -> {}
      [] OTHER -> value

\* The questions with a message next to them: a required one without an
\* answer, any one with an answer that does not fit.
Issues(spec, answers) ==
    {g \in VisibleGroups(spec, answers) :
        IF Answered(answers[g]) THEN ~Fits(spec[g], answers[g]) ELSE spec[g].required}

\* Answers to hidden groups are dropped rather than rejected.
Cleaned(spec, answers) ==
    [g \in Groups |->
        IF /\ g \in VisibleGroups(spec, answers)
           /\ Answered(answers[g])
           /\ Fits(spec[g], answers[g])
        THEN Kept(spec[g], answers[g])
        ELSE {}]

\* What a price is made of, besides the base price.
Chosen(spec, answers) ==
    {choice \in Groups \X Codes :
        /\ choice[1] \in VisibleGroups(spec, answers)
        /\ choice[2] \in answers[choice[1]] \cap spec[choice[1]].options}

\* Mutant: the answers are priced as they came.
PriceRaw(spec, answers) == Chosen(spec, answers)

\* priceConfiguration: the answers are cleaned, and the clean ones priced.
Price(spec, answers) == Chosen(spec, Cleaned(spec, answers))

\* No question hangs on one that hangs on one that hangs on another.
Shallow(s) ==
    \A g, h, i \in Groups :
        (s[g].rule # Always /\ s[h].rule # Always /\ s[i].rule # Always)
            => ~(s[g].rule.group = h /\ s[h].rule.group = i)

-----------------------------------------------------------------------------
(* The publish gate of packages/domain/src/catalog/product-policy.ts. *)

\* A group people choose from needs something to choose.
ValidateOptionGroup(group) == group.input \in Picks => group.options # {}

Sellable(hasPrice, configurable, spec) ==
    LET present == {g \in Groups : spec[g].exists}
    IN  /\ hasPrice
        /\ configurable => present # {}
        /\ \A g \in present : ValidateOptionGroup(spec[g])
=============================================================================
