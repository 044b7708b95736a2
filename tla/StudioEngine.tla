---------------------------- MODULE StudioEngine ----------------------------
(***************************************************************************)
(* The questionnaire engine of the Filing Studio: pure functions of the    *)
(* form schema and of a set of answers (worker/studio/engine.py), and the  *)
(* gate that decides whether a set of answers may be exported              *)
(* (worker/exportgen/xbrl.py).                                             *)
(*                                                                         *)
(* An answer value is a member of Numbers or NaN, the text "NaN" which     *)
(* Python's Decimal parses as a number that compares with nothing.  Text,  *)
(* booleans and dates are members of Numbers too: the engine only ever     *)
(* compares them for equality.                                             *)
(***************************************************************************)
EXTENDS Integers, FiniteSets, Folds

CONSTANTS
    Fields,          \* field keys of the form schema
    Numbers,         \* the normalised values an answer may have
    NaN,             \* the value Decimal("NaN")
    NoValue,         \* the value of a field nobody answered
    Accepts,         \* field -> values validate_value lets through
    RequiredFields,  \* fields required and not in a leadership block
    Condition,       \* conditional field -> [on, equals]
    Relations,       \* records [target, operands, tolerance]
    Proposals,       \* the AI proposals (worker/studio/mapper.py)
    NoProposal       \* the evidence of an answer that cites no document

Values == Numbers \cup {NaN}

ASSUME EngineAssumption ==
    /\ Numbers \subseteq Int
    /\ NaN \notin Numbers
    /\ NoValue \notin Values
    /\ NoProposal \notin Proposals
    /\ Accepts \in [Fields -> SUBSET Values]
    /\ RequiredFields \subseteq Fields
    /\ \A f \in DOMAIN Condition :
         Condition[f] \in [on : Fields, equals : Values]
    /\ Relations \subseteq
         [target : Fields, operands : SUBSET Fields, tolerance : Nat]

-----------------------------------------------------------------------------

(* A row of studio_answers; author "none" stands for the absent row.  Its   *)
(* evidence (document, page, quote) is that of one proposal, or empty.     *)
Answer ==
    [value    : Values \cup {NoValue},
     author   : {"none", "user", "ai"},
     review   : {"unreviewed", "accepted", "edited"},
     evidence : Proposals \cup {NoProposal}]

Unanswered ==
    [value |-> NoValue, author |-> "none", review |-> "unreviewed",
     evidence |-> NoProposal]

Answered(a) == {f \in Fields : a[f].author # "none"}

(* validate_value: the values that are stored, everything else is a 422. *)
ValidValue(f, v) == v \in Accepts[f]

(* A conditional field is required only while its condition holds. *)
Required(f, a) ==
    /\ f \in RequiredFields
    /\ f \in DOMAIN Condition => a[Condition[f].on].value = Condition[f].equals

(* L1: a stored value that no longer validates. *)
FieldErrors(a) == {f \in Answered(a) : ~ValidValue(f, a[f].value)}

(* A relation is looked at only when the target and every operand have an  *)
(* answer.                                                                 *)
Reconcilable(rel, a) == {rel.target} \cup rel.operands \subseteq Answered(a)

OperandSum(rel, a) ==
    MapThenFoldSet(LAMBDA x, y : x + y, 0,
                   LAMBDA f : a[f].value,
                   LAMBDA S : CHOOSE f \in S : TRUE,
                   rel.operands)

(* Comparing a NaN difference with the tolerance raises InvalidOperation,  *)
(* which nothing catches.  What is caught, a value that Decimal does not   *)
(* take, does not occur: the form relates number fields only, and a number *)
(* is stored as validate_value rewrote it, as a Decimal.                   *)
ValidationRaises(a) ==
    \E rel \in Relations :
        /\ Reconcilable(rel, a)
        /\ \E f \in {rel.target} \cup rel.operands : a[f].value = NaN

Distance(x, y) == IF x < y THEN y - x ELSE x - y

(* L2: a total that differs from the sum of its components. *)
RelationErrors(a) ==
    {rel.target : rel \in
        {r \in Relations :
            /\ Reconcilable(r, a)
            /\ Distance(a[r.target].value, OperandSum(r, a)) > r.tolerance}}

(* L3: a required field without an answer, an AI answer nobody reviewed. *)
MissingErrors(a) == {f \in Fields \ Answered(a) : Required(f, a)}

UnreviewedErrors(a) ==
    {f \in Answered(a) : a[f].author = "ai" /\ a[f].review = "unreviewed"}

(* export_gate: every finding validate_filing reports without a prior year *)
(* has severity "error", and one is enough to block.  `clean' is the       *)
(* verdict of the Arelle validator on the rendered instance.               *)
ExportAllowed(a, clean) ==
    /\ clean
    /\ FieldErrors(a) = {}
    /\ RelationErrors(a) = {}
    /\ MissingErrors(a) = {}
    /\ UnreviewedErrors(a) = {}

=============================================================================
