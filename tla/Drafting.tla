------------------------------ MODULE Drafting ------------------------------
(***************************************************************************)
(* The deterministic body and the validator of a drafted one               *)
(* (domain/drafting.py).                                                   *)
(*                                                                         *)
(* A drafted text is a record [form, length, figures, quotes, banned,      *)
(* personal]: `form' is what json.loads makes of it, `figures' the digit   *)
(* runs of its body, `quotes' the facts whose value it repeats.            *)
(***************************************************************************)
EXTENDS TriggerEngine

CONSTANTS NoBody, TemplateBody

(* A template renders when every placeholder it names is a carried fact. *)
Renders(e) == HasTemplate(e) /\ Templates[Rule(e).template] \subseteq Facts(e)

DeterministicBody(e) == IF Renders(e) THEN TemplateBody ELSE NoBody

(* A plausible bug: any figure of the event grounds a draft, required or not. *)
GroundedFiguresOfEvent(e) ==
  UNION {e.attributes[name] : name \in DOMAIN e.attributes}

GroundedFigures(e) == UNION {e.attributes[name] : name \in Facts(e)}

DraftReasons(text, e) ==
  IF text.form # "body"
  THEN {text.form}  \* draft_not_json, draft_not_an_object, draft_body_missing
  ELSE LET Holds(reason) ==
             \/ reason = "draft_too_long" /\ text.length > MaxBodyChars
             \/ /\ reason = "draft_ungrounded_figure"
                /\ ~(text.figures \subseteq GroundedFigures(e))
             \/ /\ reason = "draft_missing_required_fact"
                /\ ~(Facts(e) \subseteq text.quotes)
             \/ reason = "draft_unsupported_claim" /\ text.banned
             \/ reason = "draft_contains_personal_data" /\ text.personal
       IN  {reason \in {"draft_too_long", "draft_ungrounded_figure",
                        "draft_missing_required_fact",
                        "draft_unsupported_claim",
                        "draft_contains_personal_data"} : Holds(reason)}

Accepted(text, e) == DraftReasons(text, e) = {}

=============================================================================
