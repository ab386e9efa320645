--------------------------- MODULE RequestContract --------------------------
(***************************************************************************)
(* The broker's request contract (broker_contract.py): which propose       *)
(* requests reach the adapter, and which payloads the gogcli backend takes *)
(* once an approval is consumed.                                           *)
(*                                                                         *)
(* A request has an action, its other top-level fields and the entries of  *)
(* its "parameters" object.  A value is known by its kind:                 *)
(*   null, blank, white             None; an empty string; one of spaces   *)
(*   line, address, digits          one clean NFKC line; one that is a     *)
(*                                  bare ASCII e-mail address; one that    *)
(*                                  int() reads as a number in 1..100      *)
(*   text, long, hidden             a clean string of several lines or     *)
(*                                  over 4096 characters; one over 200000; *)
(*                                  one with control or format characters  *)
(*   number, outofrange             a number in 1..100; another one but 0  *)
(*   empty, lines, addresses        a list: of nothing, lines, addresses   *)
(*   mixed                          a list of lines, numbers and nulls     *)
(*   oversized, nested              a list over 100 items; one of lists    *)
(*   object                         a JSON object                          *)
(***************************************************************************)

ProposalFields ==
  {"actor_id", "thread_id", "message_ids", "content", "recipients",
   "attachment_ids", "parameters", "justification", "sender", "subject",
   "search_query", "message_id", "max_results", "metadata", "cc", "bcc",
   "reply_to_message_id", "reply_to", "requested_at", "session_id", "correlation_id"}

Kinds ==
  {"null", "blank", "white", "line", "address", "digits", "text", "long", "hidden", "number",
   "outofrange", "empty", "lines", "addresses", "mixed", "oversized", "nested", "object"}

ReplyFields == {"subject", "cc", "bcc", "reply_to_message_id", "reply_to"}

\* COMMON_PARAMETER_FIELDS and ACTION_PARAMETER_FIELDS; an unknown action has
\* the common ones only.
ParametersOf(action) ==
  {"correlation_id", "metadata"} \cup
  CASE action = "read" -> {"search_query", "message_id", "max_results"}
    [] action \in {"summarize", "classify", "extract_entities", "recommend_draft"} -> {"message_id"}
    [] action \in {"create_draft", "send", "forward"} -> ReplyFields
    [] action = "apply_label" -> {"label"}
    [] action = "download_attachment" -> {"output_dir"}
    [] action = "move" -> {"destination"}
    [] OTHER -> {}

-----------------------------------------------------------------------------
(***************************************************************************)
(* The kinds each validator lets through.                                  *)
(***************************************************************************)
\* _validate_single_line
SingleLine == {"null", "blank", "white", "line", "address", "digits", "number", "outofrange"}

\* _validate_single_line with allow_list
SingleLines == SingleLine \cup {"empty", "lines", "addresses", "mixed"}

\* _validate_text_field
Text == {"null", "blank", "white", "line", "address", "digits", "text"}

\* _validate_email_field without and with allow_list: a list may be empty, and
\* one address may stand for a list.
Email  == {"null", "address"}
Emails == Email \cup {"empty", "addresses"}

\* validate_email_list, of the backend: lists only.
EmailList == {"empty", "addresses"}

\* _validate_max_results, which takes what int() reads
MaxResults == {"null", "number", "digits"}

\* Mutant of FieldKinds: content is checked by nobody.
FieldKindsUncheckedContent(f) ==
  CASE f \in {"recipients", "cc", "bcc"}       -> Emails
    [] f \in {"sender", "reply_to"}            -> Email
    [] f \in {"message_ids", "attachment_ids"} -> SingleLines
    [] f = "content"                           -> Kinds
    [] f = "justification"                     -> Text
    [] f = "max_results"                       -> MaxResults
    [] f \in {"metadata", "parameters"}        -> {"null", "object"}
    [] OTHER                                   -> SingleLine

\* _validate_payload_values
FieldKinds(f) ==
  CASE f \in {"recipients", "cc", "bcc"}       -> Emails
    [] f \in {"sender", "reply_to"}            -> Email
    [] f \in {"message_ids", "attachment_ids"} -> SingleLines
    [] f \in {"content", "justification"}      -> Text
    [] f = "max_results"                       -> MaxResults
    [] f \in {"metadata", "parameters"}        -> {"null", "object"}
    [] OTHER                                   -> SingleLine

\* _validate_parameters, one entry
ParameterKinds(k) ==
  CASE k = "metadata"       -> {"object"}
    [] k = "max_results"    -> MaxResults
    [] k \in {"cc", "bcc"}  -> Emails
    [] k = "reply_to"       -> Email
    [] OTHER                -> SingleLine

-----------------------------------------------------------------------------
\* The value of a field of request q; one that is not there reads as None.
Value(q, f) == IF f \in DOMAIN q.fields THEN q.fields[f] ELSE "null"

\* validate_broker_proposal_payload
Valid(q) ==
  /\ DOMAIN q.fields \subseteq ProposalFields
  /\ Value(q, "actor_id") \notin {"null", "blank"}
  /\ \A f \in DOMAIN q.fields : q.fields[f] \in FieldKinds(f)
  /\ DOMAIN q.params \subseteq ParametersOf(q.action)
  /\ \A k \in DOMAIN q.params : q.params[k] \in ParameterKinds(k)

\* propose copies these top-level fields into the parameters, where they win
\* over an entry of the same name; the parameters an action may have do not
\* bound what comes in this way.
Parameter(q, k) ==
  IF k \in {"subject", "reply_to_message_id"} /\ Value(q, k) # "null" THEN Value(q, k)
  ELSE IF k \in DOMAIN q.params THEN q.params[k] ELSE "null"

\* A sender given as null passes the contract, but not the search for an "@".
Assessable(q) == "sender" \in DOMAIN q.fields => q.fields["sender"] # "null"

\* The hash of a proposal, which its events and its approval carry, sorts
\* message_ids and attachment_ids: Python does that neither with a number nor
\* with strings among other values.
Loggable(q) ==
  \A f \in {"message_ids", "attachment_ids"} : Value(q, f) \notin {"mixed", "number", "outofrange"}

\* GogCLIBackend.execute creates the draft: recipients and content are there
\* and every value passes the contract's validators once more.  A single
\* address given for recipients has become the list of its characters in the
\* approval record, which validate_email_list refuses.
BackendTakes(q) ==
  /\ q.action = "create_draft"
  /\ Value(q, "recipients") \in EmailList \ {"empty"}
  /\ Value(q, "content") \in Text \ {"null", "blank", "white"}
  /\ Parameter(q, "subject") \in SingleLine
  /\ Value(q, "thread_id") \in SingleLine
  /\ Parameter(q, "reply_to_message_id") \in SingleLine
=============================================================================
