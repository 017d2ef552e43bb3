------------------------------ MODULE LlmClient ------------------------------
(***************************************************************************)
(* What llm_client makes of a customer's message and of a provider's       *)
(* answer, and what ptp_extractor accepts as a promise.  There is no state *)
(* here; CustomerReply applies these operators to replies that arrive      *)
(* together, ContactJob uses the retry rules for drafts.                   *)
(*                                                                         *)
(* A message is described by what its text contains: phrases of the        *)
(* lists the code looks for, an amount, and a word or date for a day.      *)
(* Amounts are classes relative to the outstanding amount.  Days are       *)
(* merchant-local dates, numbered; day d falls on weekday d % 7.           *)
(***************************************************************************)
EXTENDS Integers

CONSTANT Horizon     \* DEFAULT_HORIZON_DAYS, below MAX_HORIZON_DAYS

ASSUME HorizonAssumption == Horizon \in 0..90

NoDay   == -1        \* no date
JunkDay == -2        \* a date that is not YYYY-MM-DD

\* An amount a text names, or a JSON value: NaN is a number to json.loads
\* and to float().
Amounts == {"none", "not positive", "part", "excess", "nan", "no number"}
Phrases == {"injection", "opt out", "dispute", "paid"}
\* <<"iso", d>>, <<"weekday", w>>, or a word.
NoWord == <<"none", 0>>

Message(says, amount, when) == [says |-> says, amount |-> amount, when |-> when]

-----------------------------------------------------------------------------
(* _post_with_retries: what one httpx.post may bring.                      *)

Transient == {"429", "5xx", "timeout", "network error"}
Posts     == Transient \cup {"answered", "unusable answer", "refused", "protocol error"}

\* draft_with_fallback: every failure of the call is a template.
BodyOf(post) == IF post = "answered" THEN "llm" ELSE "template"

-----------------------------------------------------------------------------
(* _simulated_extract, the deterministic path.                             *)

\* _parse_relative_date: a weekday is the next one, a week ahead on that day.
Resolve(when, today) ==
    CASE when[1] = "tomorrow" -> today + 1
      [] when[1] = "today"    -> today
      [] when[1] = "weekday"  -> LET ahead == (when[2] - today) % 7
                                 IN today + (IF ahead = 0 THEN 7 ELSE ahead)
      [] when[1] = "iso"      -> when[2]
      [] OTHER                -> NoDay

Extraction(intent, amount, day, sure, by) ==
    [intent |-> intent, amount |-> amount, day |-> day, sure |-> sure, by |-> by]

Simulated(m, today) ==
    LET day == Resolve(m.when, today)
        Read(intent, sure) == Extraction(intent, m.amount, day, sure, "deterministic")
        Only(intent, sure) == Extraction(intent, "none", NoDay, sure, "deterministic")
    IN CASE "injection" \in m.says -> Only("unclear", FALSE)
         [] "opt out" \in m.says /\ "injection" \notin m.says -> Only("not_a_promise", TRUE)
         [] "dispute" \in m.says /\ m.says \cap {"injection", "opt out"} = {} -> Only("dispute", TRUE)
         [] OTHER -> IF m.amount # "none" /\ day # NoDay
                     THEN Read("promise_to_pay", TRUE) ELSE Read("unclear", FALSE)

-----------------------------------------------------------------------------
(* extract_with_fallback, with a provider.                                 *)

ValidIntents == {"promise_to_pay", "not_a_promise", "uncertain", "payment_claim", "dispute", "unclear"}

\* An answer of the provider: nothing (any LLMAPIError, retries included),
\* JSON of another shape than the provider's, or the object in its text.
Fails     == [kind |-> "fails"]
Shapeless == [kind |-> "shapeless"]
Object(intent, amount, day, confidence) ==
    [kind |-> "object", intent |-> intent, amount |-> amount, day |-> day, confidence |-> confidence]

\* _validate_structured_output: amt <= 0 does not hold of NaN.
Accepted(o) == /\ o.intent \in ValidIntents
               /\ o.amount \notin {"not positive", "no number"}
               /\ o.day # JunkDay
               /\ o.confidence # "out of bounds"

\* Fault, not in the code: what the model says of such a text is kept.
Trusted(m, e) == e
\* A text that gives instructions is not followed, whatever the model says.
Downgraded(m, e) == IF "injection" \in m.says
                    THEN Extraction("uncertain", "none", NoDay, FALSE, "llm") ELSE e

\* The exception that neither extract_ptp_intent nor its wrapper catches.
Raised == Extraction("exception", "none", NoDay, FALSE, "nobody")

Extract(m, today, provider, answer) ==
    CASE provider = "anthropic" /\ answer.kind = "shapeless" -> Raised
      [] provider # "disabled" /\ answer.kind = "object" ->
             IF Accepted(answer)
             THEN Downgraded(m, Extraction(answer.intent, answer.amount, answer.day,
                                           answer.confidence = "high", "llm"))
             ELSE Simulated(m, today)
      [] OTHER -> Simulated(m, today)

-----------------------------------------------------------------------------
(* ptp_extractor.validate_promise: no comparison with NaN rejects it.      *)

\* Fault, not in the code: a day that is over is accepted.
ValidLater(e, today) ==
    /\ e.intent = "promise_to_pay" /\ e.sure
    /\ e.amount \in {"part", "nan"}
    /\ e.day # NoDay /\ e.day <= today + Horizon
Valid(e, today) ==
    /\ e.intent = "promise_to_pay" /\ e.sure
    /\ e.amount \in {"part", "nan"}
    /\ e.day # NoDay /\ e.day >= today /\ e.day <= today + Horizon
=============================================================================
