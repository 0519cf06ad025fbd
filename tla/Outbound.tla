------------------------------ MODULE Outbound ------------------------------
(***************************************************************************)
(* One message on its way to the WhatsApp Cloud API.  Three callers reach  *)
(* the same sender: the use case that validates a request and builds its   *)
(* payload (send_outbound_message.py), the inbound pipeline, which makes   *)
(* the payload of a reply itself (_inbound_helpers.py), and the funnel,    *)
(* which sends the scheduling template.  The sender posts the payload with *)
(* retries (http_base.py) and reads the answer (http_client.py).           *)
(*                                                                         *)
(* Texts are counted in characters and in bytes, an absent field is empty. *)
(* What the API does with a request is up to the API: it may accept it and *)
(* its answer may be lost.                                                 *)
(***************************************************************************)
EXTENDS Naturals, Integers, Sequences, FiniteSets

CONSTANTS
    Callers,            \* subset of {"use_case", "pipeline", "template"}
    Requests,           \* caller -> the requests it may be called with
    MaxRetries          \* HttpClientConfig.max_retries

ASSUME OutboundAssumption ==
    /\ Callers \subseteq {"use_case", "pipeline", "template"}
    /\ MaxRetries \in Nat
    /\ \A c \in Callers \ {"pipeline"} : \A r \in Requests[c] :
          r.template \in Nat /\ r.media \subseteq {"id", "url"}
    /\ "template" \in Callers =>
          \A r \in Requests["template"] : r.type = "template" /\ r.template > 0

VARIABLES
    request,    \* the caller, its OutboundMessageRequest and the API token
    payload,    \* what is posted, NoPayload before it is built
    pc,         \* "validate", "build", "authorize", "post", "read", "done"
    attempt,    \* posts that failed and were followed by another
    answer,     \* the last outcome of a post
    response,   \* OutboundMessageResponse
    \* what the outside saw
    posts,      \* posts made
    accepted,   \* posts the API accepted: messages the user receives
    silent      \* accepted posts whose acceptance never reached the sender

vars == <<request, payload, pc, attempt, answer, response, posts, accepted, silent>>

----------------------------------------------------------------------------
(* Validation: each validator is the condition under which it raises       *)
(* nothing.                                                                *)

MAX_TEXT_LENGTH == 4096
MAX_CAPTION_LENGTH == 1024
MAX_BUTTON_TEXT_LENGTH == 20
MAX_BUTTONS_PER_MESSAGE == 3
MAX_TEMPLATE_NAME_LENGTH == 512
MAX_IDEMPOTENCY_KEY_LENGTH == 255

MessageType ==
    {"text", "image", "video", "audio", "document", "sticker", "location", "contacts",
     "address", "interactive", "template", "reaction"}
InteractiveType == {"button", "list", "flow", "cta_url", "location_request_message"}
MessageCategory == {"MARKETING", "UTILITY", "AUTHENTICATION", "SERVICE"}
MediaTypes == {"image", "video", "audio", "document", "sticker"}
TypesWithCaption == {"image", "video", "document"}

\* The type a MIME type belongs to: one name stands for the types of a frozenset.
MimeTypeMap ==
    [t \in {"image", "video", "audio", "document"} |->
        CASE t = "image" -> {"image/jpeg", "image/png"}
          [] t = "video" -> {"video/mp4", "video/3gpp"}
          [] t = "audio" -> {"audio/aac", "audio/mp4", "audio/amr", "audio/ogg"}
          [] t = "document" -> {"application/pdf", "application/msword"}]

HasText(r) == r.text.chars > 0

ValidateRecipient(r) == r.to = "e164"

ValidateText(r) ==
    HasText(r) /\ r.text.chars <= MAX_TEXT_LENGTH /\ r.text.bytes <= MAX_TEXT_LENGTH

ValidateMimeType(mime, t) == t \in DOMAIN MimeTypeMap => mime \in MimeTypeMap[t]

ValidateMedia(r) ==
    /\ r.media # {}
    /\ r.type \in TypesWithCaption => r.text.chars <= MAX_CAPTION_LENGTH
    /\ r.mime # "" => ValidateMimeType(r.mime, r.type)

\* A button is the set of its fields and the length of its title.
WellFormedButton(b) == {"id", "title"} \subseteq b.fields

ValidateButton(r) ==
    /\ Len(r.buttons) \in 1..MAX_BUTTONS_PER_MESSAGE
    /\ \A i \in DOMAIN r.buttons :
          WellFormedButton(r.buttons[i]) /\ r.buttons[i].title <= MAX_BUTTON_TEXT_LENGTH

ValidateList(r) == r.buttons # <<>>

FlowFields == {"flow_id", "flow_message_version", "flow_token", "flow_cta", "flow_action"}

ValidateFlow(r) == FlowFields \subseteq r.fields /\ r.label <= MAX_BUTTON_TEXT_LENGTH

ValidateCtaUrl(r) ==
    /\ {"cta_url", "cta_display_text"} \subseteq r.fields
    /\ r.label <= MAX_BUTTON_TEXT_LENGTH
    /\ r.buttons = <<>>

ValidateLocationRequest(r) == r.buttons = <<>>

ValidateInteractive(r) ==
    /\ r.interactive \in InteractiveType
    /\ HasText(r) /\ r.text.chars <= MAX_TEXT_LENGTH
    /\ CASE r.interactive = "button" -> ValidateButton(r)
         [] r.interactive = "list" -> ValidateList(r)
         [] r.interactive = "flow" -> ValidateFlow(r)
         [] r.interactive = "cta_url" -> ValidateCtaUrl(r)
         [] r.interactive = "location_request_message" -> ValidateLocationRequest(r)

ValidateTemplate(r) == r.template \in 1..MAX_TEMPLATE_NAME_LENGTH

\* A location is a pair of degrees, or empty when one of the two is absent.
ValidateLocation(r) ==
    r.location # <<>> /\ r.location[1] \in -90..90 /\ r.location[2] \in -180..180

AddressFields == {"street", "city", "state", "zip_code", "country_code"}

ValidateAddress(r) == r.fields \cap AddressFields # {}

ValidateMessageType(r) == r.type \in MessageType

DispatchTypeValidation(r) ==
    CASE r.type = "text" -> ValidateText(r)
      [] r.type \in MediaTypes -> ValidateMedia(r)
      [] r.type = "interactive" -> ValidateInteractive(r)
      [] r.type = "location" -> ValidateLocation(r)
      [] r.type = "address" -> ValidateAddress(r)
      [] r.type = "template" -> ValidateTemplate(r)
      [] OTHER -> TRUE

ValidateCategory(r) == r.category # "" => r.category \in MessageCategory

ValidateIdempotency(r) == r.key <= MAX_IDEMPOTENCY_KEY_LENGTH

ValidateOutboundRequest(r) ==
    /\ ValidateRecipient(r)
    /\ ValidateMessageType(r)
    /\ DispatchTypeValidation(r)
    /\ ValidateCategory(r)
    /\ ValidateIdempotency(r)

----------------------------------------------------------------------------
(* Payloads: the declared type, the key of the body object and what the    *)
(* object refers to.  A builder that raises yields NoPayload.              *)

NoPayload == [type |-> "", object |-> "", holds |-> "nothing"]

BasePayload(r) == [type |-> r.type, object |-> "", holds |-> "nothing"]

\* Mutated form: the link of a media without id is left out.
MediaObjectById(r) == IF "id" \in r.media THEN "id" ELSE "nothing"

MediaObject(r) ==
    IF "id" \in r.media THEN "id" ELSE IF "url" \in r.media THEN "link" ELSE "nothing"

\* _ACTION_BUILDERS; reading a button without its fields raises KeyError.
Buildable(r) ==
    r.interactive = "button" => \A i \in DOMAIN r.buttons : WellFormedButton(r.buttons[i])

BuildAction(r) ==
    CASE r.interactive = "button" -> "buttons"
      [] r.interactive = "list" -> "sections"
      [] r.interactive = "flow" -> "flow"
      [] r.interactive = "cta_url" -> "cta_url"
      [] r.interactive = "location_request_message" -> "send_location"

BuildInteractive(r) ==
    IF r.interactive \in InteractiveType /\ Buildable(r)
    THEN [BasePayload(r) EXCEPT !.object = "interactive", !.holds = BuildAction(r)]
    ELSE NoPayload

BuildMedia(r) == [BasePayload(r) EXCEPT !.object = r.type, !.holds = MediaObject(r)]

BuildText(r) == [BasePayload(r) EXCEPT !.object = "text", !.holds = "body"]

BuildLocation(r) == [BasePayload(r) EXCEPT !.object = "location", !.holds = "degrees"]

BuildAddress(r) == [BasePayload(r) EXCEPT !.object = "address", !.holds = "lines"]

BuildTemplate(r) ==
    [BasePayload(r) EXCEPT !.object = "template",
                           !.holds = IF "flow_id" \in r.fields THEN "flow button" ELSE "name"]

\* _BUILDERS: no builder for stickers, contacts, reactions and nameless templates.
BuildByType(r) ==
    CASE r.type = "text" -> BuildText(r)
      [] r.type \in MediaTypes \ {"sticker"} -> BuildMedia(r)
      [] r.type = "location" -> BuildLocation(r)
      [] r.type = "address" -> BuildAddress(r)
      [] r.type = "interactive" -> BuildInteractive(r)
      [] OTHER -> NoPayload

BuildFullPayload(r) == IF r.template > 0 THEN BuildTemplate(r) ELSE BuildByType(r)

\* The pipeline's own payload: "kind" is the message_type of the decision, "replyTo" tells
\* whether the id of the answered message is known.
BuildReaction == [type |-> "reaction", object |-> "reaction", holds |-> "emoji"]
BuildReplyInteractive(r) == [type |-> "interactive", object |-> "interactive", holds |-> "nothing"]
FallbackText == [type |-> "text", object |-> "text", holds |-> "body"]

BuildOutboundPayload(r) ==
    CASE r.kind = "reaction" /\ r.replyTo -> BuildReaction
      [] r.kind \in {"interactive_button", "interactive_list"} -> BuildReplyInteractive(r)
      [] OTHER -> FallbackText

----------------------------------------------------------------------------
(* The API, as http_client.py and http_base.py see it.                     *)

\* Answers of status 200 carry an id, no list, an empty list or no JSON at all; those of
\* status 4xx an error object, JSON without one, or no JSON.
OkOutcomes == {"ok", "ok_no_list", "ok_empty_list", "ok_garbled"}
Refusals == {"refused", "refused_plain", "refused_garbled"}
RetryableStatus == {"throttled", "server_error"}
Lost == {"timeout", "connect_error"}
Outcomes == OkOutcomes \cup Refusals \cup RetryableStatus \cup Lost \cup {"broken"}

\* The API takes the message when it says so; when the answer is lost, or is a failure of
\* the server, it may have taken it.
MayAccept == OkOutcomes \cup {"server_error", "timeout", "broken"}
MayRefuse == Outcomes \ OkOutcomes

\* The body object is the one the type names, and refers to something.
WellFormed(p) == p.object = p.type /\ p.holds # "nothing"

----------------------------------------------------------------------------

NoResponse == [success |-> FALSE, code |-> "", id |-> ""]
Failure(code) == [success |-> FALSE, code |-> code, id |-> ""]
Sent(id) == [success |-> TRUE, code |-> "", id |-> id]

Respond(r) == response' = r /\ pc' = "done"

Init ==
    /\ \E c \in Callers : \E r \in Requests[c], t \in BOOLEAN :
          request = [caller |-> c, token |-> t, body |-> r]
    /\ payload = NoPayload
    /\ pc = IF request.caller = "use_case" THEN "validate" ELSE "build"
    /\ attempt = 0
    /\ answer = "none"
    /\ response = NoResponse
    /\ posts = 0 /\ accepted = 0 /\ silent = 0

observed == <<posts, accepted, silent>>

Validate ==
    /\ pc = "validate"
    /\ IF ValidateOutboundRequest(request.body)
       THEN pc' = "build" /\ UNCHANGED response
       ELSE Respond(Failure("VALIDATION_ERROR"))
    /\ UNCHANGED <<request, payload, attempt, answer, observed>>

BuildPayload(req) ==
    IF req.caller = "pipeline" THEN BuildOutboundPayload(req.body) ELSE BuildFullPayload(req.body)

Build ==
    /\ pc = "build"
    /\ payload' = BuildPayload(request)
    /\ IF payload' = NoPayload
       THEN Respond(Failure("PAYLOAD_BUILD_ERROR"))
       ELSE pc' = "authorize" /\ UNCHANGED response
    /\ UNCHANGED <<request, attempt, answer, observed>>

\* A blank access token raises ValueError before anything is posted.
Authorize ==
    /\ pc = "authorize"
    /\ IF request.token
       THEN pc' = "post" /\ UNCHANGED response
       ELSE Respond(Failure("WHATSAPP_API_ERROR"))
    /\ UNCHANGED <<request, payload, attempt, answer, observed>>

\* Mutated form: an answer without an id is taken for a failure that a retry cures.
RetriesWithoutId(o) == o \in RetryableStatus \cup Lost \cup {"ok_no_list"}

Retries(o) == o \in RetryableStatus \cup Lost

Again(o) == Retries(o) /\ attempt < MaxRetries

\* One post: after a retryable outcome the next one follows, as long as there is one; any
\* other exception leaves the loop at once; an answer is read.
Post(o, taken) ==
    /\ pc = "post"
    /\ taken => o \in MayAccept /\ WellFormed(payload)
    /\ ~taken => o \in MayRefuse
    /\ answer' = o
    /\ posts' = posts + 1
    /\ accepted' = IF taken THEN accepted + 1 ELSE accepted
    /\ silent' = IF taken /\ o \notin OkOutcomes THEN silent + 1 ELSE silent
    /\ CASE Again(o) ->
                attempt' = attempt + 1 /\ UNCHANGED <<pc, response>>
         [] ~Again(o) /\ (Retries(o) \/ o = "broken") ->
                Respond(Failure("WHATSAPP_API_ERROR")) /\ UNCHANGED attempt
         [] OTHER ->
                pc' = "read" /\ UNCHANGED <<attempt, response>>
    /\ UNCHANGED <<request, payload>>

\* parse_meta_error: an error is an object under "error"; the status is not looked at.
IsMetaError(o) == o = "refused"

\* No JSON and an error object raise HttpError.
Processed(o) == o \notin {"ok_garbled", "refused_garbled"} /\ ~IsMetaError(o)

\* The id of the first message, "unknown" without a list; the first of an empty list raises.
MessageId(o) == IF o = "ok" THEN "wamid" ELSE "unknown"

Read ==
    /\ pc = "read"
    /\ IF Processed(answer) /\ answer # "ok_empty_list"
       THEN Respond(Sent(MessageId(answer)))
       ELSE Respond(Failure("WHATSAPP_API_ERROR"))
    /\ UNCHANGED <<request, payload, attempt, answer, observed>>

Done == pc = "done" /\ UNCHANGED vars

Next ==
    \/ Validate \/ Build \/ Authorize \/ Read \/ Done
    \/ \E o \in Outcomes, taken \in BOOLEAN : Post(o, taken)

Spec == Init /\ [][Next]_vars

----------------------------------------------------------------------------
(* Properties.                                                             *)

TypeOK ==
    /\ pc \in {"validate", "build", "authorize", "post", "read", "done"}
    /\ attempt \in 0..MaxRetries
    /\ answer \in Outcomes \cup {"none"}
    /\ posts \in Nat /\ accepted \in Nat /\ silent \in Nat

\* A second copy of a message reaches the user only after the acceptance of an earlier post
\* never reached the sender (a timeout, a failure of the server, a broken connection): the
\* retry loop repeats no post whose acceptance was answered (http_base.py).
DuplicateOnlyAfterSilence == accepted <= 1 + silent /\ silent <= posts

\* An id that is reported as sent is the id of a message the API took, once a reply is
\* reported at all: no path answers success before or without a post.
ReportedIdIsReal ==
    /\ response.success => posts > 0
    /\ response.id = "wamid" => accepted > silent

\* A failure that a retry could cure is reported only after every retry was spent, and a
\* refusal or an answer ends the loop at its first occurrence.
GivesUpOnlyExhausted ==
    /\ pc = "done" /\ Retries(answer) => posts = MaxRetries + 1
    /\ posts <= MaxRetries + 1
    /\ pc = "read" => posts = attempt + 1

\* What is posted is an object of the type it declares and refers to something, with two
\* exceptions: an interactive reply of the pipeline carries no action, and a request that
\* names a template under another type is built as a template and still declares its type.
PostedIsWellFormed ==
    posts > 0 =>
        \/ WellFormed(payload)
        \/ request.caller = "pipeline" /\ payload.object = "interactive"
        \/ request.caller = "use_case" /\ request.body.template > 0
                                       /\ request.body.type # "template"

\* As PostedIsWellFormed for a reply of the pipeline, without exceptions: "Payload formatado
\* para API WhatsApp" (build_outbound_payload, _inbound_helpers.py).
ReplyIsWellFormed == request.caller = "pipeline" /\ posts > 0 => WellFormed(payload)
=============================================================================
