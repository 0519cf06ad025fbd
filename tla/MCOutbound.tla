----------------------------- MODULE MCOutbound -----------------------------
(***************************************************************************)
(* Requests at the limits of the validators, a field or two away from one  *)
(* that is accepted.                                                       *)
(***************************************************************************)
EXTENDS Outbound

Chars(n) == [chars |-> n, bytes |-> n]

Empty ==
    [to |-> "e164", type |-> "text", text |-> Chars(0), media |-> {}, mime |-> "",
     interactive |-> "", buttons |-> <<>>, fields |-> {}, label |-> 5, location |-> <<>>,
     template |-> 0, category |-> "", key |-> 0]

Button(fields, title) == [fields |-> fields, title |-> title]
Good == Button({"id", "title"}, 20)

Texts == {Chars(n) : n \in {0, 1, 1024, 1025, 4096, 4097}} \cup {[chars |-> 4096, bytes |-> 8192]}

ButtonLists ==
    {<<>>, <<Good>>, <<Good, Good, Good>>, <<Good, Good, Good, Good>>,
     <<Good, Button({"id"}, 0)>>, <<Button({"id", "title"}, 21)>>}

TextRequests == {[Empty EXCEPT !.text = t] : t \in Texts}

MediaRequests ==
    {[Empty EXCEPT !.type = t, !.text = x, !.media = m, !.mime = k] :
        t \in MediaTypes, x \in Texts, m \in SUBSET {"id", "url"},
        k \in {"", "image/png", "audio/ogg", "text/html"}}

InteractiveRequests ==
    {[Empty EXCEPT !.type = "interactive", !.text = x, !.interactive = i, !.buttons = b,
                   !.fields = f, !.label = l] :
        x \in {Chars(0), Chars(4096), Chars(4097)}, i \in InteractiveType \cup {"", "carousel"},
        b \in ButtonLists, l \in {20, 21},
        f \in {{}, FlowFields, FlowFields \ {"flow_token"}, {"cta_url", "cta_display_text"},
               {"cta_url"}}}

OtherRequests ==
    {[Empty EXCEPT !.type = "location", !.location = g] :
        g \in {<<>>} \cup ({-91, -90, 90, 91} \X {-181, -180, 180, 181})}
    \cup {[Empty EXCEPT !.type = "address", !.fields = f] : f \in {{}, {"city"}}}
    \cup {[Empty EXCEPT !.type = t, !.template = n, !.fields = f] :
            t \in MessageType \cup {"", "poll"}, n \in {0, 1, 512, 513},
            f \in {{}, {"flow_id"}}}
    \cup {[Empty EXCEPT !.to = a, !.text = Chars(1), !.category = c, !.key = k] :
            a \in {"", "local", "e164"}, c \in {"", "SERVICE", "OTHER"}, k \in {0, 255, 256}}

Replies ==
    {[kind |-> k, replyTo |-> id, type |-> k] :
        k \in {"text", "interactive_button", "interactive_list", "reaction", "image"},
        id \in BOOLEAN}

ScheduleTemplate ==
    [Empty EXCEPT !.to = "local", !.type = "template", !.template = 19,
                  !.fields = {"flow_id", "flow_token"}, !.category = "MARKETING"]

MCCallers == {"use_case", "pipeline", "template"}
MCRequests ==
    [c \in MCCallers |->
        CASE c = "use_case" -> TextRequests \cup MediaRequests \cup InteractiveRequests
                                   \cup OtherRequests
          [] c = "pipeline" -> Replies
          [] c = "template" -> {ScheduleTemplate}]
=============================================================================
