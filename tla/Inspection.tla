------------------------------ MODULE Inspection ------------------------------
(***************************************************************************)
(* Which part of a body RequestLens looks at: the content type and the     *)
(* rule decide whether the bytes are kept at all, and whether a request    *)
(* body is read whole before it is forwarded or on its way upstream.       *)
(*                                                                         *)
(* A content type is the set of those words ClassifyContent looks for that *)
(* occur in it.                                                            *)
(***************************************************************************)
EXTENDS BodyCapture

CONSTANT ContentTypes  \* content types of bodies, as sets of words

TextWords == {"text/", "json", "xml", "javascript", "form-urlencoded"}

BinaryWords ==
    {"image/", "audio/", "video/", "font/", "octet-stream", "pdf", "zip", "protobuf"}

\* Limits are validated: no rule has a negative one.
ASSUME ContentAssumption ==
    /\ Limits \subseteq Nat
    /\ \A type \in ContentTypes : type \subseteq TextWords \cup BinaryWords \cup {"stream"}

VARIABLES
    side,       \* "request" or "response"
    class,      \* what ClassifyContent and the handler make of the body
    rule,       \* the settings of the rule: capture, binary, stream
    announced,  \* Content-Length, -1 if unknown
    total,      \* bytes the body has
    phase       \* "start", "buffered", "streaming" or "logged"

bodyVars == <<side, class, rule, announced, total>>
inspectVars == <<bodyVars, phase, captureVars>>

-----------------------------------------------------------------------------

ClassifyContent(type) ==
    [text |-> type \cap TextWords # {},
     binary |-> type \cap BinaryWords # {},
     stream |-> "stream" \in type]

\* Mutant: a stream is only kept if the rule allows it.
CapturePlanNoStreams(plan, c) ==
    /\ plan.capture
    /\ c.stream => plan.stream
    /\ c.binary => plan.binary

\* A stream of text is kept although the rule does not allow streams, and then
\* whatever it says of binary content.
CapturePlan(plan, c) ==
    /\ plan.capture
    /\ IF c.stream /\ ~plan.stream THEN c.text
       ELSE c.binary => plan.binary

\* Mutant: the limit is not looked at.
PreBuffersAnySize == side = "request" /\ store /\ ~class.stream /\ announced >= 0

\* shouldPreBufferRequestBody
PreBuffers ==
    /\ side = "request"
    /\ store /\ ~class.stream
    /\ announced >= 0
    /\ max = 0 \/ announced <= max

\* A response is also a stream if it is chunked or answers an upgrade.  A body
\* of known length has that length, and an empty one of known length is none.
InspectInit ==
    /\ side \in {"request", "response"}
    /\ \E type \in ContentTypes, forced \in BOOLEAN :
          /\ forced => side = "response"
          /\ class = [ClassifyContent(type) EXCEPT !.stream = @ \/ forced]
    /\ rule \in [capture: BOOLEAN, binary: BOOLEAN, stream: BOOLEAN]
    /\ total \in 0..MaxSize
    /\ announced \in {-1, total} \ {0}
    /\ phase = "start"
    /\ Init
    /\ store = CapturePlan(rule, class)

\* io.ReadAll, one WriteObserved of it all, and a reader of the copy.
PreBuffer ==
    /\ phase = "start" /\ PreBuffers
    /\ WriteObserved(total)
    /\ phase' = "buffered"
    /\ UNCHANGED bodyVars

\* The wrapped body observes what is read of it.
ReadThrough ==
    /\ phase = "start" => ~PreBuffers
    /\ phase \in {"start", "streaming"}
    /\ \E n \in Chunks : size + n <= total /\ WriteObserved(n)
    /\ phase' = "streaming"
    /\ UNCHANGED bodyVars

\* The exchange is over, with the body read to its end or not.
Finish ==
    /\ phase = "start" => ~PreBuffers
    /\ phase # "logged"
    /\ phase' = "logged"
    /\ UNCHANGED <<bodyVars, captureVars>>

InspectNext == PreBuffer \/ ReadThrough \/ Finish

InspectSpec == InspectInit /\ [][InspectNext]_inspectVars

-----------------------------------------------------------------------------

\* Bytes of the body in memory: a buffered body is held once to be forwarded
\* and once to be logged, and the larger of the two counts.
Held == IF phase = "buffered" THEN total ELSE stored

\* A rule with a limit never makes RequestLens hold more of a body than that,
\* although small bodies are read whole before they are forwarded.
HeldIsBounded == max # 0 => Held <= max

\* Text that fits the limit is logged to its last byte if it was read to its
\* end, be it streamed or not, however it is cut into chunks.
TextIsLoggedWhole ==
    phase = "logged" /\ class.text /\ ~class.binary /\ rule.capture
        /\ size = total /\ (max = 0 \/ total <= max) =>
            stored = total /\ ~truncated

=============================================================================
