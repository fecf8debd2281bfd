----------------------------- MODULE MCInspection -----------------------------
(* Instances of Inspection for TLC.                                        *)
EXTENDS Inspection

\* text/plain, application/json, text/event-stream, application/octet-stream,
\* application/stream+json, image/png, application/zip and an unknown type.
MCContentTypes ==
    {{"text/"}, {"json"}, {"text/", "stream"}, {"octet-stream", "stream"},
     {"json", "stream"}, {"image/"}, {"zip"}, {}}

MCLimits == {0, 1, 4}
MCChunks == 1..3

=============================================================================
