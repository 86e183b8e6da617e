---------------------------- MODULE WebhookPayloads ---------------------------
(***************************************************************************)
(* What the program makes of a callback's JSON: the filters of the webhook *)
(* handler, the parsing in the user that is woken, and what becomes of a   *)
(* correlation id on its two ways to the registry.  An id is a record with *)
(* a field kind, its JSON type, and others that tell it from other ids.    *)
(***************************************************************************)
CONSTANTS
    IdKinds,    \* the JSON types of the SUT's ids: "string", "number"
    NoId        \* the correlationID is missing or empty

ASSUME IdAssumption == IdKinds \subseteq {"string", "number"}

\* str(id)
Str(id) == [id EXCEPT !.kind = "string"]

\* The id under which a message is registered.
ParseCorrelationId(id) == Str(id)

\* The key that the handler hands to resolve(): the id as it is in the JSON.
RequestId(id) == id

\* "null" names the part of the payload that is null; a switchboard that is
\* missing has no name, like one that is another's.
Payloads(ids) ==
    [type : {"message", "other"}, null : {"nothing", "message", "switchboard", "profile"},
     board : {"own", "other"}, content : {"text", "other"},
     author : {"business", "user"}, text : {"words", "empty"}, id : ids \union {NoId}]

\* Mutant: echoes of the users' own messages are not filtered out.
AcceptedMutant(p, filtered) ==
    /\ p.type = "message"
    /\ p.null # "message"
    /\ filtered => p.board = "own" /\ p.null # "switchboard"
    /\ p.content = "text"
    /\ p.id # NoId

\* The payload passes the handler's filters (and a null message does not make
\* the handler raise) on the way to resolve().
Accepted(p, filtered) ==
    /\ p.type = "message"
    /\ p.null # "message"
    /\ filtered => p.board = "own" /\ p.null # "switchboard"
    /\ p.content = "text"
    /\ p.author # "user"
    /\ p.id # NoId

\* CallbackPayload.from_dict raises when it looks into null.
Parses(p) == p.null \notin {"message", "switchboard", "profile"}

===============================================================================
