----------------------------- MODULE HttpClient ------------------------------
(***************************************************************************)
(* The three calls of components/ha_frame_client/ha_frame_client.c and the *)
(* http_request under them, step by step: what is allocated, what the      *)
(* transport returns, how much of the body is in the buffer, and what the  *)
(* caller finds changed. At the other end is Home Assistant (api.py), or   *)
(* something on the way that answers in its place. Sizes are in units; a   *)
(* content is what it hashes to, or Junk, which is not of the palette.     *)
(***************************************************************************)
EXTENDS Integers, FiniteSets

CONSTANTS
    Frames,   \* frame ids
    Reports,  \* report ids
    Junk,     \* bytes that are no frame
    Nothing,
    Limit,    \* response_limit of each kind of call
    Beyond    \* how far past its limit an answer may go

Kinds == {"manifest", "frame", "report"}

ASSUME HttpAssumption ==
    /\ Nothing \notin Frames \cup Reports
    /\ Junk \notin Frames
    /\ Limit \in [Kinds -> Nat \ {0}]
    /\ Beyond \in Nat

VARIABLES
    at,        \* the step of the call under way, or "idle"
    call,      \* its kind, and the frame or report it is about
    heap,      \* what the call holds: its buffers and the HTTP handle
    answer,    \* what the other end sends; left: bytes not yet read
    response,  \* http_body_t: data, length, status_code, content_length; the
               \* place of the terminator
    ret,       \* the result so far
    manifest,  \* the caller's manifest: the frame named, and is its path
               \* the one the client expects
    frame,     \* content of the caller's frame buffer
    last,      \* history: the call that has just ended
    taken      \* reports Home Assistant has accepted

httpVars == <<at, call, heap, answer, response, ret, manifest, frame, last, taken>>

-----------------------------------------------------------------------------
Contents == Frames \cup {Junk}

Calls == {[kind |-> "manifest", want |-> Nothing]}
         \cup {[kind |-> "frame", want |-> f] : f \in Frames}
         \cup {[kind |-> "report", want |-> r] : r \in Reports}

Capacity(kind) == Limit[kind] + 1

Sizes(kind) == 0..(Limit[kind] + Beyond)

Statuses == {200, 302, 401, 404, 409}

NoStatus == 0

(* What the transport reports: content_length is -1 when the headers could *)
(* not be read, 0 when the answer does not state one.                      *)
NoAnswer ==
    [status |-> NoStatus, left |-> 0, declared |-> -1, content |-> Junk,
     path |-> FALSE, encoded |-> FALSE, genuine |-> TRUE]

(* The views of api.py state the length of what they send and do not       *)
(* compress it; a frame is served under its own id or not at all.          *)
Refusals ==
    [status : Statuses \ {200, 302}, left : {1}, declared : {1}, content : {Junk},
     path : {FALSE}, encoded : {FALSE}, genuine : {TRUE}]

Bodies(c) ==
    IF c.kind = "manifest" THEN Frames
    ELSE IF c.kind = "frame" THEN {c.want} ELSE {Junk}

Size(kind) == IF kind = "report" THEN 1 ELSE Limit[kind]

Granted(c) ==
    [status : {200}, left : {Size(c.kind)}, declared : {Size(c.kind)}, content : Bodies(c),
     path : {TRUE}, encoded : {FALSE}, genuine : {TRUE}]

Foreign(kind) ==
    [status : {200, 302}, left : Sizes(kind), declared : Sizes(kind),
     content : IF kind = "report" THEN {Junk} ELSE Contents,
     path : IF kind = "manifest" THEN BOOLEAN ELSE {FALSE},
     encoded : BOOLEAN, genuine : {FALSE}]

-----------------------------------------------------------------------------
Ok == "ok"

Errors == {"no memory", "failed", "size", "encoding", "timeout", "response", "state", "crc"}

NoResponse == [data |-> "null", length |-> 0, status |-> NoStatus, declared |-> -1,
               terminator |-> -1]

Then(where, result) == at' = where /\ ret' = result

(* build_frame_url: the path of the manifest has to be the expected one.   *)
BuildFrameUrl(m) == m.path

NoCall == [kind |-> "manifest", want |-> Nothing]

NotAsked(error) == [kind |-> "manifest", outcome |-> error, status |-> NoStatus,
                    want |-> Nothing, whole |-> FALSE, genuine |-> TRUE]

Begin(c, held) ==
    /\ call' = c
    /\ heap' = heap \cup held
    /\ Then("alloc", Ok)
    /\ last' = NotAsked("failed")
    /\ UNCHANGED <<answer, response, manifest, frame, taken>>

(* The call returns before it has made a request.                          *)
ReturnEarly(error) ==
    /\ last' = NotAsked(error)
    /\ UNCHANGED <<at, call, heap, answer, response, ret, manifest, frame, taken>>

GetManifest == at = "idle" /\ Begin(NoCall, {})

GetFrame ==
    /\ at = "idle"
    /\ manifest.id # Nothing
    /\ IF BuildFrameUrl(manifest)
       THEN Begin([kind |-> "frame", want |-> manifest.id], {})
       ELSE ReturnEarly("response")

(* post_report: build_report may refuse the report or find no memory.      *)
PostReport ==
    /\ at = "idle"
    /\ \/ \E r \in Reports : Begin([kind |-> "report", want |-> r], {"request"})
       \/ \E error \in {"no memory", "size"} : ReturnEarly(error)

-----------------------------------------------------------------------------
(* http_request.                                                           *)
Alloc ==
    /\ at = "alloc"
    /\ \/ /\ heap' = heap \cup {"body"}
          /\ response' = [response EXCEPT !.data = "live"]
          /\ Then("init", Ok)
       \/ Then("finish", "no memory") /\ UNCHANGED <<heap, response>>
    /\ UNCHANGED <<call, answer, manifest, frame, last, taken>>

Opens(h) == heap' = h /\ Then("open", Ok) /\ UNCHANGED response

(* Mutant of InitHttp: data is freed and not set to NULL.                  *)
InitHttpDangling ==
    /\ at = "init"
    /\ \/ Opens(heap \cup {"http"})
       \/ /\ heap' = heap \ {"body"}
          /\ response' = [response EXCEPT !.data = "dangling"]
          /\ Then("finish", "no memory")
    /\ UNCHANGED <<call, answer, manifest, frame, last, taken>>

InitHttp ==
    /\ at = "init"
    /\ \/ Opens(heap \cup {"http"})
       \/ /\ heap' = heap \ {"body"}
          /\ response' = [response EXCEPT !.data = "null"]
          /\ Then("finish", "no memory")
    /\ UNCHANGED <<call, answer, manifest, frame, last, taken>>

(* Open and write. The other end may have had the request, and acted on    *)
(* it, although the client is told that the write failed.                  *)
OpenFails ==
    /\ at = "open"
    /\ Then("close", "failed")
    /\ answer' = NoAnswer
    /\ UNCHANGED <<call, heap, response, manifest, frame, last, taken>>

OpenRequest ==
    /\ at = "open"
    /\ \/ answer' \in Refusals \cup Foreign(call.kind) /\ UNCHANGED taken
       \/ /\ answer' \in Granted(call)
          /\ taken' = IF call.kind = "report" THEN taken \cup {call.want} ELSE taken
    /\ \E written \in {Ok} \cup (IF call.kind = "report" THEN {"failed"} ELSE {}) :
          IF written = Ok THEN Then("headers", Ok) ELSE Then("close", written)
    /\ UNCHANGED <<call, heap, response, manifest, frame, last>>

(* fetch_headers: a failure is a length of -1, and not yet an error.       *)
HeadersFail ==
    /\ at = "headers"
    /\ response' = [response EXCEPT !.status = -1, !.declared = -1]
    /\ Then("read", Ok)
    /\ UNCHANGED <<call, heap, answer, manifest, frame, last, taken>>

(* http_event_handler: a Content-Encoding other than identity was seen.    *)
UnsupportedEncoding == answer.encoded

(* Mutant of Headers: disable_auto_redirect is not set.                    *)
HeadersFollowed ==
    /\ at = "headers"
    /\ response' = [response EXCEPT !.status = answer.status, !.declared = answer.declared]
    /\ Then(IF answer.status = 302 THEN "open" ELSE "read", Ok)
    /\ UNCHANGED <<call, heap, answer, manifest, frame, last, taken>>

Headers ==
    /\ at = "headers"
    /\ response' = [response EXCEPT !.status = answer.status, !.declared = answer.declared]
    /\ CASE answer.declared > Limit[call.kind] -> Then("close", "size")
         [] answer.declared <= Limit[call.kind] /\ UnsupportedEncoding -> Then("close", "encoding")
         [] OTHER -> Then("read", Ok)
    /\ UNCHANGED <<call, heap, answer, manifest, frame, last, taken>>

(* The read loop: the deadline, some bytes, no more bytes, an error.       *)
Deadline ==
    /\ at = "read"
    /\ Then("close", "timeout")
    /\ UNCHANGED <<call, heap, answer, response, manifest, frame, last, taken>>

(* Mutant of ReadSome: the buffer is thought to be one byte larger.        *)
ReadSomeMore ==
    /\ at = "read"
    /\ \E n \in 1..(Capacity(call.kind) + 1 - response.length) :
          /\ n <= answer.left
          /\ answer' = [answer EXCEPT !.left = @ - n]
          /\ response' = [response EXCEPT !.length = @ + n]
    /\ Then("read", Ok)
    /\ UNCHANGED <<call, heap, manifest, frame, last, taken>>

ReadSome ==
    /\ at = "read"
    /\ \E n \in 1..(Capacity(call.kind) - response.length) :
          /\ n <= answer.left
          /\ answer' = [answer EXCEPT !.left = @ - n]
          /\ response' = [response EXCEPT !.length = @ + n]
          /\ IF response.length + n > Limit[call.kind]
             THEN Then("close", "size")
             ELSE Then("read", Ok)
    /\ UNCHANGED <<call, heap, manifest, frame, last, taken>>

ReadNone ==
    /\ at = "read"
    /\ Then("close", Ok)
    /\ UNCHANGED <<call, heap, answer, response, manifest, frame, last, taken>>

ReadFails ==
    /\ at = "read"
    /\ Then("close", "failed")
    /\ UNCHANGED <<call, heap, answer, response, manifest, frame, last, taken>>

(* is_complete_data_received, close and cleanup, the declared length, and  *)
(* the terminator after the last byte.                                     *)
CloseRequest ==
    /\ at = "close"
    /\ heap' = heap \ {"http"}
    /\ LET complete == ret = Ok /\ answer.left = 0
           agreed == response.declared >= 0 => response.length = response.declared
       IN  /\ response' = IF complete
                          THEN [response EXCEPT !.terminator = response.length]
                          ELSE response
           /\ Then("finish", IF ret # Ok THEN ret
                             ELSE IF complete /\ agreed THEN Ok ELSE "response")
    /\ UNCHANGED <<call, answer, manifest, frame, last, taken>>

-----------------------------------------------------------------------------
(* Back in the call: judge the answer, take it over, free, return.         *)
Refused == IF response.status = 401 THEN "state" ELSE "response"

ParseManifest(error) ==
    \/ error = Ok /\ manifest' = [id |-> answer.content, path |-> answer.path]
    \/ error = "response" /\ UNCHANGED manifest

(* Mutant of JudgeFrame: the digest is not compared.                       *)
JudgeFrameAny(content) ==
    IF response.status # 200 \/ response.length # Limit["frame"] \/ content = Junk
    THEN {Refused}
    ELSE {Ok}

(* Length and palette, then the digest against the id of the manifest;     *)
(* taking the digest may fail.                                             *)
JudgeFrame(content) ==
    IF response.status # 200 \/ response.length # Limit["frame"] \/ content = Junk
    THEN {Refused}
    ELSE {"crc"} \cup (IF content = call.want THEN {Ok} ELSE {})

(* Mutant of JudgeReport: a duplicate counts as delivered.                 *)
JudgeReportTwice ==
    IF response.status \in {200, 409} THEN Ok
    ELSE IF response.status = 401 THEN "state" ELSE "response"

JudgeReport ==
    IF response.status = 200 THEN Ok
    ELSE IF response.status \in {401, 409} THEN "state" ELSE "response"

Return(error) ==
    /\ last' = [kind |-> call.kind, outcome |-> error,
                status |-> response.status, want |-> call.want,
                whole |-> answer.left = 0 /\ ~answer.encoded,
                genuine |-> answer.genuine]
    /\ heap' = heap \ {"body", "request"}
    /\ at' = "idle"
    /\ ret' = Ok
    /\ answer' = NoAnswer
    /\ response' = NoResponse
    /\ call' = NoCall
    /\ UNCHANGED taken

FinishManifest ==
    /\ at = "finish" /\ call.kind = "manifest"
    /\ CASE ret # Ok -> Return(ret) /\ UNCHANGED manifest
         [] ret = Ok /\ response.status # 200 -> Return(Refused) /\ UNCHANGED manifest
         [] OTHER -> \E error \in {Ok, "response"} :
                        /\ error = Ok => answer.content # Junk
                        /\ answer.genuine => error = Ok
                        /\ ParseManifest(error)
                        /\ Return(error)
    /\ UNCHANGED frame

FinishFrame ==
    /\ at = "finish" /\ call.kind = "frame"
    /\ \E error \in IF ret = Ok THEN JudgeFrame(answer.content) ELSE {ret} :
          /\ frame' = IF error = Ok THEN answer.content ELSE frame
          /\ Return(error)
    /\ UNCHANGED manifest

FinishReport ==
    /\ at = "finish" /\ call.kind = "report"
    /\ Return(IF ret = Ok THEN JudgeReport ELSE ret)
    /\ UNCHANGED <<manifest, frame>>

HttpStep ==
    \/ Alloc \/ InitHttp
    \/ OpenFails \/ OpenRequest
    \/ HeadersFail \/ Headers
    \/ Deadline \/ ReadSome \/ ReadNone \/ ReadFails
    \/ CloseRequest
    \/ FinishManifest \/ FinishFrame \/ FinishReport

HttpInit ==
    /\ at = "idle"
    /\ call = NoCall
    /\ heap = {}
    /\ answer = NoAnswer
    /\ response = NoResponse
    /\ ret = Ok
    /\ manifest = [id |-> Nothing, path |-> FALSE]
    /\ frame = Nothing
    /\ last = NotAsked("failed")
    /\ taken = {}

HttpNext == GetManifest \/ GetFrame \/ PostReport \/ HttpStep

HttpSpec == HttpInit /\ [][HttpNext]_httpVars /\ WF_httpVars(HttpStep)

-----------------------------------------------------------------------------
Results == {Ok} \cup Errors

HttpTypeOK ==
    /\ at \in {"idle", "alloc", "init", "open", "headers", "read", "close", "finish"}
    /\ call.kind \in Kinds /\ call.want \in Frames \cup Reports \cup {Nothing}
    /\ heap \subseteq {"body", "http", "request"}
    /\ answer.left \in Nat /\ answer.content \in Contents
    /\ response.length \in Nat
    /\ response.status \in Statuses \cup {NoStatus, -1}
    /\ ret \in Results /\ last.outcome \in Results
    /\ manifest.id \in Frames \cup {Nothing} /\ manifest.path \in BOOLEAN
    /\ frame \in Frames \cup {Nothing}
    /\ taken \subseteq Reports

(* Nothing is held between two calls, on whichever path the last one       *)
(* ended, and what Return frees is what is still allocated (the error      *)
(* paths of http_request and of the three calls).                          *)
HeapSound ==
    /\ at = "idle" => heap = {}
    /\ response.data = "live" <=> "body" \in heap
    /\ response.data # "dangling"
    /\ at \in {"open", "headers", "read", "close"} <=> "http" \in heap

(* Whatever length is declared and however the body arrives, it and its    *)
(* terminator stay inside the buffer of response_limit + 1 bytes.          *)
BufferBounded ==
    /\ response.length <= Capacity(call.kind)
    /\ response.terminator < Capacity(call.kind)

(* Every call keeps to the memory it holds, and gives it back.             *)
MemorySound == HeapSound /\ BufferBounded

(* The caller's frame only ever becomes the frame its manifest names, from *)
(* one whole answer of status 200, whoever answered and wherever the       *)
(* transfer broke off (get_frame).                                         *)
FrameIsWanted ==
    [][frame' # frame => /\ frame' = manifest.id
                         /\ manifest.path
                         /\ last'.outcome = Ok /\ last'.whole /\ last'.status = 200]_httpVars

(* A call that returns ESP_OK had one whole, uncompressed answer of status *)
(* 200, and a report delivered to Home Assistant is one it has accepted.   *)
OutcomeTrue ==
    at = "idle" /\ last.outcome = Ok =>
        /\ last.status = 200
        /\ last.whole
        /\ last.kind = "report" /\ last.genuine => last.want \in taken

(* Every call ends, whatever the other end sends, as long as every call of *)
(* the transport returns.                                                  *)
CallEnds == at # "idle" ~> at = "idle"
=============================================================================
