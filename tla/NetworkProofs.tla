---------------------------- MODULE NetworkProofs -----------------------------
(***************************************************************************)
(* Theorems about the parts of the way to Home Assistant beside the Wi-Fi  *)
(* manager: HttpClient, for all limits and whatever the other end sends;   *)
(* BearerKey, whatever is typed and whenever a write or power fails; and   *)
(* the dates of IsoTime, up to any year.                                   *)
(***************************************************************************)
EXTENDS HttpClient, BearerKey, IsoTime, SequenceTheorems, TLAPS

(* HttpClient.                                                             *)

Ids == Frames \cup Reports \cup {Nothing}

AnswerStatuses == Statuses \cup {NoStatus}

Seen == AnswerStatuses \cup {-1}

CallRecords == [kind : Kinds, want : Ids]

Answers ==
    [status : AnswerStatuses, left : Nat, declared : Int, content : Contents,
     path : BOOLEAN, encoded : BOOLEAN, genuine : BOOLEAN]

Responses ==
    [data : {"null", "live"}, length : Nat, status : Seen, declared : Int,
     terminator : Int]

Manifests == [id : Frames \cup {Nothing}, path : BOOLEAN]

Ends ==
    [kind : Kinds, outcome : Results, status : Seen, want : Ids, whole : BOOLEAN,
     genuine : BOOLEAN]

Shapes ==
    /\ call \in CallRecords
    /\ answer \in Answers
    /\ response \in Responses
    /\ manifest \in Manifests
    /\ last \in Ends

Steps == {"idle", "alloc", "init", "open", "headers", "read", "close", "finish"}

Sorts ==
    /\ at \in Steps
    /\ heap \subseteq {"body", "http", "request"}
    /\ ret \in Results
    /\ at \notin {"close", "finish"} => ret = Ok
    /\ frame \in Frames \cup {Nothing}
    /\ taken \subseteq Reports

(* What is allocated at each step.                                         *)
Held ==
    /\ HeapSound
    /\ at = "alloc" => response = NoResponse /\ "body" \notin heap
    /\ at = "idle" => response = NoResponse
    /\ at \in {"init", "open", "headers", "read", "close"} => "body" \in heap

(* The body is in its buffer; a terminator comes with the end.             *)
Room ==
    /\ at \in {"init", "open", "headers"} => response.length = 0
    /\ ret = Ok => response.length <= Limit[call.kind]
    /\ response.length <= Limit[call.kind] + 1
    /\ at # "finish" => response.terminator = -1
    /\ response.terminator <= Limit[call.kind]

(* Up to the end of the headers there is no status; a 200 is then that of  *)
(* the answer, and with a 200 of its own Home Assistant has the report.    *)
Told ==
    /\ at \in {"idle", "alloc", "init", "open"} => answer = NoAnswer
    /\ at \in {"idle", "alloc", "init", "open", "headers"} => response.status = NoStatus
    /\ response.status = 200 => answer.status = 200
    /\ response.status = 200 /\ ret = Ok => ~answer.encoded
    /\ at = "finish" /\ ret = Ok => answer.left = 0
    /\ answer.status = 200 /\ answer.genuine /\ call.kind = "report" => call.want \in taken

(* A frame is asked for by the manifest, which stays as it is meanwhile.   *)
Asked ==
    /\ at # "idle" /\ call.kind = "frame" =>
          call.want = manifest.id /\ manifest.path /\ call.want \in Frames
    /\ call.kind = "report" => call.want \in Reports

(* OutcomeTrue of the last call, also while the next one runs.             *)
Judged ==
    last.outcome = Ok =>
        /\ last.status = 200
        /\ last.whole
        /\ last.kind = "report" /\ last.genuine => last.want \in taken

HttpInv == Shapes /\ Sorts /\ Held /\ Room /\ Told /\ Asked /\ Judged

-----------------------------------------------------------------------------
(* Records and constants.                                                  *)
LEMMA KindType == \A k \in Kinds : Limit[k] \in Nat \ {0}
BY HttpAssumption

LEMMA CallType ==
    ASSUME NEW c \in CallRecords
    PROVE  c.kind \in Kinds /\ c.want \in Ids /\ Limit[c.kind] \in Nat \ {0}
BY KindType DEF CallRecords

LEMMA ResponseType ==
    ASSUME NEW r \in Responses
    PROVE  /\ r.data \in {"null", "live"} /\ r.length \in Nat /\ r.status \in Seen
           /\ r.declared \in Int /\ r.terminator \in Int
BY DEF Responses

LEMMA ResponseUpdate ==
    ASSUME NEW r \in Responses
    PROVE  /\ \A d \in {"null", "live"} : [r EXCEPT !.data = d] \in Responses
           /\ \A s \in Seen, i \in Int :
                 [r EXCEPT !.status = s, !.declared = i] \in Responses
           /\ \A n \in Nat : [r EXCEPT !.length = n] \in Responses
           /\ \A n \in Nat : [r EXCEPT !.terminator = n] \in Responses
<1>1. ASSUME NEW d \in {"null", "live"} PROVE [r EXCEPT !.data = d] \in Responses
  BY DEF Responses
<1>2. ASSUME NEW s \in Seen, NEW i \in Int
      PROVE  [r EXCEPT !.status = s, !.declared = i] \in Responses
  BY DEF Responses
<1>3. ASSUME NEW n \in Nat PROVE [r EXCEPT !.length = n] \in Responses
  BY DEF Responses
<1>4. ASSUME NEW n \in Nat PROVE [r EXCEPT !.terminator = n] \in Responses
  BY DEF Responses
<1> QED
  BY <1>1, <1>2, <1>3, <1>4

LEMMA NoAnswerType ==
    NoAnswer \in Answers /\ NoAnswer.status = NoStatus /\ NoAnswer.left = 0
BY DEF NoAnswer, Answers, AnswerStatuses, Contents, NoStatus

LEMMA AnswerFields ==
    ASSUME NEW a \in Answers
    PROVE  /\ a.status \in AnswerStatuses /\ a.left \in Nat /\ a.declared \in Int
           /\ a.content \in Contents /\ a.path \in BOOLEAN
           /\ \A n \in Nat : n <= a.left => [a EXCEPT !.left = @ - n] \in Answers
BY DEF Answers

LEMMA NoResponseType == NoResponse \in Responses
BY DEF NoResponse, Responses, Seen, AnswerStatuses

LEMMA NoCallType == NoCall \in CallRecords
BY DEF NoCall, CallRecords, Kinds, Ids

LEMMA NotAskedType ==
    ASSUME NEW e \in Results
    PROVE  NotAsked(e) \in Ends /\ NotAsked(e).outcome = e
BY DEF NotAsked, Ends, Kinds, Ids, Seen, AnswerStatuses

LEMMA NotAskedFails ==
    ASSUME NEW e, e # Ok
    PROVE  NotAsked(e).outcome # Ok
BY DEF NotAsked

LEMMA ManifestType ==
    ASSUME NEW m \in Manifests
    PROVE  m.id \in Frames \cup {Nothing}
BY DEF Manifests

(* What another end may send; with a 200 Home Assistant alone answers for  *)
(* itself.                                                                 *)
LEMMA AnswerType ==
    ASSUME NEW c \in CallRecords,
           c.kind = "frame" => c.want \in Frames,
           NEW a \in Refusals \cup Foreign(c.kind) \cup Granted(c)
    PROVE  /\ a \in Answers
           /\ a \in Refusals \cup Foreign(c.kind) => ~(a.status = 200 /\ a.genuine)
<1>1. c.kind \in Kinds /\ Limit[c.kind] \in Nat
  BY CallType
<1>2. Sizes(c.kind) \subseteq Nat /\ Size(c.kind) \in Nat
  BY <1>1, HttpAssumption DEF Sizes, Size
<1>3. Junk \in Contents /\ Bodies(c) \subseteq Contents
  BY <1>1 DEF Bodies, Contents
<1>4. /\ a = [status |-> a.status, left |-> a.left, declared |-> a.declared,
              content |-> a.content, path |-> a.path, encoded |-> a.encoded,
              genuine |-> a.genuine]
      /\ a.path \in BOOLEAN /\ a.encoded \in BOOLEAN /\ a.genuine \in BOOLEAN
  BY DEF Refusals, Foreign, Granted
<1>5. /\ a.status \in AnswerStatuses
      /\ a.left \in Nat /\ a.declared \in Nat /\ a.content \in Contents
  <2>1. CASE a \in Refusals
    BY <2>1, <1>3 DEF Refusals, AnswerStatuses
  <2>2. CASE a \in Foreign(c.kind)
    BY <2>2, <1>2, <1>3 DEF Foreign, AnswerStatuses, Statuses
  <2>3. CASE a \in Granted(c)
    BY <2>3, <1>2, <1>3 DEF Granted, AnswerStatuses, Statuses
  <2> QED
    BY <2>1, <2>2, <2>3
<1>6. a \in Answers
  BY <1>4, <1>5 DEF Answers
<1>7. a \in Refusals \cup Foreign(c.kind) => ~(a.status = 200 /\ a.genuine)
  BY DEF Refusals, Foreign
<1> QED
  BY <1>6, <1>7

LEMMA HttpInitInv == HttpInit => HttpInv
<1> SUFFICES ASSUME HttpInit
             PROVE  HttpInv
  OBVIOUS
<1>1. Shapes
  BY NoAnswerType, NoResponseType, NoCallType, NotAskedType
     DEF HttpInit, Shapes, Manifests, Results, Errors
<1>2. Sorts
  BY DEF HttpInit, Sorts, Steps, Results
<1>3. Held
  BY DEF HttpInit, Held, HeapSound, NoResponse
<1>4. Room
  BY <1>1, CallType DEF HttpInit, Room, Shapes, NoResponse
<1>5. Told /\ Asked
  BY NoAnswerType DEF HttpInit, Told, Asked, NoResponse, NoCall, NoStatus
<1>6. Judged
  BY NotAskedFails DEF HttpInit, Judged, Results, Errors, Ok
<1> QED
  BY <1>1, <1>2, <1>3, <1>4, <1>5, <1>6 DEF HttpInv

LEMMA GetManifestKeeps == HttpInv /\ GetManifest => HttpInv'
<1> SUFFICES ASSUME HttpInv, GetManifest
             PROVE  HttpInv'
  OBVIOUS
<1> USE DEF GetManifest, Begin, Then
<1>z. at \notin {"close", "finish"} => ret = Ok
  BY DEF HttpInv, Sorts
<1>1. Shapes'
  BY NoCallType, NotAskedType DEF HttpInv, Shapes, Results, Errors
<1>2. Sorts'
  BY <1>z DEF HttpInv, Sorts, Steps, Results, Errors, Ok
<1>3. Held'
  BY DEF HttpInv, Held, HeapSound, Sorts
<1>4. Room'
  BY <1>z, NoCallType, CallType DEF HttpInv, Room, Held, NoResponse, Ok
<1>5. Told'
  BY <1>z, NoAnswerType DEF HttpInv, Told, NoResponse, NoCall, NoStatus
<1>6. Asked'
  BY DEF HttpInv, Asked, NoCall
<1>7. Judged'
  BY NotAskedFails DEF HttpInv, Judged, Results, Errors, Ok
<1> QED
  BY <1>1, <1>2, <1>3, <1>4, <1>5, <1>6, <1>7 DEF HttpInv

LEMMA GetFrameKeeps == HttpInv /\ GetFrame => HttpInv'
<1> SUFFICES ASSUME HttpInv, GetFrame
             PROVE  HttpInv'
  OBVIOUS
<1> USE DEF GetFrame, Begin, ReturnEarly, Then
<1>z. at \notin {"close", "finish"} => ret = Ok
  BY DEF HttpInv, Sorts
<1>a. BuildFrameUrl(manifest) =>
         /\ [kind |-> "frame", want |-> manifest.id] \in CallRecords
         /\ manifest.id \in Frames
  BY ManifestType DEF HttpInv, Shapes, CallRecords, Kinds, Ids
<1>1. Shapes'
  BY <1>a, NotAskedType DEF HttpInv, Shapes, Results, Errors
<1>2. Sorts'
  BY <1>z DEF HttpInv, Sorts, Steps, Results, Errors, Ok
<1>3. Held'
  BY DEF HttpInv, Held, HeapSound, Sorts
<1>4. Room'
  BY <1>z, <1>a, CallType DEF HttpInv, Room, Held, NoResponse, Ok, Shapes
<1>5. Told'
  BY <1>z, NoAnswerType DEF HttpInv, Told, NoResponse, NoStatus
<1>6. Asked'
  BY <1>a DEF HttpInv, Asked, BuildFrameUrl, Shapes
<1>7. Judged'
  BY NotAskedFails DEF HttpInv, Judged, Results, Errors, Ok
<1> QED
  BY <1>1, <1>2, <1>3, <1>4, <1>5, <1>6, <1>7 DEF HttpInv

LEMMA PostReportKeeps == HttpInv /\ PostReport => HttpInv'
<1> SUFFICES ASSUME HttpInv, PostReport
             PROVE  HttpInv'
  OBVIOUS
<1>1. ASSUME NEW error \in {"no memory", "size"}, ReturnEarly(error)
      PROVE  HttpInv'
  <2>1. error \in Results /\ error # Ok
    BY DEF Results, Errors, Ok
  <2>2. Judged' /\ last' \in Ends
    BY <1>1, <2>1, NotAskedFails, NotAskedType DEF ReturnEarly, Judged
  <2>3. UNCHANGED <<at, call, heap, answer, response, ret, manifest, frame, taken>>
    BY <1>1 DEF ReturnEarly
  <2>4. Shapes' /\ Sorts' /\ Asked'
    BY <2>2, <2>3 DEF HttpInv, Shapes, Sorts, Asked
  <2>5. Held'
    BY <2>3 DEF HttpInv, Held, HeapSound
  <2>6. Room'
    BY <2>3 DEF HttpInv, Room
  <2>7. Told'
    BY <2>3 DEF HttpInv, Told
  <2> QED
    BY <2>2, <2>4, <2>5, <2>6, <2>7 DEF HttpInv
<1>2. ASSUME NEW r \in Reports, at = "idle",
             Begin([kind |-> "report", want |-> r], {"request"})
      PROVE  HttpInv'
  <2> DEFINE c == [kind |-> "report", want |-> r]
  <2>1. /\ c \in CallRecords /\ c.kind = "report" /\ c.want = r /\ Limit[c.kind] \in Nat \ {0}
        /\ "failed" \in Results /\ "failed" # Ok
    BY KindType DEF CallRecords, Kinds, Ids, Results, Errors, Ok
  <2>2. /\ call' = c /\ at' = "alloc" /\ ret' = Ok
        /\ heap' = heap \cup {"request"} /\ last' = NotAsked("failed")
        /\ UNCHANGED <<answer, response, manifest, frame, taken>>
    BY <1>2 DEF Begin, Then
  <2>3. response = NoResponse /\ answer = NoAnswer /\ heap = {}
    BY <1>2 DEF HttpInv, Held, HeapSound, Told
  <2> HIDE DEF c
  <2>4. Shapes' /\ Judged'
    BY <2>1, <2>2, NotAskedFails, NotAskedType DEF HttpInv, Shapes, Judged
  <2>5. Sorts'
    BY <2>1, <2>2 DEF HttpInv, Sorts, Steps, Results
  <2>6. Held'
    BY <2>2, <2>3 DEF Held, HeapSound, NoResponse
  <2>7. Room'
    BY <2>1, <2>2, <2>3 DEF Room, NoResponse
  <2>8. Told' /\ Asked'
    BY <2>1, <2>2, <2>3, NoAnswerType DEF Told, Asked, NoResponse, NoStatus
  <2> QED
    BY <2>4, <2>5, <2>6, <2>7, <2>8 DEF HttpInv
<1> QED
  BY <1>1, <1>2 DEF PostReport

LEMMA AllocKeeps == HttpInv /\ Alloc => HttpInv'
<1> SUFFICES ASSUME HttpInv, Alloc
             PROVE  HttpInv'
  OBVIOUS
<1> USE DEF Alloc, Then
<1>z. at \notin {"close", "finish"} => ret = Ok
  BY DEF HttpInv, Sorts
<1>a. /\ response'.status = response.status /\ response'.length = response.length
      /\ response'.terminator = response.terminator /\ response.length \in Nat
      /\ response.data \in {"null", "live"}
  BY DEF HttpInv, Shapes, Responses
<1>b. \/ heap' = heap \cup {"body"} /\ response'.data = "live"
      \/ heap' = heap /\ response' = response
  BY DEF HttpInv, Shapes, Responses
<1>c. Limit[call.kind] \in Nat \ {0}
  BY CallType DEF HttpInv, Shapes
<1>d. response.length = 0 /\ response.terminator = -1
  <2>1. response = NoResponse
    BY DEF HttpInv, Held
  <2> QED
    BY <2>1 DEF NoResponse
<1>1. Shapes'
  BY ResponseUpdate, ResponseType DEF HttpInv, Shapes
<1>2. Sorts'
  BY <1>z DEF HttpInv, Sorts, Steps, Results, Errors, Ok
<1>3. Held'
  BY <1>a, <1>b DEF HttpInv, Held, HeapSound, Sorts
<1>4. Room'
  BY <1>z, <1>a, <1>c, <1>d DEF HttpInv, Room, Ok
<1>5. Told'
  BY <1>z, <1>a, NoAnswerType DEF HttpInv, Told, Held, NoResponse, Ok, NoStatus
<1>6. Asked'
  BY DEF HttpInv, Asked
<1>7. Judged'
  BY DEF HttpInv, Judged
<1> QED
  BY <1>1, <1>2, <1>3, <1>4, <1>5, <1>6, <1>7 DEF HttpInv

LEMMA InitHttpKeeps == HttpInv /\ InitHttp => HttpInv'
<1> SUFFICES ASSUME HttpInv, InitHttp
             PROVE  HttpInv'
  OBVIOUS
<1> USE DEF InitHttp, Opens, Then
<1>z. at \notin {"close", "finish"} => ret = Ok
  BY DEF HttpInv, Sorts
<1>a. /\ response'.status = response.status /\ response'.length = response.length
      /\ response'.terminator = response.terminator /\ response.length \in Nat
      /\ response.data \in {"null", "live"}
  BY DEF HttpInv, Shapes, Responses
<1>b. \/ heap' = heap \cup {"http"} /\ response' = response
      \/ heap' = heap \ {"body"} /\ response'.data = "null"
  BY DEF HttpInv, Shapes, Responses
<1>c. Limit[call.kind] \in Nat \ {0}
  BY CallType DEF HttpInv, Shapes
<1>1. Shapes'
  BY ResponseUpdate DEF HttpInv, Shapes
<1>2. Sorts'
  BY <1>z DEF HttpInv, Sorts, Steps, Results, Errors, Ok
<1>3. Held'
  BY <1>a, <1>b DEF HttpInv, Held, HeapSound, Sorts
<1>4. Room'
  BY <1>z, <1>a, <1>c DEF HttpInv, Room, Ok
<1>5. Told'
  BY <1>z, <1>a DEF HttpInv, Told, Ok, NoStatus
<1>6. Asked'
  BY DEF HttpInv, Asked
<1>7. Judged'
  BY DEF HttpInv, Judged
<1> QED
  BY <1>1, <1>2, <1>3, <1>4, <1>5, <1>6, <1>7 DEF HttpInv

LEMMA OpenFailsKeeps == HttpInv /\ OpenFails => HttpInv'
<1> SUFFICES ASSUME HttpInv, OpenFails
             PROVE  HttpInv'
  OBVIOUS
<1> USE DEF OpenFails, Then
<1>z. at \notin {"close", "finish"} => ret = Ok
  BY DEF HttpInv, Sorts
<1>1. Shapes'
  BY NoAnswerType DEF HttpInv, Shapes
<1>2. Sorts'
  BY <1>z DEF HttpInv, Sorts, Steps, Results, Errors, Ok
<1>3. Held'
  BY DEF HttpInv, Held, HeapSound, Sorts
<1>4. Room'
  BY <1>z DEF HttpInv, Room, Ok
<1>5. Told'
  BY <1>z, NoAnswerType DEF HttpInv, Told, NoStatus, Ok
<1>6. Asked'
  BY DEF HttpInv, Asked
<1>7. Judged'
  BY DEF HttpInv, Judged
<1> QED
  BY <1>1, <1>2, <1>3, <1>4, <1>5, <1>6, <1>7 DEF HttpInv

LEMMA OpenRequestKeeps == HttpInv /\ OpenRequest => HttpInv'
<1> SUFFICES ASSUME HttpInv, OpenRequest
             PROVE  HttpInv'
  OBVIOUS
<1>1. /\ at = "open" /\ at' \in {"headers", "close"} /\ ret' \in {Ok, "failed"}
      /\ at' = "headers" => ret' = Ok
      /\ UNCHANGED <<call, heap, response, manifest, frame, last>>
  BY DEF OpenRequest, Then
<1>2. /\ answer' \in Refusals \cup Foreign(call.kind) \cup Granted(call)
      /\ \/ UNCHANGED taken /\ answer' \in Refusals \cup Foreign(call.kind)
         \/ taken' = IF call.kind = "report" THEN taken \cup {call.want} ELSE taken
  BY DEF OpenRequest
<1>3. /\ call \in CallRecords
      /\ call.kind = "frame" => call.want \in Frames
      /\ call.kind = "report" => call.want \in Reports
  BY <1>1 DEF HttpInv, Shapes, Asked
<1>4. /\ answer' \in Answers
      /\ answer' \in Refusals \cup Foreign(call.kind) => ~(answer'.status = 200 /\ answer'.genuine)
  BY <1>2, <1>3, AnswerType
<1>5. /\ taken \subseteq taken' /\ taken' \subseteq Reports
      /\ answer'.status = 200 /\ answer'.genuine /\ call.kind = "report" =>
            call.want \in taken'
  BY <1>2, <1>3, <1>4 DEF HttpInv, Sorts
<1>6. Shapes' /\ Asked' /\ Judged'
  BY <1>1, <1>4, <1>5 DEF HttpInv, Shapes, Asked, Judged
<1>7. Sorts'
  BY <1>1, <1>5 DEF HttpInv, Sorts, Steps, Results, Errors, Ok
<1>8. Held' /\ Room'
  BY <1>1 DEF HttpInv, Held, HeapSound, Room, Sorts, Ok
<1>9. Told'
  BY <1>1, <1>5 DEF HttpInv, Told, NoStatus
<1> QED
  BY <1>6, <1>7, <1>8, <1>9 DEF HttpInv

LEMMA HeadersFailKeeps == HttpInv /\ HeadersFail => HttpInv'
<1> SUFFICES ASSUME HttpInv, HeadersFail
             PROVE  HttpInv'
  OBVIOUS
<1> USE DEF HeadersFail, Then
<1>z. at \notin {"close", "finish"} => ret = Ok
  BY DEF HttpInv, Sorts
<1>1. Shapes'
  <2>1. -1 \in Seen /\ -1 \in Int
    BY DEF Seen
  <2> QED
    BY <2>1, ResponseUpdate DEF HttpInv, Shapes
<1>2. Sorts'
  BY <1>z DEF HttpInv, Sorts, Steps, Results, Errors, Ok
<1>3. Held'
  BY ResponseType DEF HttpInv, Held, HeapSound, Sorts, Shapes
<1>4. Room'
  BY <1>z, ResponseType DEF HttpInv, Room, Shapes, Ok
<1>5. Told'
  BY <1>z, ResponseType DEF HttpInv, Told, Shapes, Ok
<1>6. Asked'
  BY DEF HttpInv, Asked
<1>7. Judged'
  BY DEF HttpInv, Judged
<1> QED
  BY <1>1, <1>2, <1>3, <1>4, <1>5, <1>6, <1>7 DEF HttpInv

LEMMA HeadersKeeps == HttpInv /\ Headers => HttpInv'
<1> SUFFICES ASSUME HttpInv, Headers
             PROVE  HttpInv'
  OBVIOUS
<1> USE DEF Headers, UnsupportedEncoding, Then
<1>z. at \notin {"close", "finish"} => ret = Ok
  BY DEF HttpInv, Sorts
<1>1. Shapes'
  BY ResponseUpdate, AnswerFields DEF HttpInv, Shapes, Seen
<1>2. Sorts'
  BY <1>z DEF HttpInv, Sorts, Steps, Results, Errors, Ok
<1>3. Held'
  BY ResponseType DEF HttpInv, Held, HeapSound, Sorts, Shapes
<1>4. Room'
  BY <1>z, ResponseType, CallType DEF HttpInv, Room, Shapes, Ok
<1>5. Told'
  BY <1>z, ResponseType, AnswerFields, CallType DEF HttpInv, Told, Shapes, Ok
<1>6. Asked'
  BY DEF HttpInv, Asked
<1>7. Judged'
  BY DEF HttpInv, Judged
<1> QED
  BY <1>1, <1>2, <1>3, <1>4, <1>5, <1>6, <1>7 DEF HttpInv

LEMMA DeadlineKeeps == HttpInv /\ Deadline => HttpInv'
<1> SUFFICES ASSUME HttpInv, Deadline
             PROVE  HttpInv'
  OBVIOUS
<1> USE DEF Deadline, Then
<1>z. at \notin {"close", "finish"} => ret = Ok
  BY DEF HttpInv, Sorts
<1>1. Shapes'
  BY DEF HttpInv, Shapes
<1>2. Sorts'
  BY <1>z DEF HttpInv, Sorts, Steps, Results, Errors, Ok
<1>3. Held'
  BY DEF HttpInv, Held, HeapSound, Sorts
<1>4. Room'
  BY <1>z DEF HttpInv, Room, Ok
<1>5. Told'
  BY <1>z DEF HttpInv, Told, Ok
<1>6. Asked'
  BY DEF HttpInv, Asked
<1>7. Judged'
  BY DEF HttpInv, Judged
<1> QED
  BY <1>1, <1>2, <1>3, <1>4, <1>5, <1>6, <1>7 DEF HttpInv

LEMMA ReadNoneKeeps == HttpInv /\ ReadNone => HttpInv'
<1> SUFFICES ASSUME HttpInv, ReadNone
             PROVE  HttpInv'
  OBVIOUS
<1> USE DEF ReadNone, Then
<1>z. at \notin {"close", "finish"} => ret = Ok
  BY DEF HttpInv, Sorts
<1>1. Shapes'
  BY DEF HttpInv, Shapes
<1>2. Sorts'
  BY <1>z DEF HttpInv, Sorts, Steps, Results, Errors, Ok
<1>3. Held'
  BY DEF HttpInv, Held, HeapSound, Sorts
<1>4. Room'
  BY <1>z DEF HttpInv, Room, Ok
<1>5. Told'
  BY <1>z DEF HttpInv, Told, Ok
<1>6. Asked'
  BY DEF HttpInv, Asked
<1>7. Judged'
  BY DEF HttpInv, Judged
<1> QED
  BY <1>1, <1>2, <1>3, <1>4, <1>5, <1>6, <1>7 DEF HttpInv

LEMMA ReadFailsKeeps == HttpInv /\ ReadFails => HttpInv'
<1> SUFFICES ASSUME HttpInv, ReadFails
             PROVE  HttpInv'
  OBVIOUS
<1> USE DEF ReadFails, Then
<1>z. at \notin {"close", "finish"} => ret = Ok
  BY DEF HttpInv, Sorts
<1>1. Shapes'
  BY DEF HttpInv, Shapes
<1>2. Sorts'
  BY <1>z DEF HttpInv, Sorts, Steps, Results, Errors, Ok
<1>3. Held'
  BY DEF HttpInv, Held, HeapSound, Sorts
<1>4. Room'
  BY <1>z DEF HttpInv, Room, Ok
<1>5. Told'
  BY <1>z DEF HttpInv, Told, Ok
<1>6. Asked'
  BY DEF HttpInv, Asked
<1>7. Judged'
  BY DEF HttpInv, Judged
<1> QED
  BY <1>1, <1>2, <1>3, <1>4, <1>5, <1>6, <1>7 DEF HttpInv

LEMMA ReadSomeKeeps == HttpInv /\ ReadSome => HttpInv'
<1> SUFFICES ASSUME HttpInv, ReadSome
             PROVE  HttpInv'
  OBVIOUS
<1> USE DEF ReadSome, Capacity, Then
<1>z. at \notin {"close", "finish"} => ret = Ok
  BY DEF HttpInv, Sorts
<1>a. PICK n \in 1..(Capacity(call.kind) - response.length) :
          /\ n <= answer.left
          /\ answer' = [answer EXCEPT !.left = @ - n]
          /\ response' = [response EXCEPT !.length = @ + n]
          /\ IF response.length + n > Limit[call.kind]
             THEN Then("close", "size")
             ELSE Then("read", Ok)
  OBVIOUS
<1>b. /\ Limit[call.kind] \in Nat /\ response.length \in Nat /\ n \in Nat
      /\ response.length + n \in Nat
      /\ response.length + n <= Limit[call.kind] + 1
  BY <1>a, CallType, ResponseType DEF HttpInv, Shapes
<1>1. Shapes'
  BY <1>a, <1>b, ResponseUpdate, AnswerFields DEF HttpInv, Shapes
<1>2. Sorts'
  BY <1>z, <1>a DEF HttpInv, Sorts, Steps, Results, Errors, Ok
<1>3. Held'
  BY <1>a, ResponseType DEF HttpInv, Held, HeapSound, Sorts, Shapes
<1>4. Room'
  BY <1>z, <1>a, <1>b, ResponseType DEF HttpInv, Room, Shapes, Ok
<1>5. Told'
  BY <1>z, <1>a, AnswerFields, ResponseType DEF HttpInv, Told, Shapes, Ok
<1>6. Asked'
  BY <1>a DEF HttpInv, Asked
<1>7. Judged'
  BY <1>a DEF HttpInv, Judged
<1> QED
  BY <1>1, <1>2, <1>3, <1>4, <1>5, <1>6, <1>7 DEF HttpInv

LEMMA CloseRequestKeeps == HttpInv /\ CloseRequest => HttpInv'
<1> SUFFICES ASSUME HttpInv, CloseRequest
             PROVE  HttpInv'
  OBVIOUS
<1> USE DEF CloseRequest
<1>z. at \notin {"close", "finish"} => ret = Ok
  BY DEF HttpInv, Sorts
<1>1. Shapes'
  BY ResponseUpdate, ResponseType DEF HttpInv, Shapes
<1>2. Sorts'
  BY <1>z DEF HttpInv, Sorts, Steps, Results, Errors, Ok, Then
<1>3. Held'
  BY ResponseType DEF HttpInv, Held, HeapSound, Sorts, Shapes, Then
<1>4. Room'
  BY <1>z, ResponseType, CallType DEF HttpInv, Room, Shapes, Ok, Then
<1>5. Told'
  BY <1>z, ResponseType, AnswerFields DEF HttpInv, Told, Shapes, Ok, Then
<1>6. Asked'
  BY DEF HttpInv, Asked, Then
<1>7. Judged'
  BY DEF HttpInv, Judged, Then
<1> QED
  BY <1>1, <1>2, <1>3, <1>4, <1>5, <1>6, <1>7 DEF HttpInv

(* The return of a call: its result is Ok only for a whole answer of 200.  *)
LEMMA ReturnKeeps ==
    ASSUME HttpInv, at = "finish", NEW error \in Results, Return(error),
           error = Ok => ret = Ok /\ response.status = 200,
           manifest' \in Manifests, frame' \in Frames \cup {Nothing}
    PROVE  HttpInv'
<1>1. /\ at' = "idle" /\ ret' = Ok /\ heap' = heap \ {"body", "request"}
      /\ answer' = NoAnswer /\ response' = NoResponse /\ call' = NoCall /\ taken' = taken
  BY DEF Return
<1>2. /\ NoResponse \in Responses /\ NoCall \in CallRecords /\ NoAnswer \in Answers
      /\ NoResponse.length = 0 /\ NoResponse.terminator = -1
      /\ NoResponse.status = NoStatus /\ NoResponse.data = "null"
      /\ NoCall.kind = "manifest" /\ NoAnswer.left = 0 /\ NoAnswer.status = NoStatus
  BY NoResponseType, NoCallType, NoAnswerType DEF NoResponse, NoCall
<1>3. /\ last' \in Ends
      /\ last'.outcome = error /\ last'.status = response.status
      /\ last'.want = call.want /\ last'.kind = call.kind
      /\ last'.genuine = answer.genuine
      /\ last'.whole = (answer.left = 0 /\ ~answer.encoded)
  <2>1. /\ call.kind \in Kinds /\ call.want \in Ids /\ response.status \in Seen
        /\ answer.genuine \in BOOLEAN
    BY CallType, ResponseType DEF HttpInv, Shapes, Answers
  <2> QED
    BY <2>1 DEF Return, Ends
<1>4. Shapes'
  BY <1>1, <1>2, <1>3 DEF Shapes
<1>5. Sorts' /\ Held'
  BY <1>1, <1>2 DEF HttpInv, Sorts, Steps, Results, Held, HeapSound
<1>6. Room' /\ Told' /\ Asked'
  BY <1>1, <1>2, CallType DEF HttpInv, Room, Told, Asked, NoStatus, Ok
<1>7. Judged'
  <2>1. error = Ok =>
           /\ response.status = 200 /\ answer.left = 0 /\ ~answer.encoded
           /\ answer.status = 200
    BY DEF HttpInv, Told
  <2>2. error = Ok /\ call.kind = "report" /\ answer.genuine => call.want \in taken
    BY <2>1 DEF HttpInv, Told
  <2> QED
    BY <1>1, <1>3, <2>1, <2>2 DEF Judged
<1> QED
  BY <1>4, <1>5, <1>6, <1>7 DEF HttpInv

LEMMA RefusedType ==
    Refused \in Results /\ Refused # Ok /\ JudgeReport \in Results
    /\ (JudgeReport = Ok => response.status = 200)
BY DEF Refused, JudgeReport, Results, Errors, Ok

LEMMA FinishManifestKeeps == HttpInv /\ FinishManifest => HttpInv'
<1> SUFFICES ASSUME HttpInv, FinishManifest
             PROVE  HttpInv'
  OBVIOUS
<1>1. /\ at = "finish" /\ ret \in Results /\ manifest \in Manifests
      /\ frame \in Frames \cup {Nothing} /\ frame' = frame
  BY DEF HttpInv, Sorts, Shapes, FinishManifest
<1>2. CASE ret # Ok
  BY <1>1, <1>2, ReturnKeeps DEF FinishManifest
<1>3. CASE ret = Ok /\ response.status # 200
  BY <1>1, <1>3, RefusedType, ReturnKeeps DEF FinishManifest
<1>4. CASE ret = Ok /\ response.status = 200
  <2>1. PICK error \in {Ok, "response"} :
           /\ error = Ok => answer.content # Junk
           /\ ParseManifest(error)
           /\ Return(error)
    BY <1>4 DEF FinishManifest
  <2>2. answer.content # Junk =>
           [id |-> answer.content, path |-> answer.path] \in Manifests
    BY AnswerFields DEF HttpInv, Shapes, Manifests, Contents
  <2>3. manifest' \in Manifests /\ error \in Results
    BY <1>1, <2>1, <2>2 DEF ParseManifest, Results, Errors, Ok
  <2> QED
    BY <1>1, <1>4, <2>1, <2>3, ReturnKeeps
<1> QED
  BY <1>2, <1>3, <1>4

LEMMA FinishFrameKeeps == HttpInv /\ FinishFrame => HttpInv'
<1> SUFFICES ASSUME HttpInv, FinishFrame
             PROVE  HttpInv'
  OBVIOUS
<1>1. /\ at = "finish" /\ ret \in Results /\ manifest \in Manifests /\ manifest' = manifest
      /\ frame \in Frames \cup {Nothing} /\ call.kind = "frame" /\ call.want \in Frames
  BY DEF HttpInv, Sorts, Shapes, Asked, FinishFrame
<1>2. PICK error \in IF ret = Ok THEN JudgeFrame(answer.content) ELSE {ret} :
         /\ frame' = IF error = Ok THEN answer.content ELSE frame
         /\ Return(error)
  BY DEF FinishFrame
<1>3. /\ error \in Results
      /\ error = Ok => ret = Ok /\ response.status = 200 /\ answer.content = call.want
  BY <1>1, <1>2, RefusedType DEF JudgeFrame, Results, Errors, Ok
<1> QED
  BY <1>1, <1>2, <1>3, ReturnKeeps

LEMMA FinishReportKeeps == HttpInv /\ FinishReport => HttpInv'
BY RefusedType, ReturnKeeps DEF FinishReport, HttpInv, Sorts, Shapes

LEMMA HttpStepInv == HttpInv /\ [HttpNext]_httpVars => HttpInv'
<1> SUFFICES ASSUME HttpInv, [HttpNext]_httpVars
             PROVE  HttpInv'
  OBVIOUS
<1>1. CASE HttpNext
  BY <1>1, GetManifestKeeps, GetFrameKeeps, PostReportKeeps, AllocKeeps, InitHttpKeeps,
     OpenFailsKeeps, OpenRequestKeeps, HeadersFailKeeps, HeadersKeeps, DeadlineKeeps,
     ReadSomeKeeps, ReadNoneKeeps, ReadFailsKeeps, CloseRequestKeeps,
     FinishManifestKeeps, FinishFrameKeeps, FinishReportKeeps
     DEF HttpNext, HttpStep
<1>2. CASE UNCHANGED httpVars
  BY <1>2 DEF httpVars, HttpInv, Shapes, Sorts, Held, HeapSound, Room, Told, Asked, Judged
<1> QED
  BY <1>1, <1>2

-----------------------------------------------------------------------------
(* The steps, records and results of the calls keep their types, whatever  *)
(* the other end sends.                                                    *)
THEOREM HttpTypes == HttpSpec => []HttpTypeOK
<1>1. HttpInv => HttpTypeOK
  BY CallType, AnswerFields, ResponseType, ManifestType
     DEF HttpInv, Shapes, Sorts, Steps, HttpTypeOK, Ids, Seen, AnswerStatuses, Manifests, Ends
<1> QED
  BY <1>1, HttpInitInv, HttpStepInv, PTL DEF HttpSpec

(* Every path out of a call frees what it holds, once, and body and        *)
(* terminator stay inside the buffer, for every limit and every length     *)
(* declared or sent.                                                       *)
THEOREM MemoryIsSound == HttpSpec => []MemorySound
<1>1. HttpInv => MemorySound
  BY CallType, ResponseType
     DEF HttpInv, Shapes, Held, Room, MemorySound, HeapSound, BufferBounded, Capacity
<1> QED
  BY <1>1, HttpInitInv, HttpStepInv, PTL DEF HttpSpec

(* A call that returns ESP_OK had one whole answer of status 200, and a    *)
(* report Home Assistant answered for is one it has taken.                 *)
THEOREM OutcomesAreTrue == HttpSpec => []OutcomeTrue
<1>1. HttpInv => OutcomeTrue
  BY DEF HttpInv, Judged, OutcomeTrue
<1> QED
  BY <1>1, HttpInitInv, HttpStepInv, PTL DEF HttpSpec

(* The frame buffer only ever becomes the frame the manifest names, from   *)
(* one whole answer.                                                       *)
THEOREM FramesAreWanted == HttpSpec => FrameIsWanted
<1>1. HttpInv /\ [HttpNext]_httpVars =>
        [frame' # frame => /\ frame' = manifest.id
                           /\ manifest.path
                           /\ last'.outcome = Ok /\ last'.whole /\ last'.status = 200]_httpVars
  <2> SUFFICES ASSUME HttpInv, HttpNext, frame' # frame
               PROVE  /\ frame' = manifest.id
                      /\ manifest.path
                      /\ last'.outcome = Ok /\ last'.whole /\ last'.status = 200
    BY DEF httpVars
  <2>1. FinishFrame
    BY DEF HttpNext, HttpStep, GetManifest, GetFrame, PostReport, Begin, ReturnEarly,
       Alloc, InitHttp, OpenFails, OpenRequest, HeadersFail, Headers, Deadline, ReadSome,
       ReadNone, ReadFails, CloseRequest, FinishManifest, FinishReport
  <2>2. /\ frame' = call.want /\ ret = Ok /\ response.status = 200
        /\ Return(Ok)
    BY <2>1 DEF FinishFrame, JudgeFrame, Refused, Ok
  <2>3. call.want = manifest.id /\ manifest.path
    BY <2>1 DEF HttpInv, Asked, FinishFrame
  <2>4. answer.left = 0 /\ ~answer.encoded
    BY <2>1, <2>2 DEF HttpInv, Told, FinishFrame
  <2> QED
    BY <2>2, <2>3, <2>4 DEF Return
<1> QED
  BY <1>1, HttpInitInv, HttpStepInv, PTL DEF HttpSpec, FrameIsWanted

-----------------------------------------------------------------------------
(* BearerKey.                                                              *)

Places == 0..KeyMax

Types ==
    /\ kpc \in {"off", "load", "prompt", "check", "set", "commit", "done"}
    /\ key \in [Places -> Printable \cup {Nul}]
    /\ length \in Places
    /\ stored \in Texts \cup {Absent}
    /\ pending \in Texts \cup {Absent}
    /\ result \in {"none", "ok", "nvs", "uart", "timeout"}
    /\ line \in Seq(Printable)
    /\ left \in Seq(Printable)
    /\ entered \in BOOLEAN

(* The buffer has the line typed over what earlier lines left there.       *)
Typing ==
    /\ kpc = "load" => key = Empty /\ length = 0
    /\ kpc = "prompt" =>
          /\ ~entered
          /\ length = Len(line)
          /\ Len(left) <= KeyMax
          /\ key = Fill(Overlay(line, left))

(* From the prompt to the commit NVS has no key and the buffer has what    *)
(* was entered.                                                            *)
Keeping ==
    /\ kpc \in {"prompt", "check", "set", "commit"} => stored = Absent
    /\ kpc \in {"set", "commit"} => ValidBearerKey
    /\ pending # Absent => kpc = "commit"
    /\ kpc = "commit" => pending = String
    /\ kpc \in {"check", "set", "commit"} => String = Entry

KeyInv == Types /\ Terminated /\ Typing /\ Keeping /\ UsedKeyIsStored /\ SavedIsEntry

-----------------------------------------------------------------------------
(* Strings in the buffer.                                                  *)
LEMMA Width == KeyMax \in Nat /\ KeyMax > 0 /\ Nul \notin Printable
BY KeyAssumption

LEMMA StringIs ==
    \A n \in Places :
        IsEnd(n) => Terminated /\ String = [i \in 1..n |-> key[i - 1]]
<1> SUFFICES ASSUME NEW n \in Places, IsEnd(n)
             PROVE  Terminated /\ String = [i \in 1..n |-> key[i - 1]]
  OBVIOUS
<1>1. \A i \in Places : IsEnd(i) => i = n
  <2> SUFFICES ASSUME NEW i \in Places, IsEnd(i)
               PROVE  i = n
    OBVIOUS
  <2>1. i \in Int /\ n \in Int
    BY Width DEF Places
  <2>2. ~(i < n)
    BY <2>1 DEF IsEnd, Places
  <2>3. ~(n < i)
    BY <2>1 DEF IsEnd, Places
  <2> QED
    BY <2>1, <2>2, <2>3
<1>2. (CHOOSE i \in 0..KeyMax : IsEnd(i)) = n
  BY <1>1 DEF Places
<1> QED
  BY <1>2 DEF String, Terminated, Places

LEMMA StringIsNext ==
    (\A n \in Places :
        IsEnd(n) => Terminated /\ String = [i \in 1..n |-> key[i - 1]])'
BY StringIs, PTL

LEMMA TextSeq ==
    /\ Texts \subseteq Seq(Printable)
    /\ \A t \in Texts : Len(t) \in 1..KeyMax /\ t \in [1..Len(t) -> Printable]
    /\ Absent \notin Texts
<1>1. ASSUME NEW n \in 1..KeyMax, NEW t \in [1..n -> Printable]
      PROVE  t \in Seq(Printable) /\ Len(t) = n
  BY <1>1, SeqDef, Width
<1>2. ASSUME NEW t \in Texts
      PROVE  t \in Seq(Printable) /\ Len(t) \in 1..KeyMax /\ t \in [1..Len(t) -> Printable]
  <2>1. PICK n \in 1..KeyMax : t \in [1..n -> Printable]
    BY DEF Texts
  <2>2. t \in Seq(Printable) /\ Len(t) = n
    BY <1>1, <2>1
  <2> QED
    BY <2>1, <2>2
<1>3. ASSUME Absent \in Texts
      PROVE  FALSE
  <2>1. Absent[1] = Nul
    BY DEF Absent
  <2>2. Absent[1] \in Printable
    BY <1>2, <1>3, Width
  <2> QED
    BY <2>1, <2>2, Width
<1> QED
  BY <1>2, <1>3

(* A valid key is a text.                                                  *)
LEMMA ValidIsText ==
    ASSUME Types, ValidBearerKey
    PROVE  String \in Texts
<1>1. PICK n \in Places : IsEnd(n)
  BY DEF ValidBearerKey, Terminated, Places
<1>2. String = [i \in 1..n |-> key[i - 1]]
  BY <1>1, StringIs
<1>3. n \in 1..KeyMax
  BY <1>1, Width DEF ValidBearerKey, IsEnd, Places
<1>4. \A i \in 1..n : key[i - 1] \in Printable
  <2> SUFFICES ASSUME NEW i \in 1..n
               PROVE  key[i - 1] \in Printable
    OBVIOUS
  <2>1. i - 1 \in Places /\ i - 1 \in 0..(n - 1)
    BY <1>3, Width DEF Places
  <2> QED
    BY <1>1, <2>1 DEF IsEnd, Types
<1>5. String \in [1..n -> Printable]
  BY <1>2, <1>4
<1> QED
  BY <1>3, <1>5 DEF Texts

(* What load_bearer_key finds in the buffer after it has read a text.      *)
LEMMA FillType ==
    /\ Empty \in [Places -> Printable \cup {Nul}]
    /\ \A t \in Texts : Fill(t) \in [Places -> Printable \cup {Nul}]
<1>1. Empty \in [Places -> Printable \cup {Nul}]
  BY DEF Empty, Places
<1>2. ASSUME NEW t \in Texts
      PROVE  Fill(t) \in [Places -> Printable \cup {Nul}]
  <2>1. Len(t) \in Nat /\ t \in [1..Len(t) -> Printable]
    BY TextSeq
  <2>2. \A i \in Places : i < Len(t) => i + 1 \in 1..Len(t)
    BY <2>1, Width DEF Places
  <2> QED
    BY <2>1, <2>2 DEF Fill, Places
<1> QED
  BY <1>1, <1>2

LEMMA FillString ==
    \A t \in Seq(Printable) : Len(t) <= KeyMax /\ key = Fill(t) =>
        /\ Terminated /\ String = t
        /\ Len(t) > 0 => ValidBearerKey
<1> SUFFICES ASSUME NEW t \in Seq(Printable), Len(t) <= KeyMax, key = Fill(t)
             PROVE  Terminated /\ String = t /\ (Len(t) > 0 => ValidBearerKey)
  OBVIOUS
<1>1. Len(t) \in Places /\ t \in [1..Len(t) -> Printable] /\ Len(t) \in Nat
  BY LenProperties, Width DEF Places
<1>2. \A i \in Places : key[i] = IF i < Len(t) THEN t[i + 1] ELSE Nul
  BY DEF Fill, Places
<1>3. \A i \in 0..(Len(t) - 1) : key[i] = t[i + 1] /\ t[i + 1] \in Printable
  BY <1>1, <1>2, Width DEF Places
<1>4. key[Len(t)] = Nul
  BY <1>1, <1>2, Width DEF Places
<1>5. IsEnd(Len(t))
  BY <1>1, <1>3, <1>4, Width DEF IsEnd
<1>6. Terminated /\ String = [i \in 1..Len(t) |-> key[i - 1]]
  BY <1>1, <1>5, StringIs
<1>7. \A i \in 1..Len(t) : key[i - 1] = t[i]
  BY <1>1, <1>3
<1>8. Len(t) > 0 => key[0] # Nul
  BY <1>1, <1>3, Width
<1> QED
  BY <1>1, <1>6, <1>7, <1>8 DEF ValidBearerKey

LEMMA FillStringNext ==
    (\A t \in Seq(Printable) : Len(t) <= KeyMax /\ key = Fill(t) =>
        /\ Terminated /\ String = t
        /\ Len(t) > 0 => ValidBearerKey)'
BY FillString, PTL

(* One line over another: the longer one's length, and at each place the   *)
(* new byte if there is one.                                               *)
LEMMA OverlayIs ==
    ASSUME NEW new \in Seq(Printable), NEW old \in Seq(Printable)
    PROVE  /\ Overlay(new, old) \in Seq(Printable)
           /\ Len(Overlay(new, old)) = IF Len(new) >= Len(old) THEN Len(new) ELSE Len(old)
           /\ \A i \in 1..Len(Overlay(new, old)) :
                 Overlay(new, old)[i] = IF i <= Len(new) THEN new[i] ELSE old[i]
<1> DEFINE n == IF Len(new) >= Len(old) THEN Len(new) ELSE Len(old)
<1>1. /\ Len(new) \in Nat /\ new \in [1..Len(new) -> Printable]
      /\ Len(old) \in Nat /\ old \in [1..Len(old) -> Printable]
  BY LenProperties
<1>2. n \in Nat
  BY <1>1
<1>3. \A i \in 1..n : (IF i <= Len(new) THEN new[i] ELSE old[i]) \in Printable
  BY <1>1
<1>4. Overlay(new, old) \in [1..n -> Printable]
  BY <1>3 DEF Overlay
<1>5. Overlay(new, old) \in Seq(Printable) /\ Len(Overlay(new, old)) = n
  BY <1>2, <1>4, SeqDef, LenProperties
<1>6. \A i \in 1..n : Overlay(new, old)[i] = IF i <= Len(new) THEN new[i] ELSE old[i]
  BY DEF Overlay
<1> QED
  BY <1>5, <1>6

(* What lies in the buffer, place by place.                                *)
LEMMA OverlayFills ==
    ASSUME NEW new \in Seq(Printable), NEW old \in Seq(Printable)
    PROVE  Fill(Overlay(new, old)) =
               [i \in Places |-> IF i < Len(new) THEN new[i + 1]
                                 ELSE IF i < Len(old) THEN old[i + 1] ELSE Nul]
<1> DEFINE o == Overlay(new, old)
           f == [i \in Places |-> IF i < Len(new) THEN new[i + 1]
                                  ELSE IF i < Len(old) THEN old[i + 1] ELSE Nul]
<1>1. Len(new) \in Nat /\ Len(old) \in Nat
  BY LenProperties
<1>2. /\ Len(o) = IF Len(new) >= Len(old) THEN Len(new) ELSE Len(old)
      /\ \A i \in 1..Len(o) : o[i] = IF i <= Len(new) THEN new[i] ELSE old[i]
  BY OverlayIs
<1>3. Fill(o) = [i \in Places |-> IF i < Len(o) THEN o[i + 1] ELSE Nul]
  BY DEF Fill, Places
<1> HIDE DEF o
<1>4. ASSUME NEW i \in Places
      PROVE  (IF i < Len(o) THEN o[i + 1] ELSE Nul) = f[i]
  <2>1. i \in Nat
    BY Width DEF Places
  <2>2. CASE i < Len(o)
    <3>1. i + 1 \in 1..Len(o)
      BY <1>1, <1>2, <2>1, <2>2
    <3>2. o[i + 1] = IF i + 1 <= Len(new) THEN new[i + 1] ELSE old[i + 1]
      BY <1>2, <3>1
    <3> QED
      BY <1>1, <1>2, <2>1, <2>2, <3>2
  <2>3. CASE ~(i < Len(o))
    BY <1>1, <1>2, <2>1, <2>3
  <2> QED
    BY <2>2, <2>3
<1>5. Fill(o) = f
  BY <1>3, <1>4
<1> QED
  BY <1>5 DEF o

LEMMA EmptyTerminated == key = Empty => Terminated
BY Width DEF Empty, Terminated, IsEnd

LEMMA EmptyTerminatedNext == (key = Empty => Terminated)'
BY EmptyTerminated, PTL

(* A prompt begins with an empty buffer, and no line.                      *)
LEMMA EmptyFills == Fill(Overlay(<<>>, <<>>)) = Empty
<1> DEFINE e == <<>>
<1>1. e \in Seq(Printable) /\ Len(e) = 0
  OBVIOUS
<1> HIDE DEF e
<1>2. Fill(Overlay(e, e)) =
          [i \in Places |-> IF i < Len(e) THEN e[i + 1]
                            ELSE IF i < Len(e) THEN e[i + 1] ELSE Nul]
  BY <1>1, OverlayFills
<1>3. \A i \in Places : ~(i < Len(e))
  BY <1>1, Width DEF Places
<1>4. Fill(Overlay(e, e)) = Empty
  BY <1>2, <1>3 DEF Empty, Places
<1> QED
  BY <1>4 DEF e

(* A line that is given up stays where it is.                              *)
LEMMA GivenUpFills ==
    ASSUME NEW new \in Seq(Printable), NEW old \in Seq(Printable)
    PROVE  Fill(Overlay(<<>>, Overlay(new, old))) = Fill(Overlay(new, old))
<1> DEFINE o == Overlay(new, old)
           e == <<>>
<1>1. o \in Seq(Printable) /\ e \in Seq(Printable) /\ Len(e) = 0
  BY OverlayIs
<1> HIDE DEF o, e
<1>2. Fill(Overlay(e, o)) =
          [i \in Places |-> IF i < Len(e) THEN e[i + 1]
                            ELSE IF i < Len(o) THEN o[i + 1] ELSE Nul]
  BY <1>1, OverlayFills
<1>3. \A i \in Places : ~(i < Len(e))
  BY <1>1, Width DEF Places
<1>4. Fill(Overlay(e, o)) = Fill(o)
  BY <1>2, <1>3 DEF Fill, Places
<1> QED
  BY <1>4 DEF o, e

LEMMA EntryKept ==
    ASSUME UNCHANGED <<line, left, entered>>
    PROVE  Entry' = Entry
BY DEF Entry, Overlay

-----------------------------------------------------------------------------
LEMMA KeyInitInv == KeyInit => KeyInv
<1> SUFFICES ASSUME KeyInit
             PROVE  KeyInv
  OBVIOUS
<1>1. Types
  <2>1. <<>> \in Seq(Printable)
    OBVIOUS
  <2>2. 0 \in Places
    BY Width DEF Places
  <2> QED
    BY <2>1, <2>2, FillType DEF KeyInit, Types
<1>2. Terminated
  BY EmptyTerminated DEF KeyInit
<1> QED
  BY <1>1, <1>2 DEF KeyInit, KeyInv, Typing, Keeping, UsedKeyIsStored, SavedIsEntry

(* The steps that leave an empty buffer behind.                            *)
LEMMA EmptyInv ==
    ASSUME Types', key' = Empty, kpc' \in {"off", "load", "done"},
           kpc' = "done" => result' # "ok", kpc' = "load" => length' = 0,
           pending' = Absent, SavedIsEntry'
    PROVE  KeyInv'
<1>1. Terminated'
  BY EmptyTerminatedNext DEF Empty
<1> QED
  BY <1>1 DEF KeyInv, Typing, Keeping, UsedKeyIsStored

LEMMA BootKeeps == KeyInv /\ Boot => KeyInv'
<1> SUFFICES ASSUME KeyInv, Boot
             PROVE  KeyInv'
  OBVIOUS
<1>1. Types'
  BY FillType, Width DEF KeyInv, Types, Boot, Places
<1>2. SavedIsEntry' /\ pending = Absent
  BY EntryKept DEF KeyInv, Keeping, SavedIsEntry, Boot
<1> QED
  BY <1>1, <1>2, EmptyInv DEF Boot

LEMMA LoadStoredKeeps == KeyInv /\ LoadStored => KeyInv'
<1> SUFFICES ASSUME KeyInv, LoadStored
             PROVE  KeyInv'
  OBVIOUS
<1>1. /\ stored \in Texts /\ key' = Fill(stored) /\ kpc' = "done" /\ result' = "ok"
      /\ UNCHANGED <<length, stored, pending, bytes, line, left, entered>>
  BY DEF KeyInv, Types, LoadStored, Finish
<1>2. Types'
  BY <1>1, FillType DEF KeyInv, Types
<1>3. /\ Terminated' /\ ValidBearerKey' /\ String' = stored
  <2>1. stored \in Seq(Printable) /\ Len(stored) <= KeyMax /\ Len(stored) > 0
    BY <1>1, TextSeq, Width
  <2> QED
    BY <1>1, <2>1, FillStringNext DEF Fill
<1>4. pending = Absent
  BY DEF KeyInv, Keeping, LoadStored
<1> QED
  BY <1>1, <1>2, <1>3, <1>4
     DEF KeyInv, Typing, Keeping, UsedKeyIsStored, SavedIsEntry, Entry

LEMMA LoadFailsKeeps == KeyInv /\ (LoadFails \/ PromptFails) => KeyInv'
<1> SUFFICES ASSUME KeyInv, LoadFails \/ PromptFails
             PROVE  KeyInv'
  OBVIOUS
<1>1. /\ kpc = "load" /\ kpc' = "done" /\ result' \in {"nvs", "uart"} /\ key' = Empty
      /\ UNCHANGED <<length, stored, pending, bytes, line, left, entered>>
  BY DEF LoadFails, PromptFails, Finish
<1>2. Types'
  BY <1>1, FillType DEF KeyInv, Types
<1>3. SavedIsEntry' /\ pending = Absent
  BY <1>1, EntryKept DEF KeyInv, Keeping, SavedIsEntry
<1> QED
  BY <1>1, <1>2, <1>3, EmptyInv

LEMMA PromptKeeps == KeyInv /\ Prompt => KeyInv'
<1> SUFFICES ASSUME KeyInv, Prompt
             PROVE  KeyInv'
  OBVIOUS
<1>1. /\ kpc = "load" /\ stored = Absent /\ pending = Absent /\ key = Empty /\ length = 0
      /\ kpc' = "prompt" /\ line' = <<>> /\ left' = <<>> /\ entered' = FALSE
      /\ UNCHANGED <<key, length, stored, pending, result>>
  BY DEF KeyInv, Typing, Keeping, Prompt
<1>2. Types'
  BY <1>1 DEF KeyInv, Types
<1>3. Terminated'
  BY <1>1, EmptyTerminatedNext DEF Empty
<1>4. Typing'
  <2>1. key' = Fill(Overlay(line, left))'
    BY <1>1, EmptyFills DEF Fill, Overlay
  <2>2. Len(line') = 0 /\ Len(left') <= KeyMax
    BY <1>1, Width
  <2> QED
    BY <1>1, <2>1, <2>2 DEF Typing
<1> QED
  BY <1>1, <1>2, <1>3, <1>4 DEF KeyInv, Keeping, UsedKeyIsStored, SavedIsEntry

(* The steps of a prompt that go on: what is to be shown is what lies in   *)
(* the buffer.                                                             *)
LEMMA TypingInv ==
    ASSUME KeyInv, kpc = "prompt", kpc' = "prompt", Types', Typing',
           UNCHANGED <<stored, pending, entered>>
    PROVE  KeyInv'
<1>1. /\ line' \in Seq(Printable) /\ left' \in Seq(Printable)
      /\ Len(line') <= KeyMax /\ Len(left') <= KeyMax
      /\ key' = Fill(Overlay(line', left'))
  BY Width DEF Types, Typing, Places, Fill, Overlay
<1>2. /\ Overlay(line', left') \in Seq(Printable) /\ Len(Overlay(line', left')) <= KeyMax
  BY <1>1, OverlayIs
<1>3. Terminated'
  BY <1>1, <1>2, FillStringNext DEF Fill
<1> QED
  BY <1>3 DEF KeyInv, Keeping, UsedKeyIsStored, SavedIsEntry

(* A line given up, at a byte that does not belong to it.                  *)
LEMMA GiveUpKeeps ==
    ASSUME KeyInv, kpc = "prompt", kpc' = "prompt", GiveUp, length' = 0,
           UNCHANGED <<key, stored, pending, result, entered>>
    PROVE  KeyInv'
<1>1. /\ line \in Seq(Printable) /\ left \in Seq(Printable) /\ length \in Places
      /\ length = Len(line) /\ Len(left) <= KeyMax /\ key = Fill(Overlay(line, left))
      /\ ~entered
  BY DEF KeyInv, Types, Typing
<1>2. line' = <<>> /\ left' = Overlay(line, left)
  BY DEF GiveUp
<1>3. left' \in Seq(Printable) /\ Len(left') <= KeyMax /\ line' \in Seq(Printable)
  BY <1>1, <1>2, OverlayIs, Width DEF Places
<1>4. Types'
  BY <1>3, Width DEF KeyInv, Types, Places
<1>5. key' = Fill(Overlay(line', left'))
  BY <1>1, <1>2, GivenUpFills
<1>6. Typing'
  BY <1>1, <1>2, <1>3, <1>5 DEF Typing, Fill, Overlay
<1> QED
  BY <1>4, <1>6, TypingInv

LEMMA TakePrintableKeeps ==
    ASSUME NEW b \in Printable, KeyInv, TakePrintable(b)
    PROVE  KeyInv'
<1>1. /\ kpc = "prompt" /\ kpc' = "prompt" /\ ~entered
      /\ UNCHANGED <<stored, pending, result, entered>>
  BY DEF KeyInv, Typing, TakePrintable, Arrives
<1>2. /\ key \in [Places -> Printable \cup {Nul}] /\ length \in Places
      /\ line \in Seq(Printable) /\ length = Len(line)
      /\ left \in Seq(Printable) /\ Len(left) <= KeyMax
      /\ key = Fill(Overlay(line, left))
  BY <1>1 DEF KeyInv, Types, Typing
<1>3. CASE length < KeyMax
  <2>1. /\ key' = [key EXCEPT ![length] = b] /\ length' = length + 1
        /\ line' = Append(line, b) /\ left' = left
    BY <1>3 DEF TakePrintable
  <2>2. /\ line' \in Seq(Printable) /\ Len(line') = length + 1
        /\ \A i \in 1..length : line'[i] = line[i]
        /\ line'[length + 1] = b
    BY <1>2, <2>1, AppendProperties
  <2>3. length' \in Places /\ key' \in [Places -> Printable \cup {Nul}]
    BY <1>2, <1>3, <2>1, Width DEF Places
  <2>4. Types'
    BY <1>1, <2>1, <2>2, <2>3 DEF KeyInv, Types
  <2>5. key' = Fill(Overlay(line', left'))
    <3> DEFINE In(l, i) == IF i < Len(l) THEN l[i + 1]
                           ELSE IF i < Len(left) THEN left[i + 1] ELSE Nul
    <3>1. key = [i \in Places |-> In(line, i)]
      BY <1>2, OverlayFills
    <3>2. Fill(Overlay(line', left')) = [i \in Places |-> In(line', i)]
      BY <1>2, <2>1, <2>2, OverlayFills
    <3>3. ASSUME NEW i \in Places
          PROVE  key'[i] = In(line', i)
      <4>1. i \in Nat /\ length \in Nat
        BY <1>2, Width DEF Places
      <4>2. CASE i < length
        <5>1. key'[i] = In(line, i) /\ In(line, i) = line[i + 1]
          BY <1>2, <2>1, <3>1, <4>1, <4>2
        <5>2. In(line', i) = line'[i + 1] /\ i + 1 \in 1..length
          BY <2>2, <4>1, <4>2
        <5> QED
          BY <2>2, <5>1, <5>2
      <4>3. CASE i = length
        BY <1>2, <2>1, <2>2, <4>1, <4>3
      <4>4. CASE i > length
        <5>1. key'[i] = In(line, i)
          BY <1>2, <2>1, <3>1, <4>1, <4>4
        <5>2. ~(i < Len(line)) /\ ~(i < Len(line'))
          BY <1>2, <2>2, <4>1, <4>4
        <5> QED
          BY <5>1, <5>2
      <4> QED
        BY <4>1, <4>2, <4>3, <4>4
    <3> QED
      BY <2>3, <3>2, <3>3
  <2>6. Typing'
    BY <1>1, <1>2, <2>1, <2>2, <2>5 DEF Typing, Fill, Overlay
  <2> QED
    BY <1>1, <2>4, <2>6, TypingInv
<1>4. CASE ~(length < KeyMax)
  BY <1>1, <1>4, GiveUpKeeps DEF TakePrintable
<1> QED
  BY <1>3, <1>4

LEMMA TakeOtherKeeps == KeyInv /\ TakeOther => KeyInv'
BY GiveUpKeeps DEF TakeOther, Arrives

LEMMA TakeEnterKeeps == KeyInv /\ TakeEnter => KeyInv'
<1> SUFFICES ASSUME KeyInv, TakeEnter
             PROVE  KeyInv'
  OBVIOUS
<1>1. /\ kpc = "prompt" /\ stored = Absent /\ pending = Absent
      /\ UNCHANGED <<length, stored, pending, result, line, left>>
  BY DEF KeyInv, Keeping, TakeEnter, Arrives
<1>2. /\ key \in [Places -> Printable \cup {Nul}] /\ length \in Places
      /\ line \in Seq(Printable) /\ length = Len(line)
      /\ \A i \in 1..length : key[i - 1] = line[i]
  <2>1. /\ key \in [Places -> Printable \cup {Nul}] /\ length \in Places
        /\ line \in Seq(Printable) /\ length = Len(line)
        /\ left \in Seq(Printable) /\ key = Fill(Overlay(line, left))
    BY <1>1 DEF KeyInv, Types, Typing
  <2>2. \A i \in Places : i < Len(line) => key[i] = line[i + 1]
    BY <2>1, OverlayFills
  <2>3. \A i \in 1..length : i - 1 \in Places /\ i - 1 < Len(line) /\ (i - 1) + 1 = i
    BY <2>1, Width DEF Places
  <2> QED
    BY <2>1, <2>2, <2>3
<1>3. CASE length > 0
  <2>1. key' = [key EXCEPT ![length] = Nul] /\ kpc' = "check" /\ entered' = TRUE
    BY <1>3 DEF TakeEnter
  <2>2. Types'
    BY <1>1, <1>2, <2>1 DEF KeyInv, Types
  <2>3. \A i \in 1..length : key'[i - 1] = line[i] /\ line[i] \in Printable
    BY <1>2, <2>1, LenProperties, Width DEF Places
  <2>4. IsEnd(length)'
    <3>1. key'[length] = Nul
      BY <1>2, <2>1
    <3>2. \A j \in 0..(length - 1) : key'[j] # Nul
      <4> SUFFICES ASSUME NEW j \in 0..(length - 1)
                   PROVE  key'[j] # Nul
        OBVIOUS
      <4>1. j + 1 \in 1..length /\ (j + 1) - 1 = j
        BY <1>2, Width DEF Places
      <4> QED
        BY <2>3, <4>1, Width
    <3> QED
      BY <1>1, <3>1, <3>2 DEF IsEnd
  <2>5. Terminated' /\ String' = [i \in 1..length |-> key'[i - 1]]
    BY <1>1, <1>2, <2>4, StringIsNext DEF Places
  <2>6. String' = line
    <3>1. line \in [1..length -> Printable]
      BY <1>2, LenProperties
    <3> QED
      BY <2>3, <2>5, <3>1
  <2> QED
    BY <1>1, <2>1, <2>2, <2>5, <2>6
       DEF KeyInv, Typing, Keeping, UsedKeyIsStored, SavedIsEntry, Entry
<1>4. CASE ~(length > 0)
  <2>1. UNCHANGED <<key, kpc, entered>>
    BY <1>4 DEF TakeEnter
  <2>2. Types' /\ Typing'
    BY <1>1, <2>1 DEF KeyInv, Types, Typing, Fill, Overlay
  <2> QED
    BY <1>1, <2>1, <2>2, TypingInv
<1> QED
  BY <1>3, <1>4

LEMMA PromptEndsKeeps == KeyInv /\ PromptEnds => KeyInv'
<1> SUFFICES ASSUME KeyInv, PromptEnds
             PROVE  KeyInv'
  OBVIOUS
<1>1. /\ kpc = "prompt" /\ kpc' = "check" /\ ~entered /\ stored = Absent /\ pending = Absent
      /\ UNCHANGED <<key, length, stored, pending, result, line, left, entered>>
  BY DEF KeyInv, Typing, Keeping, PromptEnds
<1>2. Types' /\ Terminated' /\ String' = String
  BY <1>1 DEF KeyInv, Types, Terminated, IsEnd, String
<1>3. String = Overlay(line, left)
  <2>1. /\ line \in Seq(Printable) /\ left \in Seq(Printable)
        /\ Len(line) <= KeyMax /\ Len(left) <= KeyMax /\ key = Fill(Overlay(line, left))
    BY <1>1, Width DEF KeyInv, Types, Typing, Places
  <2>2. Overlay(line, left) \in Seq(Printable) /\ Len(Overlay(line, left)) <= KeyMax
    BY <2>1, OverlayIs
  <2> QED
    BY <2>1, <2>2, FillString
<1>4. Entry' = Overlay(line, left)
  BY <1>1 DEF Entry, Overlay
<1> QED
  BY <1>1, <1>2, <1>3, <1>4 DEF KeyInv, Typing, Keeping, UsedKeyIsStored, SavedIsEntry

LEMMA CheckKeyKeeps == KeyInv /\ CheckKey => KeyInv'
<1> SUFFICES ASSUME KeyInv, CheckKey
             PROVE  KeyInv'
  OBVIOUS
<1>1. /\ kpc = "check" /\ stored = Absent /\ pending = Absent
      /\ UNCHANGED <<length, stored, pending, line, left, entered>> /\ Entry' = Entry
  BY DEF KeyInv, Keeping, CheckKey, Entry, Overlay
<1>2. CASE ValidBearerKey /\ kpc' = "set" /\ UNCHANGED <<key, result>>
  <2>1. Types' /\ Terminated' /\ ValidBearerKey' /\ String' = String
    BY <1>1, <1>2 DEF KeyInv, Types, Terminated, IsEnd, ValidBearerKey, String
  <2> QED
    BY <1>1, <1>2, <2>1 DEF KeyInv, Typing, Keeping, UsedKeyIsStored, SavedIsEntry
<1>3. CASE Finish("timeout", Empty)
  <2>1. Types'
    BY <1>1, <1>3, FillType DEF KeyInv, Types, Finish
  <2> QED
    BY <1>1, <1>3, <2>1, EmptyInv DEF SavedIsEntry, Finish
<1> QED
  BY <1>2, <1>3 DEF CheckKey

LEMMA SetKeyKeeps == KeyInv /\ SetKey => KeyInv'
<1> SUFFICES ASSUME KeyInv, SetKey
             PROVE  KeyInv'
  OBVIOUS
<1>1. /\ kpc = "set" /\ stored = Absent /\ pending = Absent /\ ValidBearerKey
      /\ UNCHANGED <<length, stored, line, left, entered>> /\ Entry' = Entry
  BY DEF KeyInv, Keeping, SetKey, Entry, Overlay
<1>2. CASE kpc' = "commit" /\ pending' = String /\ UNCHANGED <<key, result>>
  <2>1. String \in Texts
    BY <1>1, ValidIsText DEF KeyInv
  <2>2. Types' /\ Terminated' /\ ValidBearerKey' /\ String' = String
    BY <1>1, <1>2, <2>1 DEF KeyInv, Types, Terminated, IsEnd, ValidBearerKey, String
  <2> QED
    BY <1>1, <1>2, <2>2 DEF KeyInv, Typing, Keeping, UsedKeyIsStored, SavedIsEntry
<1>3. CASE Finish("nvs", Empty) /\ UNCHANGED pending
  <2>1. Types'
    BY <1>1, <1>3, FillType DEF KeyInv, Types, Finish
  <2> QED
    BY <1>1, <1>3, <2>1, EmptyInv DEF SavedIsEntry, Finish
<1> QED
  BY <1>2, <1>3 DEF SetKey

LEMMA CommitKeyKeeps == KeyInv /\ CommitKey => KeyInv'
<1> SUFFICES ASSUME KeyInv, CommitKey
             PROVE  KeyInv'
  OBVIOUS
<1>1. /\ kpc = "commit" /\ stored = Absent /\ ValidBearerKey
      /\ pending = String /\ String = Entry
      /\ pending' = Absent /\ UNCHANGED <<length, line, left, entered>> /\ Entry' = Entry
  BY DEF KeyInv, Keeping, CommitKey, Entry, Overlay
<1>2. CASE stored' = pending /\ Finish("ok", key)
  <2>1. Types' /\ Terminated' /\ ValidBearerKey' /\ String' = String
    BY <1>1, <1>2 DEF KeyInv, Types, Terminated, IsEnd, ValidBearerKey, String, Finish
  <2> QED
    BY <1>1, <1>2, <2>1
       DEF KeyInv, Typing, Keeping, UsedKeyIsStored, SavedIsEntry, Finish
<1>3. CASE stored' \in {stored, pending} /\ Finish("nvs", Empty)
  <2>1. Types'
    BY <1>1, <1>3, FillType DEF KeyInv, Types, Finish
  <2> QED
    BY <1>1, <1>3, <2>1, EmptyInv DEF SavedIsEntry, Finish
<1> QED
  BY <1>2, <1>3 DEF CommitKey

LEMMA PowerOffKeeps == KeyInv /\ PowerOff => KeyInv'
<1> SUFFICES ASSUME KeyInv, PowerOff
             PROVE  KeyInv'
  OBVIOUS
<1>1. /\ kpc' = "off" /\ pending' = Absent /\ key' = Empty /\ length' = 0
      /\ result' = "none" /\ UNCHANGED <<line, left, entered>> /\ Entry' = Entry
      /\ stored' \in IF pending = Absent THEN {stored} ELSE {stored, pending}
  BY DEF PowerOff, Entry, Overlay
<1>2. Types'
  BY <1>1, FillType, Width DEF KeyInv, Types, Places
<1>3. SavedIsEntry'
  BY <1>1 DEF KeyInv, Keeping, SavedIsEntry
<1> QED
  BY <1>1, <1>2, <1>3, EmptyInv

LEMMA KeyStepInv == KeyInv /\ [KeyNext]_keyVars => KeyInv'
<1> SUFFICES ASSUME KeyInv, [KeyNext]_keyVars
             PROVE  KeyInv'
  OBVIOUS
<1>1. CASE KeyNext
  BY <1>1, BootKeeps, LoadStoredKeeps, LoadFailsKeeps, PromptKeeps, TakePrintableKeeps,
     TakeOtherKeeps, TakeEnterKeeps, PromptEndsKeeps, CheckKeyKeeps, SetKeyKeeps,
     CommitKeyKeeps, PowerOffKeeps
     DEF KeyNext
<1>2. CASE UNCHANGED keyVars
  <2>1. /\ UNCHANGED <<kpc, key, length, stored, pending, result, line, left, entered>>
        /\ Entry' = Entry
    BY <1>2, EntryKept DEF keyVars
  <2>2. Terminated' /\ Types' /\ Typing'
    BY <2>1 DEF KeyInv, Types, Terminated, IsEnd, Typing, Fill, Overlay
  <2>3. Keeping' /\ UsedKeyIsStored' /\ SavedIsEntry'
    BY <2>1 DEF KeyInv, Terminated, IsEnd, Keeping, ValidBearerKey, String, UsedKeyIsStored,
                SavedIsEntry
  <2> QED
    BY <2>2, <2>3 DEF KeyInv
<1> QED
  BY <1>1, <1>2

-----------------------------------------------------------------------------
(* Position, buffer, NVS and result keep their types, for any HA_KEY_MAX.  *)
THEOREM KeyTypes == KeySpec => []KeyTypeOK
<1>1. KeyInv => KeyTypeOK
  BY DEF KeyInv, Types, Places, KeyTypeOK
<1> QED
  BY <1>1, KeyInitInv, KeyStepInv, PTL DEF KeySpec

(* The key in use is the key stored. The key stored is the line typed,     *)
(* whatever was typed before it, if Enter ended it; and if the minute did, *)
(* it is the last line over what longer ones left behind it. For any       *)
(* HA_KEY_MAX and number of bytes.                                         *)
THEOREM KeyStaysAsTyped == KeySpec => []KeyIsAsTyped
<1>1. KeyInv => KeyIsAsTyped
  BY DEF KeyInv, Typing, KeyIsAsTyped, LineInBuffer
<1> QED
  BY <1>1, KeyInitInv, KeyStepInv, PTL DEF KeySpec

-----------------------------------------------------------------------------
(* IsoTime.                                                                *)

(* Dates. The years before the March of year y, and the days of y before   *)
(* the first of month m, as Days counts them.                              *)
EraYears(era, ofEra) == era * 146097 + ofEra * 365 + ofEra \div 4 - ofEra \div 100

EraOf(y) == (IF y >= 0 THEN y ELSE y - 399) \div 400

Years(y) == EraYears(y \div 400, y - (y \div 400) * 400)

Before(m) == (153 * (m + (IF m > 2 THEN -3 ELSE 9)) + 2) \div 5

LEMMA YearLength ==
    ASSUME NEW y \in Nat \ {0}
    PROVE  Years(y) = Years(y - 1) + 365 + Leap(y)
<1> DEFINE q == y \div 400
           r == y % 400
<1>1. q \in Nat /\ r \in 0 .. 399 /\ y = 400 * q + r
    BY SMT
<1>2. /\ y % 4 = r % 4 /\ y % 100 = r % 100
    BY <1>1, SMT
<1>3. Years(y) = EraYears(q, r)
  <2>1. y - q * 400 = r
    BY <1>1, SMT
  <2> QED
    BY <2>1 DEF Years
<1>4. Leap(y) = IF r % 4 = 0 /\ (r % 100 # 0 \/ r = 0) THEN 1 ELSE 0
    BY <1>2, SMT DEF Leap, Divides
<1> HIDE DEF q, r
<1>5. CASE r = 0
  <2>1. (y - 1) \div 400 = q - 1 /\ (y - 1) - (q - 1) * 400 = 399
    BY <1>1, <1>5, SMT
  <2>2. Years(y - 1) = EraYears(q - 1, 399)
    BY <2>1 DEF Years
  <2>3. Leap(y) = 1
    BY <1>4, <1>5, SMT
  <2>4. EraYears(q, 0) = EraYears(q - 1, 399) + 366
    BY <1>1, SMT DEF EraYears
  <2>5. EraYears(q - 1, 399) \in Int
    BY <1>1, SMT DEF EraYears
  <2>6. Years(y) = Years(y - 1) + 366 /\ Years(y - 1) \in Int
    BY <1>3, <1>5, <2>2, <2>4, <2>5
  <2> QED
    BY <2>3, <2>6, SMT
<1>6. CASE r # 0
  <2>1. (y - 1) \div 400 = q /\ (y - 1) - q * 400 = r - 1
    BY <1>1, <1>6, SMT
  <2>2. Years(y - 1) = EraYears(q, r - 1)
    BY <2>1 DEF Years
  <2>3. r \div 4 = (r - 1) \div 4 + (IF r % 4 = 0 THEN 1 ELSE 0)
    BY <1>1, <1>6, SMT
  <2>4. r \div 100 = (r - 1) \div 100 + (IF r % 100 = 0 THEN 1 ELSE 0)
    BY <1>1, <1>6, SMT
  <2>5. r % 100 = 0 => r % 4 = 0
    BY <1>1, SMT
  <2>6. /\ (r - 1) \div 4 \in Int /\ (r - 1) \div 100 \in Int
        /\ r \div 4 \in Int /\ r \div 100 \in Int
    BY <1>1, SMT
  <2>7. Leap(y) = (IF r % 4 = 0 THEN 1 ELSE 0) - (IF r % 100 = 0 THEN 1 ELSE 0)
    <3>1. Leap(y) = IF r % 4 = 0 /\ r % 100 # 0 THEN 1 ELSE 0
      BY <1>4, <1>6
    <3>2. CASE r % 100 = 0
      BY <2>5, <3>1, <3>2, SMT
    <3>3. CASE r % 100 # 0
      BY <3>1, <3>3, SMT
    <3> QED
      BY <3>2, <3>3
  <2>8. Leap(y) = (r \div 4 - r \div 100) - ((r - 1) \div 4 - (r - 1) \div 100)
    BY <2>3, <2>4, <2>6, <2>7, SMT
  <2>9. EraYears(q, r) = EraYears(q, r - 1) + 365 + Leap(y)
    <3> DEFINE a == r \div 4
               b == r \div 100
               c == (r - 1) \div 4
               d == (r - 1) \div 100
    <3>1. EraYears(q, r) = q * 146097 + r * 365 + a - b
      BY DEF EraYears
    <3>2. EraYears(q, r - 1) = q * 146097 + (r - 1) * 365 + c - d
      BY DEF EraYears
    <3>3. Leap(y) = (a - b) - (c - d) /\ a \in Int /\ b \in Int /\ c \in Int /\ d \in Int
      BY <2>6, <2>8
    <3> HIDE DEF a, b, c, d
    <3> QED
      BY <1>1, <3>1, <3>2, <3>3, SMT
  <2> QED
    BY <1>3, <2>2, <2>9
<1> QED
    BY <1>5, <1>6

LEMMA Befores ==
    /\ Before(3) = 0 /\ Before(4) = 31 /\ Before(5) = 61 /\ Before(6) = 92
    /\ Before(7) = 122 /\ Before(8) = 153 /\ Before(9) = 184 /\ Before(10) = 214
    /\ Before(11) = 245 /\ Before(12) = 275 /\ Before(1) = 306 /\ Before(2) = 337
BY SMT DEF Before

LEMMA YearsInt == \A y \in Int : EraYears(y \div 400, y - (y \div 400) * 400) \in Int
BY SMT DEF EraYears

(* The days before the first of a month, and the days of a month.          *)
FirstOf(y, m) == (IF m <= 2 THEN Years(y - 1) ELSE Years(y)) + Before(m)

LengthOf(y, m) == MonthDays[m] + (IF m = 2 THEN Leap(y) ELSE 0)

LEMMA FirstInt ==
    ASSUME NEW y \in Int, NEW m \in 1 .. 12
    PROVE  FirstOf(y, m) \in Int
<1>1. Years(y) \in Int /\ Years(y - 1) \in Int
    BY YearsInt DEF Years
<1>2. Before(m) \in Int
    BY SMT DEF Before
<1> QED
    BY <1>1, <1>2 DEF FirstOf

LEMMA LengthNat ==
    ASSUME NEW y \in Int, NEW m \in 1 .. 12
    PROVE  LengthOf(y, m) \in Nat /\ LengthOf(y, m) >= 1
<1>1. Leap(y) \in {0, 1}
    BY DEF Leap
<1>2. MonthDays[m] \in Nat /\ MonthDays[m] >= 1
    BY DEF MonthDays
<1> QED
    BY <1>1, <1>2, SMT DEF LengthOf

Epoch == 719469

LEMMA DaysAre ==
    ASSUME NEW t, t.year \in Nat \ {0}, t.month \in 1 .. 12, t.day \in Nat
    PROVE  Days(t) = FirstOf(t.year, t.month) + t.day - Epoch
<1> DEFINE y == t.year - (IF t.month <= 2 THEN 1 ELSE 0)
           ofYear == Before(t.month) + t.day - 1
<1>1. y \in Nat /\ y = IF t.month <= 2 THEN t.year - 1 ELSE t.year
    BY SMT
<1>2. (IF y >= 0 THEN y ELSE y - 399) = y
    BY <1>1, SMT
<1>3. Days(t) = (EraYears(EraOf(y), y - EraOf(y) * 400) + ofYear) - 719468
    BY SMT DEF Days, EraYears, EraOf, Before
<1>4. Days(t) = (Years(y) + ofYear) - 719468
  <2>1. EraOf(y) = y \div 400
    BY <1>2 DEF EraOf
  <2> HIDE DEF y, ofYear
  <2> QED
    BY <1>3, <2>1 DEF Years
<1>5. Years(y) \in Int /\ Before(t.month) \in Int
  <2>1. Before(t.month) \in Int
    BY SMT DEF Before
  <2> HIDE DEF y
  <2> QED
    BY <1>1, <2>1, YearsInt DEF Years
<1>6. FirstOf(t.year, t.month) = Years(y) + Before(t.month)
    BY <1>1 DEF FirstOf
<1> HIDE DEF y
<1> QED
    BY <1>4, <1>5, <1>6, SMT DEF Epoch

LEMMA MonthsFollow ==
    ASSUME NEW y \in Nat \ {0}, NEW m \in 1 .. 11
    PROVE  FirstOf(y, m + 1) = FirstOf(y, m) + LengthOf(y, m)
<1>1. Years(y - 1) \in Int /\ Leap(y) \in Int /\ Years(y) = Years(y - 1) + 365 + Leap(y)
  <2>1. Years(y - 1) \in Int
    BY YearsInt, SMT DEF Years
  <2>2. Leap(y) \in Int
    BY SMT DEF Leap
  <2> QED
    BY <2>1, <2>2, YearLength
<1>2. /\ MonthDays[1] = 31 /\ MonthDays[2] = 28 /\ MonthDays[3] = 31 /\ MonthDays[4] = 30
      /\ MonthDays[5] = 31 /\ MonthDays[6] = 30 /\ MonthDays[7] = 31 /\ MonthDays[8] = 31
      /\ MonthDays[9] = 30 /\ MonthDays[10] = 31 /\ MonthDays[11] = 30 /\ MonthDays[12] = 31
    BY SMT DEF MonthDays
<1>3. m \in {1, 2, 3, 4, 5, 6, 7, 8, 9, 10, 11}
    BY SMT
<1>4. CASE m = 1
    BY <1>1, <1>2, <1>4, Befores, SMT DEF FirstOf, LengthOf
<1>5. CASE m = 2
    BY <1>1, <1>2, <1>5, Befores, SMT DEF FirstOf, LengthOf
<1>6. CASE m \in {3, 4, 5, 6, 7, 8, 9, 10, 11}
    BY <1>1, <1>2, <1>6, Befores, SMT DEF FirstOf, LengthOf
<1> QED
    BY <1>3, <1>4, <1>5, <1>6

LEMMA YearsFollow ==
    ASSUME NEW y \in Nat \ {0}
    PROVE  FirstOf(y + 1, 1) = FirstOf(y, 12) + LengthOf(y, 12)
<1>1. Years(y) \in Int /\ Years((y + 1) - 1) = Years(y)
    BY YearsInt, SMT DEF Years
<1>2. MonthDays[12] = 31
    BY SMT DEF MonthDays
<1> QED
    BY <1>1, <1>2, Befores, SMT DEF FirstOf, LengthOf

InCalendar(y, m, d) == y \in 1970 .. 9999 /\ m \in 1 .. 12 /\ d \in 1 .. LengthOf(y, m)

IsDate(t) ==
    /\ t \in [year : Nat, month : Nat, day : Nat]
    /\ InCalendar(t.year, t.month, t.day)

LEMMA LengthIs ==
    \A y, m, d : InCalendar(y, m, d) => LengthOf(y, m) \in Nat /\ LengthOf(y, m) >= 1
<1> TAKE y, m, d
<1> HAVE InCalendar(y, m, d)
<1>1. y \in 1970 .. 9999 /\ m \in 1 .. 12
    BY DEF InCalendar
<1>2. y \in Int /\ m \in 1 .. 12
    BY <1>1, SMT
<1> QED
    BY <1>2, LengthNat

LEMMA CalendarTypes ==
    \A y, m, d : InCalendar(y, m, d) =>
        /\ y \in Nat \ {0} /\ y \in Int /\ m \in 1 .. 12 /\ d \in Nat
        /\ LengthOf(y, m) \in Nat /\ LengthOf(y, m) >= 1 /\ FirstOf(y, m) \in Int
        /\ \/ d + 1 <= LengthOf(y, m) /\ InCalendar(y, m, d + 1)
           \/ d = LengthOf(y, m) /\ m \in 1 .. 11 /\ m + 1 \in 1 .. 12 /\ InCalendar(y, m + 1, 1)
           \/ /\ d = LengthOf(y, m) /\ m = 12
              /\ y + 1 \in Nat \ {0}
              /\ y + 1 <= 9999 => InCalendar(y + 1, 1, 1)
<1> TAKE y, m, d
<1> HAVE InCalendar(y, m, d)
<1>0. y \in 1970 .. 9999 /\ m \in 1 .. 12 /\ d \in 1 .. LengthOf(y, m)
    BY DEF InCalendar
<1>1. y \in Nat \ {0} /\ y \in Int /\ y + 1 \in Nat \ {0} /\ y + 1 \in Int
    BY <1>0, SMT
<1>2. LengthOf(y, m) \in Nat /\ LengthOf(y, m) >= 1 /\ FirstOf(y, m) \in Int
  <2>1. m \in 1 .. 12 /\ y \in Int
    BY <1>0, <1>1
  <2>2. LengthOf(y, m) \in Nat /\ LengthOf(y, m) >= 1
    BY <2>1, LengthNat
  <2>3. FirstOf(y, m) \in Int
    BY <2>1, FirstInt
  <2> QED
    BY <2>2, <2>3
<1>3. d \in Nat /\ (d = LengthOf(y, m) \/ (d + 1 <= LengthOf(y, m) /\ d + 1 \in 1 .. LengthOf(y, m)))
    BY <1>0, <1>2, SMT
<1>4. m = 12 \/ (m \in 1 .. 11 /\ m + 1 \in 1 .. 12)
    BY <1>0, SMT
<1>5. \A k \in 1 .. 12 : 1 \in 1 .. LengthOf(y, k) /\ 1 \in 1 .. LengthOf(y + 1, k)
  <2> TAKE k \in 1 .. 12
  <2>1. LengthOf(y, k) \in Nat /\ LengthOf(y, k) >= 1 /\ LengthOf(y + 1, k) \in Nat /\ LengthOf(y + 1, k) >= 1
    BY <1>1, LengthNat
  <2> QED
    BY <2>1, SMT
<1>6. y + 1 <= 9999 => y + 1 \in 1970 .. 9999
    BY <1>0, SMT
<1>7. 1 \in 1 .. 12
    OBVIOUS
<1> QED
    BY <1>0, <1>1, <1>2, <1>3, <1>4, <1>5, <1>6, <1>7 DEF InCalendar

LEMMA OneIn == \A y, m, d : InCalendar(y, m, d) => InCalendar(y, m, 1)
<1> TAKE y, m, d
<1> HAVE InCalendar(y, m, d)
<1>1. LengthOf(y, m) \in Nat /\ LengthOf(y, m) >= 1
    BY LengthIs
<1>2. 1 \in 1 .. LengthOf(y, m)
    BY <1>1, SMT
<1> QED
    BY <1>2 DEF InCalendar

LEMMA LegalIs ==
    \A t : InCalendar(t.year, t.month, 1) /\ t.day \in Nat \ {0} =>
              (Legal(t) <=> t.day <= LengthOf(t.year, t.month))
<1> SUFFICES ASSUME NEW t, InCalendar(t.year, t.month, 1), t.day \in Nat \ {0}
             PROVE  Legal(t) <=> t.day <= LengthOf(t.year, t.month)
    OBVIOUS
<1>1. LengthOf(t.year, t.month) \in Nat /\ LengthOf(t.year, t.month) >= 1
    BY LengthIs
<1>2. Legal(t) <=> t.day \in 1 .. LengthOf(t.year, t.month)
    BY DEF Legal, LengthOf, InCalendar
<1> DEFINE size == LengthOf(t.year, t.month)
           day == t.day
<1>3. size \in Nat /\ size >= 1 /\ day \in Nat \ {0} /\ (Legal(t) <=> day \in 1 .. size)
    BY <1>1, <1>2
<1> HIDE DEF size, day
<1>4. day \in 1 .. size <=> day <= size
    BY <1>3, SMT
<1> QED
    BY <1>3, <1>4 DEF size, day

LEMMA LastDay ==
    ASSUME NEW y \in Int, y + 1 <= LastYear
    PROVE  y + 1 <= 9999
<1>1. \A n : n \in 1970 .. 9999 => n \in Int /\ n <= 9999
    BY SMT
<1>2. LastYear \in 1970 .. 9999
    BY IsoAssumption, SMT
<1>3. LastYear \in Int /\ LastYear <= 9999
    BY <1>1, <1>2, SMT
<1> DEFINE final == LastYear
<1>4. final \in Int /\ final <= 9999 /\ y + 1 <= final
    BY <1>3
<1> HIDE DEF final
<1> QED
    BY <1>4, SMT

(* The next day is a date, and one day on.                                 *)
LEMMA TomorrowCounts ==
    ASSUME NEW t, IsDate(t), Tomorrow(t).year <= LastYear
    PROVE  IsDate(Tomorrow(t)) /\ Days(Tomorrow(t)) = Days(t) + 1
<1> DEFINE next == [t EXCEPT !.day = @ + 1]
           size == LengthOf(t.year, t.month)
<1>1. t \in [year : Nat, month : Nat, day : Nat] /\ InCalendar(t.year, t.month, t.day)
    BY DEF IsDate
<1>2. /\ t.year \in Nat \ {0} /\ t.year \in Int /\ t.month \in 1 .. 12 /\ t.day \in Nat
      /\ size \in Nat /\ size >= 1 /\ FirstOf(t.year, t.month) \in Int
      /\ \/ t.day + 1 <= size /\ InCalendar(t.year, t.month, t.day + 1)
         \/ /\ t.day = size /\ t.month \in 1 .. 11 /\ t.month + 1 \in 1 .. 12
            /\ InCalendar(t.year, t.month + 1, 1)
         \/ /\ t.day = size /\ t.month = 12
            /\ t.year + 1 \in Nat \ {0}
            /\ t.year + 1 <= 9999 => InCalendar(t.year + 1, 1, 1)
    BY <1>1, CalendarTypes
<1>3. /\ next \in [year : Nat, month : Nat, day : Nat]
      /\ next.year = t.year /\ next.month = t.month /\ next.day = t.day + 1
    BY <1>1
<1>5. Legal(next) <=> t.day + 1 <= size
  <2>1. next.day \in Nat \ {0}
    BY <1>2, <1>3, SMT
  <2>2. InCalendar(next.year, next.month, 1)
    BY <1>1, <1>3, OneIn
  <2> QED
    BY <1>3, <2>1, <2>2, LegalIs
<1>6. Days(t) = FirstOf(t.year, t.month) + t.day - Epoch
    BY <1>2, DaysAre
<1> HIDE DEF next, size
<1>7. CASE t.day + 1 <= size /\ InCalendar(t.year, t.month, t.day + 1)
  <2>1. Tomorrow(t) = next
    BY <1>5, <1>7 DEF Tomorrow, next
  <2>2. IsDate(next)
    BY <1>3, <1>7 DEF IsDate
  <2>3. Days(next) = FirstOf(t.year, t.month) + (t.day + 1) - Epoch
    BY <1>2, <1>3, DaysAre
  <2>4. Days(next) = Days(t) + 1
    BY <1>2, <1>6, <2>3, SMT DEF Epoch
  <2> QED
    BY <2>1, <2>2, <2>4
<1>8. CASE /\ t.day = size /\ t.month \in 1 .. 11 /\ t.month + 1 \in 1 .. 12
           /\ InCalendar(t.year, t.month + 1, 1)
  <2> DEFINE first == Date(t.year, t.month + 1, 1)
  <2>1. Tomorrow(t) = first
    <3>1. ~Legal(next) /\ t.month < 12
      BY <1>2, <1>5, <1>8, SMT
    <3> QED
      BY <3>1 DEF Tomorrow, next
  <2>2. /\ first \in [year : Nat, month : Nat, day : Nat]
        /\ first.year = t.year /\ first.month = t.month + 1 /\ first.day = 1
    BY <1>1 DEF Date
  <2> HIDE DEF first
  <2>3. IsDate(first)
    BY <1>8, <2>2 DEF IsDate
  <2>4. Days(first) = FirstOf(t.year, t.month + 1) + 1 - Epoch
    BY <1>2, <1>8, <2>2, DaysAre
  <2>5. FirstOf(t.year, t.month + 1) = FirstOf(t.year, t.month) + size
    BY <1>2, <1>8, MonthsFollow DEF size
  <2>6. Days(first) = Days(t) + 1
    BY <1>2, <1>6, <1>8, <2>4, <2>5, SMT DEF Epoch
  <2> QED
    BY <2>1, <2>3, <2>6
<1>9. CASE /\ t.day = size /\ t.month = 12
           /\ t.year + 1 \in Nat \ {0}
           /\ t.year + 1 <= 9999 => InCalendar(t.year + 1, 1, 1)
  <2> DEFINE first == Date(t.year + 1, 1, 1)
  <2>1. Tomorrow(t) = first
    <3>1. ~Legal(next) /\ t.month = 12 /\ ~(t.month < 12)
      BY <1>2, <1>5, <1>9, SMT
    <3> QED
      BY <3>1 DEF Tomorrow, next
  <2>2. /\ first \in [year : Nat, month : Nat, day : Nat]
        /\ first.year = t.year + 1 /\ first.month = 1 /\ first.day = 1
    BY <1>1 DEF Date
  <2> HIDE DEF first
  <2>3. InCalendar(first.year, first.month, first.day)
    <3>1. t.year \in Int /\ t.year + 1 <= LastYear
      BY <1>2, <2>1, <2>2
    <3>2. t.year + 1 <= 9999
      BY <3>1, LastDay
    <3> QED
      BY <1>9, <2>2, <3>2
  <2>4. Days(first) = FirstOf(t.year + 1, 1) + 1 - Epoch
    <3>1. first.month \in 1 .. 12 /\ first.day \in Nat
      BY <2>2
    <3> QED
      BY <1>9, <2>2, <3>1, DaysAre
  <2>5. FirstOf(t.year + 1, 1) = FirstOf(t.year, t.month) + size
    BY <1>2, <1>9, YearsFollow DEF size
  <2>6. Days(first) = Days(t) + 1
    BY <1>2, <1>6, <1>9, <2>4, <2>5, SMT DEF Epoch
  <2> QED
    BY <2>1, <2>2, <2>3, <2>6 DEF IsDate
<1> QED
    BY <1>2, <1>7, <1>8, <1>9

IsoInv == IsDate(date) /\ elapsed \in Int /\ Days(date) = elapsed

LEMMA FirstDay == IsDate(Date(1970, 1, 1)) /\ Days(Date(1970, 1, 1)) = 0
<1> DEFINE first == Date(1970, 1, 1)
<1>1. /\ first \in [year : Nat, month : Nat, day : Nat]
      /\ first.year = 1970 /\ first.month = 1 /\ first.day = 1
    BY SMT DEF Date
<1> HIDE DEF first
<1>2. LengthOf(1970, 1) = 31
    BY SMT DEF LengthOf, MonthDays
<1>3. FirstOf(1970, 1) = 719468
  <2>1. 1969 \div 400 = 4 /\ 1969 - 4 * 400 = 369 /\ 1970 - 1 = 1969
    BY SMT
  <2>2. EraYears(4, 369) = 719162
    BY SMT DEF EraYears
  <2> QED
    BY <2>1, <2>2, Befores, SMT DEF FirstOf, Years
<1>4. Days(first) = FirstOf(1970, 1) + 1 - Epoch
  <2>1. first.year \in Nat \ {0} /\ first.month \in 1 .. 12 /\ first.day \in Nat
    BY <1>1, SMT
  <2> QED
    BY <1>1, <2>1, DaysAre, SMT
<1>5. Days(first) = 0
    BY <1>3, <1>4, SMT DEF Epoch
<1>6. IsDate(first)
    BY <1>1, <1>2, SMT DEF IsDate, InCalendar
<1> QED
    BY <1>5, <1>6 DEF first

LEMMA OffsetsProved ==
    ASSUME elapsed \in Int
    PROVE  OffsetsAgree
<1> DEFINE Local(offset, hour) == hour + offset
           There(offset, hour) ==
              CASE Local(offset, hour) < 0 -> [day |-> elapsed - 1, hour |-> Local(offset, hour) + 24]
                [] Local(offset, hour) > 23 -> [day |-> elapsed + 1, hour |-> Local(offset, hour) - 24]
                [] OTHER -> [day |-> elapsed, hour |-> Local(offset, hour)]
<1> SUFFICES ASSUME NEW offset \in Offsets, NEW hour \in {0, 12, 23}
             PROVE  Instant(There(offset, hour).day, There(offset, hour).hour, offset)
                    = Instant(elapsed, hour, 0)
    BY DEF OffsetsAgree
<1> DEFINE local == Local(offset, hour)
           there == There(offset, hour)
<1>1. offset \in Int /\ hour \in Int /\ local = hour + offset /\ local \in Int
  <2>1. offset \in -23 .. 23
    BY IsoAssumption
  <2> QED
    BY <2>1, SMT
<1>2. /\ local < 0 /\ ~(local > 23) => there = [day |-> elapsed - 1, hour |-> local + 24]
      /\ local > 23 /\ ~(local < 0) => there = [day |-> elapsed + 1, hour |-> local - 24]
      /\ ~(local < 0) /\ ~(local > 23) => there = [day |-> elapsed, hour |-> local]
    BY Zenon
<1> HIDE DEF local, there, Local, There
<1>3. Instant(elapsed, hour, 0) = <<elapsed, hour * 3600>>
    BY <1>1, SMT DEF Instant
<1>4. CASE local < 0
  <2>1. there.day = elapsed - 1 /\ there.hour = local + 24
    BY <1>1, <1>2, <1>4, SMT
  <2>2. Instant(elapsed - 1, local + 24, offset) = <<elapsed, hour * 3600>>
    <3>1. ((local + 24) - offset) * 3600 = hour * 3600 + 86400
      BY <1>1, SMT
    <3>2. (hour * 3600 + 86400) \div 86400 = 1 /\ (hour * 3600 + 86400) % 86400 = hour * 3600
      BY SMT
    <3> QED
      BY <3>1, <3>2, SMT DEF Instant
  <2> QED
    BY <1>3, <2>1, <2>2 DEF there
<1>5. CASE local > 23
  <2>1. there.day = elapsed + 1 /\ there.hour = local - 24
    BY <1>1, <1>2, <1>5, SMT
  <2>2. Instant(elapsed + 1, local - 24, offset) = <<elapsed, hour * 3600>>
    <3>1. ((local - 24) - offset) * 3600 = hour * 3600 - 86400
      BY <1>1, SMT
    <3>2. (hour * 3600 - 86400) \div 86400 = -1 /\ (hour * 3600 - 86400) % 86400 = hour * 3600
      BY SMT
    <3> QED
      BY <3>1, <3>2, SMT DEF Instant
  <2> QED
    BY <1>3, <2>1, <2>2 DEF there
<1>6. CASE ~(local < 0) /\ ~(local > 23)
  <2>1. there.day = elapsed /\ there.hour = local
    BY <1>1, <1>2, <1>6, SMT
  <2>2. Instant(elapsed, local, offset) = <<elapsed, hour * 3600>>
    <3>1. (local - offset) * 3600 = hour * 3600
      BY <1>1, SMT
    <3>2. (hour * 3600) \div 86400 = 0 /\ (hour * 3600) % 86400 = hour * 3600
      BY SMT
    <3> QED
      BY <3>1, <3>2, SMT DEF Instant
  <2> QED
    BY <1>3, <2>1, <2>2 DEF there
<1> QED
    BY <1>4, <1>5, <1>6

(* A date and time of a manifest means what the calendar says, whichever   *)
(* year the walk goes to and at every offset (parse_iso8601).              *)
THEOREM DatesCounted == IsoSpec => []DatesAgree
<1>1. IsoInit => IsoInv
    BY FirstDay DEF IsoInit, IsoInv
<1>2. IsoInv /\ [IsoNext]_isoVars => IsoInv'
  <2> SUFFICES ASSUME IsoInv, [IsoNext]_isoVars
               PROVE  IsoInv'
    OBVIOUS
  <2>1. CASE NextDay
    <3>1. IsDate(Tomorrow(date)) /\ Days(Tomorrow(date)) = Days(date) + 1
      BY <2>1, TomorrowCounts DEF NextDay, IsoInv
    <3> QED
      BY <2>1, <3>1, SMT DEF NextDay, IsoInv
  <2>2. CASE WalkAgain
    BY <2>2, FirstDay DEF WalkAgain, IsoInv
  <2>3. CASE UNCHANGED isoVars
    BY <2>3 DEF isoVars, IsoInv
  <2> QED
    BY <2>1, <2>2, <2>3 DEF IsoNext
<1>3. IsoInv => DatesAgree
    BY OffsetsProved DEF IsoInv, IsDate, InCalendar, LengthOf, DatesAgree, DaysAreCounted, Legal
<1> QED
    BY <1>1, <1>2, <1>3, PTL DEF IsoSpec
=============================================================================
