------------------------------- MODULE Framing -------------------------------
(***************************************************************************)
(* src/framing.py and the loop of src/connection.py: one connection's byte *)
(* stream, cut into frames and answered frame by frame.                    *)
(*                                                                         *)
(* TCP delivers the stream in pieces of any size.  The client may pause    *)
(* between any two bytes; after 30 seconds without one the read times out, *)
(* and what _recv_exactly had read of the frame is forgotten.  The client  *)
(* may also leave what it is sent unread, so that the sending of an answer *)
(* times out, and the connection may break.                                *)
(*                                                                         *)
(* All frames have the same size here, a header of HeaderSize units and a  *)
(* payload of PayloadSize.  A header read anywhere but at a frame's first  *)
(* unit is made of other bytes: any length may come out (up to FrameSize,  *)
(* in place of MAX_FRAME).  The stop flag of the server is in Lifecycle.   *)
(***************************************************************************)
EXTENDS Naturals, Sequences

CONSTANTS
  HeaderSize,   \* units of a header (4 bytes)
  PayloadSize,  \* units of a payload
  MaxFrames     \* bound: frames of the client

ASSUME FramingAssumption ==
  /\ HeaderSize \in Nat \ {0}
  /\ PayloadSize \in Nat \ {0}
  /\ MaxFrames \in Nat

FrameSize == HeaderSize + PayloadSize

(* What a frame holds: a request whose handler returns, refuses or raises, *)
(* one whose answer makes no frame (a result beyond MAX_FRAME, or a lone   *)
(* surrogate in the request's own req_id or type, which has no UTF-8), JSON *)
(* that is no request, the JSON text null, bytes that are no JSON, JSON    *)
(* the parser gives up on (an integer or a nesting beyond its limits), or  *)
(* a length beyond MAX_FRAME.                                              *)
Kinds ==
  {"request", "refused", "raises", "unframed_answer", "bad_version", "unknown_type",
   "null", "not_json", "beyond_parser", "too_large"}

VARIABLES
  script,   \* the frames the client sends
  sent,     \* the units that have arrived
  ended,    \* has the client closed its end?
  peer,     \* "reading" what it is sent so far, "stalled" once it has left
            \* it unread for as long as a send waits, or "broken"
  pos,      \* the units recv has returned
  part,     \* what the server reads: a "header" or a "payload"
  need,     \* the units missing to it (remaining)
  aligned,  \* did the header begin at the first unit of a frame?
  status,   \* "open" or "closed"
  replies,  \* the answers the loop has sent, or tried to
  lost,     \* ghost: the answers among them that did not get out in whole
  cut       \* ghost: has a timeout dropped units of a frame?

client == <<script, sent, ended, peer>>
reader == <<pos, part, need, aligned>>
answers == <<replies, lost>>
vars == <<client, reader, status, answers, cut>>

(* The answer to a frame. *)
Answer(kind) ==
  CASE kind = "request" -> "ok"
    [] kind = "refused" -> "error"
    [] kind = "raises" -> "INTERNAL_ERROR"
    [] kind = "bad_version" -> "PROTOCOL_VERSION_MISMATCH"
    [] kind = "unknown_type" -> "UNKNOWN_TYPE"
    [] kind = "not_json" -> "INVALID_JSON"
    [] kind = "too_large" -> "PAYLOAD_TOO_LARGE"
    [] kind \in {"unframed_answer", "null", "beyond_parser"} -> "none"

EndsLoopMutant(kind) == kind \in {"too_large", "unframed_answer", "null", "beyond_parser", "not_json"}

(* After a frame too large, the rest of the stream is not understood.      *)
(* FrameTooLarge and UnicodeEncodeError raised for an answer are not       *)
(* caught, nor are the parser's RecursionError and plain ValueError.  null *)
(* is parsed to None, which the loop takes for the end of the stream.      *)
EndsLoop(kind) == kind \in {"too_large", "unframed_answer", "null", "beyond_parser"}

(* The client's frame that holds the unit before position p. *)
FrameAt(p) == script[((p - 1) \div FrameSize) + 1]

TypeOK ==
  /\ script \in Seq(Kinds) /\ Len(script) <= MaxFrames
  /\ sent \in 0..(Len(script) * FrameSize)
  /\ ended \in BOOLEAN
  /\ peer \in {"reading", "stalled", "broken"}
  /\ pos \in 0..sent
  /\ part \in {"header", "payload"}
  /\ need \in Nat
  /\ aligned \in BOOLEAN
  /\ status \in {"open", "closed"}
  /\ replies \in Seq({Answer(k) : k \in Kinds})
  /\ lost \subseteq DOMAIN replies
  /\ cut \in BOOLEAN

Init ==
  /\ \E n \in 0..MaxFrames : script \in [1..n -> Kinds]
  /\ sent = 0
  /\ ended = FALSE
  /\ peer = "reading"
  /\ pos = 0
  /\ part = "header"
  /\ need = HeaderSize
  /\ aligned = TRUE
  /\ status = "open"
  /\ replies = <<>>
  /\ lost = {}
  /\ cut = FALSE
-----------------------------------------------------------------------------
(* The client writes some units, or closes, perhaps in the middle of a     *)
(* frame.                                                                  *)
ClientWrites ==
  /\ ~ended
  /\ \E n \in (sent + 1)..(Len(script) * FrameSize) : sent' = n
  /\ UNCHANGED <<script, ended, peer, reader, status, answers, cut>>

ClientEnds ==
  /\ ~ended
  /\ ended' = TRUE
  /\ UNCHANGED <<script, sent, peer, reader, status, answers, cut>>

(* It leaves what it is sent unread, so that a send of the server may wait *)
(* until it times out; or the connection is reset, or fails.               *)
ClientStalls ==
  /\ peer = "reading"
  /\ peer' = "stalled"
  /\ UNCHANGED <<script, sent, ended, reader, status, answers, cut>>

ConnectionBreaks ==
  /\ peer # "broken"
  /\ peer' = "broken"
  /\ UNCHANGED <<script, sent, ended, reader, status, answers, cut>>
-----------------------------------------------------------------------------
MissingMutant(n) == 0
MissingUnchanged(n) == need
Missing(n) == need - n

(* One recv of the loop of _recv_exactly. *)
Recv ==
  /\ status = "open"
  /\ need > 0
  /\ \E n \in 1..need :
       /\ pos + n <= sent
       /\ pos' = pos + n
       /\ need' = Missing(n)
  /\ UNCHANGED <<client, part, aligned, status, answers, cut>>

(* The next turn of the loop reads a header. *)
NextFrame ==
  /\ part' = "header"
  /\ need' = HeaderSize
  /\ aligned' = (pos % FrameSize = 0)

(* send returns, or there is nothing to send;                              *)
Sent(kind) ==
  /\ status' = IF EndsLoop(kind) THEN "closed" ELSE "open"
  /\ lost' = lost

(* or sendall raises an OSError, socket.timeout among them, with none or a *)
(* part of the answer out: the loop ends.  _safe_send drops the error, and *)
(* after bytes that are no JSON the loop goes on.                          *)
SendFails(kind) ==
  /\ Answer(kind) # "none"
  /\ ended \/ peer # "reading"
  /\ lost' = lost \cup {Len(replies) + 1}
  /\ status' = IF kind = "not_json" THEN "open" ELSE "closed"

ReplyTo(kind) ==
  /\ replies' = IF Answer(kind) = "none" THEN replies ELSE Append(replies, Answer(kind))
  /\ Sent(kind) \/ SendFails(kind)
  /\ NextFrame

(* The header is complete and unpacked. *)
HeaderRead ==
  /\ status = "open"
  /\ part = "header"
  /\ need = 0
  /\ aligned => FrameAt(pos) # "too_large"
  /\ \E length \in IF aligned THEN {PayloadSize} ELSE 0..FrameSize :
       /\ part' = "payload"
       /\ need' = length
  /\ UNCHANGED <<client, pos, aligned, status, answers, cut>>

(* Its length is beyond MAX_FRAME. *)
HeaderTooLarge ==
  /\ status = "open"
  /\ part = "header"
  /\ need = 0
  /\ aligned => FrameAt(pos) = "too_large"
  /\ ReplyTo("too_large")
  /\ UNCHANGED <<client, pos, cut>>

Misread == {"not_json", "bad_version", "unframed_answer", "null", "beyond_parser"}

(* The payload is complete: it is parsed, processed and answered.  Bytes   *)
(* from the middle of frames are no JSON, or any JSON but a message of the *)
(* right version.                                                          *)
PayloadRead ==
  /\ status = "open"
  /\ part = "payload"
  /\ need = 0
  /\ \E kind \in IF aligned THEN {FrameAt(pos)} ELSE Misread : ReplyTo(kind)
  /\ UNCHANGED <<client, pos, cut>>

(* recv raises socket.timeout: the units read so far of a header or of a   *)
(* payload are lost, and the loop goes on.                                 *)
ReadTimesOut ==
  /\ status = "open"
  /\ need > 0
  /\ pos = sent
  /\ ~ended
  /\ cut' = (cut \/ part = "payload" \/ need < HeaderSize)
  /\ NextFrame
  /\ UNCHANGED <<client, pos, status, answers>>

(* recv returns no bytes: the connection is closed without an answer.      *)
EndOfStream ==
  /\ status = "open"
  /\ need > 0
  /\ pos = sent
  /\ ended
  /\ status' = "closed"
  /\ UNCHANGED <<client, reader, answers, cut>>

(* recv raises another OSError. *)
ReadFails ==
  /\ status = "open"
  /\ need > 0
  /\ peer = "broken"
  /\ status' = "closed"
  /\ UNCHANGED <<client, reader, answers, cut>>

Server ==
  \/ Recv \/ HeaderRead \/ HeaderTooLarge \/ PayloadRead
  \/ ReadTimesOut \/ EndOfStream \/ ReadFails

Next == ClientWrites \/ ClientEnds \/ ClientStalls \/ ConnectionBreaks \/ Server

Spec == Init /\ [][Next]_vars

(* The connection's thread is scheduled; no send waits longer than 30 s.   *)
FairSpec == Spec /\ WF_vars(Server)
-----------------------------------------------------------------------------
(* Properties.                                                             *)

(* The answers due for a script, the one after which the loop ends last.   *)
Expected(k) == Answer(script[k])

Aligned == \A k \in DOMAIN replies : k \in DOMAIN script /\ replies[k] = Expected(k)

(* However the stream is cut into pieces, every frame gets the answer it   *)
(* deserves, in the order of the frames, as long as no timeout has fallen  *)
(* into the middle of one.  (Whether an answer gets out is the matter of   *)
(* HangsUpWithCause.)                                                      *)
AnsweredInOrder == ~cut => Aligned

(* The server hangs up on a client that is still there only at a frame it  *)
(* cannot read or answer, after the answers to all frames before that one, *)
(* or over an answer the client did not read in time: no other error in a  *)
(* frame costs the connection.                                             *)
BadFrame ==
  \E k \in DOMAIN script :
    /\ script[k] \in {"too_large", "unframed_answer", "null", "beyond_parser"}
    /\ Len(replies) = IF script[k] = "too_large" THEN k ELSE k - 1

UnreadAnswer == peer = "stalled" /\ Len(replies) \in lost

(* And no answer to a request is lost with the connection left open: one   *)
(* that did not get out is the last, but for those to bytes that are no    *)
(* JSON, whose loss _safe_send does not report.                            *)
LossEndsLoop ==
  \A k \in lost : replies[k] = "INVALID_JSON" \/ (status = "closed" /\ k = Len(replies))

HangsUpWithCause ==
  /\ status = "closed" /\ ~ended /\ peer # "broken" /\ ~cut => BadFrame \/ UnreadAnswer
  /\ LossEndsLoop

(* Where the reader of an undisturbed stream is: in the frame after those  *)
(* it has answered, and past its header only if the frame can be read.     *)
InPlace ==
  LET answered == Len(replies)
  IN /\ aligned
     /\ part = "header" => /\ need \in 0..HeaderSize
                           /\ pos = answered * FrameSize + (HeaderSize - need)
     /\ part = "payload" => /\ need \in 0..PayloadSize
                            /\ pos = answered * FrameSize + (FrameSize - need)
                            /\ script[answered + 1] # "too_large"

(* What has been read of the stream includes what was read of this header, *)
(* or a header.                                                            *)
Read ==
  /\ part = "header" => need <= HeaderSize /\ pos >= HeaderSize - need
  /\ part = "payload" => pos >= 1

(* The inductive invariant. *)
IInv ==
  /\ TypeOK
  /\ Read
  /\ AnsweredInOrder
  /\ HangsUpWithCause
  /\ status = "open" /\ ~cut => InPlace

(* A frame that has arrived in full is answered, unless the connection is  *)
(* closed, for that frame or an earlier one.                               *)
AllAnswered ==
  \A k \in 1..MaxFrames :
    (sent >= k * FrameSize) ~> (Len(replies) >= k \/ status = "closed" \/ cut)

(* connection.py:22, a timeout only wakes the loop up, which goes on: a    *)
(* client that pauses is answered like one that does not.                  *)
PauseIsHarmless == Aligned
=============================================================================
