---------------------------- MODULE FramingProofs ----------------------------
(* Proofs about Framing, for frames of any size and scripts of any length. *)
EXTENDS Framing, Integers, TLAPS

(* Where a position lies is the frame's number and the offset in it.       *)
LEMMA Order ==
  ASSUME NEW F \in Nat \ {0}, NEW a \in Int, NEW b \in Int, a + 1 <= b
  PROVE  a * F + F <= b * F
<1>1. (b - a) * F >= F
  BY SMT
<1>2. (b - a) * F = b * F - a * F
  BY SMT
<1>3. a * F \in Int /\ b * F \in Int
  BY SMT
<1> QED
  BY <1>1, <1>2, <1>3

LEMMA Division ==
  ASSUME NEW F \in Nat \ {0}, NEW m \in Nat, NEW r \in 0..(F - 1)
  PROVE  (m * F + r) \div F = m /\ (m * F + r) % F = r
<1> DEFINE x == m * F + r
           q == x \div F
<1>1. m * F \in Nat /\ x \in Nat
  BY SMT
<1>2. q \in Int /\ q * F \in Int /\ x = q * F + (x % F) /\ x % F \in 0..(F - 1)
  BY <1>1, SMT
<1>3. ~(q + 1 <= m)
  <2> SUFFICES ASSUME q + 1 <= m PROVE FALSE
    OBVIOUS
  <2>1. q * F + F <= m * F
    BY <1>2, Order
  <2> QED
    BY <1>1, <1>2, <2>1
<1>4. ~(m + 1 <= q)
  <2> SUFFICES ASSUME m + 1 <= q PROVE FALSE
    OBVIOUS
  <2>1. m * F + F <= q * F
    BY <1>2, Order
  <2> QED
    BY <1>1, <1>2, <2>1
<1>5. q = m
  BY <1>2, <1>3, <1>4
<1> QED
  BY <1>1, <1>2, <1>5

(* Two frames' numbers compare as their positions do.                      *)
LEMMA SmallerNumber ==
  ASSUME NEW F \in Nat \ {0}, NEW a \in Nat, NEW b \in Nat, a * F < b * F
  PROVE  a < b
<1>1. a * F \in Int /\ b * F \in Int
  BY SMT
<1>2. ~(b + 1 <= a)
  <2>1. b + 1 <= a => b * F + F <= a * F
    BY Order
  <2> QED
    BY <1>1, <2>1
<1>3. a # b
  BY <1>1
<1> QED
  BY <1>2, <1>3
-----------------------------------------------------------------------------
LEMMA AnswersTyped == \A k \in Kinds : Answer(k) \in {Answer(j) : j \in Kinds}
  OBVIOUS

LEMMA NextReplyTyped ==
  ASSUME TypeOK, NEW kind \in Kinds, ReplyTo(kind)
  PROVE  /\ replies' \in Seq({Answer(k) : k \in Kinds})
         /\ status' \in {"open", "closed"}
         /\ part' = "header" /\ need' = HeaderSize /\ aligned' \in BOOLEAN
<1>1. aligned' \in BOOLEAN
  BY DEF ReplyTo, NextFrame
<1>2. replies' \in Seq({Answer(k) : k \in Kinds})
  <2> DEFINE A == {Answer(k) : k \in Kinds}
  <2>1. Answer(kind) \in A /\ replies \in Seq(A)
    BY DEF TypeOK
  <2> HIDE DEF A
  <2>2. Append(replies, Answer(kind)) \in Seq(A)
    BY <2>1
  <2>3. replies' \in Seq(A)
    BY <2>1, <2>2 DEF ReplyTo
  <2> QED
    BY <2>3 DEF A
<1> QED
  BY <1>1, <1>2 DEF ReplyTo, NextFrame, Sent, SendFails

(* An answer that does not get out ends the loop, or is to bytes that are  *)
(* no JSON.                                                                *)
LEMMA LossKeeps ==
  ASSUME TypeOK, LossEndsLoop, status = "open", NEW kind \in Kinds, ReplyTo(kind)
  PROVE  lost' \subseteq DOMAIN replies' /\ LossEndsLoop'
<1> DEFINE m == Len(replies)
<1>1. m \in Nat /\ DOMAIN replies = 1..m /\ \A k \in lost : k \in 1..m /\ replies[k] = "INVALID_JSON"
  BY DEF TypeOK, LossEndsLoop
<1>2. CASE Answer(kind) = "none"
  <2>1. replies' = replies /\ lost' = lost
    BY <1>2 DEF ReplyTo, Sent, SendFails
  <2> QED
    BY <1>1, <2>1 DEF LossEndsLoop
<1>3. CASE Answer(kind) # "none"
  <2>1. Len(replies') = m + 1 /\ DOMAIN replies' = 1..(m + 1) /\ replies'[m + 1] = Answer(kind)
        /\ \A k \in 1..m : replies'[k] = replies[k]
    BY <1>1, <1>3 DEF TypeOK, ReplyTo
  <2>2. CASE Sent(kind)
    BY <1>1, <2>1, <2>2 DEF Sent, LossEndsLoop
  <2>3. CASE SendFails(kind)
    <3>1. lost' = lost \cup {m + 1} /\ (kind = "not_json" \/ status' = "closed")
      BY <2>3 DEF SendFails
    <3>2. kind = "not_json" => Answer(kind) = "INVALID_JSON"
      BY DEF Answer
    <3> QED
      BY <1>1, <2>1, <3>1, <3>2 DEF LossEndsLoop
  <2> QED
    BY <2>2, <2>3 DEF ReplyTo
<1> QED
  BY <1>2, <1>3

(* The frame that holds a position inside the script is one of it.         *)
LEMMA FrameKnown ==
  ASSUME TypeOK, NEW m \in Nat, NEW r \in 1..FrameSize, pos = m * FrameSize + r
  PROVE  m + 1 \in DOMAIN script /\ FrameAt(pos) = script[m + 1] /\ FrameAt(pos) \in Kinds
<1>1. FrameSize \in Nat \ {0}
  BY FramingAssumption DEF FrameSize
<1>2. pos \in Nat /\ pos <= Len(script) * FrameSize /\ Len(script) \in Nat
  BY <1>1, SMT DEF TypeOK
<1>3. m * FrameSize \in Nat /\ Len(script) * FrameSize \in Nat
  BY <1>1, <1>2, SMT
<1>4. m * FrameSize < Len(script) * FrameSize
  BY <1>1, <1>2, <1>3
<1>5. m < Len(script)
  BY <1>1, <1>2, <1>4, SmallerNumber
<1>6. m + 1 \in DOMAIN script /\ script[m + 1] \in Kinds
  BY <1>2, <1>5 DEF TypeOK
<1>7. r - 1 \in 0..(FrameSize - 1) /\ pos - 1 = m * FrameSize + (r - 1)
  BY <1>1, <1>3
<1>8. (pos - 1) \div FrameSize = m
  BY <1>1, <1>7, Division
<1> QED
  BY <1>6, <1>8 DEF FrameAt

LEMMA FrameEnds ==
  ASSUME NEW m \in Nat
  PROVE  (m * FrameSize) % FrameSize = 0 /\ m * FrameSize + FrameSize = (m + 1) * FrameSize
         /\ ((m + 1) * FrameSize) % FrameSize = 0 /\ m * FrameSize \in Nat
<1>1. FrameSize \in Nat \ {0}
  BY FramingAssumption DEF FrameSize
<1>2. 0 \in 0..(FrameSize - 1) /\ m * FrameSize + 0 = m * FrameSize
      /\ (m + 1) * FrameSize + 0 = (m + 1) * FrameSize /\ m + 1 \in Nat
  BY <1>1, SMT
<1>3. (m * FrameSize + 0) % FrameSize = 0 /\ ((m + 1) * FrameSize + 0) % FrameSize = 0
  BY <1>1, <1>2, Division
<1>4. m * FrameSize + FrameSize = (m + 1) * FrameSize /\ m * FrameSize \in Nat
  BY <1>1, SMT
<1> QED
  BY <1>2, <1>3, <1>4

LEMMA FrameTyped ==
  ASSUME TypeOK, pos >= 1
  PROVE  FrameAt(pos) \in Kinds
<1> DEFINE q == (pos - 1) \div FrameSize
<1>1. FrameSize \in Nat \ {0} /\ pos \in Nat
  BY FramingAssumption, SMT DEF FrameSize, TypeOK
<1>2. q \in Nat /\ q * FrameSize \in Nat /\ pos - 1 = q * FrameSize + ((pos - 1) % FrameSize)
      /\ (pos - 1) % FrameSize \in 0..(FrameSize - 1)
  BY <1>1, SMT
<1>3. pos = q * FrameSize + (((pos - 1) % FrameSize) + 1) /\ ((pos - 1) % FrameSize) + 1 \in 1..FrameSize
  BY <1>1, <1>2
<1> HIDE DEF q
<1> QED
  BY <1>2, <1>3, FrameKnown
-----------------------------------------------------------------------------
LEMMA InitIInv == ASSUME Init PROVE IInv
<1>1. script \in Seq(Kinds) /\ Len(script) <= MaxFrames /\ Len(script) \in Nat
  BY FramingAssumption DEF Init
<1>2. FrameSize \in Nat /\ Len(script) * FrameSize \in Nat
  BY <1>1, FramingAssumption, SMT DEF FrameSize
<1>3. TypeOK
  <2>1. sent \in 0..(Len(script) * FrameSize) /\ pos \in 0..sent
    BY <1>2 DEF Init
  <2>2. \A A : <<>> \in Seq(A)
    OBVIOUS
  <2>3. replies \in Seq({Answer(k) : k \in Kinds})
    BY <2>2 DEF Init
  <2> QED
    BY <1>1, <2>1, <2>3, FramingAssumption DEF Init, TypeOK
<1>4. Read /\ AnsweredInOrder /\ HangsUpWithCause
  BY FramingAssumption DEF Init, Read, AnsweredInOrder, Aligned, HangsUpWithCause, LossEndsLoop
<1>5. InPlace
  <2>1. Len(replies) = 0 /\ 0 * FrameSize = 0
    BY <1>2 DEF Init
  <2> QED
    BY <2>1, FramingAssumption DEF Init, InPlace
<1> QED
  BY <1>3, <1>4, <1>5 DEF IInv

LEMMA ClientKeeps ==
  ASSUME IInv, ClientWrites \/ ClientEnds \/ ClientStalls \/ ConnectionBreaks
  PROVE  IInv'
<1> USE DEF IInv
<1>1. UNCHANGED <<script, reader, status, replies, lost, cut>>
  BY DEF ClientWrites, ClientEnds, ClientStalls, ConnectionBreaks, answers
<1>2. TypeOK'
  <2>1. CASE ClientWrites
    <3>1. Len(script) * FrameSize \in Nat
      BY FramingAssumption, SMT DEF FrameSize, TypeOK
    <3> QED
      BY <2>1, <3>1 DEF ClientWrites, TypeOK, reader, answers
  <2>2. CASE ClientEnds \/ ClientStalls \/ ConnectionBreaks
    BY <2>2 DEF ClientEnds, ClientStalls, ConnectionBreaks, TypeOK, reader, answers
  <2> QED
    BY <2>1, <2>2
<1>3. HangsUpWithCause'
  BY <1>1 DEF HangsUpWithCause, BadFrame, UnreadAnswer, LossEndsLoop, ClientWrites, ClientEnds,
              ClientStalls, ConnectionBreaks
<1>4. AnsweredInOrder' /\ Read'
  BY <1>1 DEF reader, Read, AnsweredInOrder, Aligned, Expected
<1>5. status' = "open" /\ ~cut' => InPlace'
  BY <1>1 DEF reader, InPlace
<1> QED
  BY <1>2, <1>3, <1>4, <1>5

LEMMA RecvKeeps == ASSUME IInv, Recv PROVE IInv'
<1> USE DEF IInv
<1>1. PICK n \in 1..need : pos + n <= sent /\ pos' = pos + n /\ need' = need - n
  BY DEF Recv, Missing
<1>2. UNCHANGED <<client, part, aligned, status, replies, lost, cut>> /\ status = "open"
  BY DEF Recv, answers
<1>3. pos \in Nat /\ need \in Nat /\ sent \in Nat /\ n \in Nat /\ n <= need
  <2>1. Len(script) * FrameSize \in Nat
    BY FramingAssumption, SMT DEF FrameSize, TypeOK
  <2> QED
    BY <2>1, <1>1 DEF TypeOK
<1>4. TypeOK'
  BY <1>1, <1>2, <1>3 DEF TypeOK, client
<1>5. Read'
  BY <1>1, <1>2, <1>3, FramingAssumption DEF Read, TypeOK
<1>6. AnsweredInOrder' /\ HangsUpWithCause'
  BY <1>2 DEF AnsweredInOrder, Aligned, Expected, HangsUpWithCause, BadFrame, UnreadAnswer,
              LossEndsLoop, client
<1>7. ASSUME ~cut PROVE InPlace'
  <2>1. Len(replies) * FrameSize \in Nat /\ FrameSize \in Nat
    BY FramingAssumption, FrameEnds DEF TypeOK, FrameSize
  <2>2. InPlace
    BY <1>2, <1>7
  <2>3. part = "header" => need' \in 0..HeaderSize /\ pos' = Len(replies) * FrameSize + (HeaderSize - need')
    BY <1>1, <1>3, <2>1, <2>2, FramingAssumption DEF InPlace
  <2>4. part = "payload" => need' \in 0..PayloadSize /\ pos' = Len(replies) * FrameSize + (FrameSize - need')
    BY <1>1, <1>3, <2>1, <2>2, FramingAssumption DEF InPlace
  <2> QED
    BY <1>2, <2>2, <2>3, <2>4 DEF InPlace, client
<1> QED
  BY <1>2, <1>4, <1>5, <1>6, <1>7

(* The reader of an undisturbed stream is in the frame it is to answer.    *)
LEMMA InFrame ==
  ASSUME IInv, status = "open", ~cut, need = 0
  PROVE  LET m == Len(replies)
         IN /\ m \in Nat /\ m + 1 \in DOMAIN script
            /\ aligned /\ FrameAt(pos) = script[m + 1] /\ script[m + 1] \in Kinds
            /\ part = "payload" => pos = (m + 1) * FrameSize /\ script[m + 1] # "too_large"
<1> DEFINE m == Len(replies)
<1>1. InPlace /\ TypeOK /\ m \in Nat
  BY DEF IInv, TypeOK
<1>2. FrameSize \in Nat /\ HeaderSize \in 1..FrameSize /\ FrameSize \in 1..FrameSize
  BY FramingAssumption DEF FrameSize
<1>3. m * FrameSize \in Nat /\ m * FrameSize + FrameSize = (m + 1) * FrameSize
  BY <1>1, FrameEnds
<1>4. CASE part = "header"
  <2>1. pos = m * FrameSize + HeaderSize
    BY <1>1, <1>2, <1>3, <1>4 DEF InPlace
  <2> QED
    BY <1>1, <1>2, <1>4, <2>1, FrameKnown DEF InPlace
<1>5. CASE part = "payload"
  <2>1. pos = m * FrameSize + FrameSize
    BY <1>1, <1>2, <1>3, <1>5 DEF InPlace
  <2> QED
    BY <1>1, <1>2, <1>3, <1>5, <2>1, FrameKnown DEF InPlace
<1> QED
  BY <1>1, <1>4, <1>5 DEF TypeOK

(* A frame is answered, or ends the loop, as it deserves.                  *)
LEMMA ReplyKeeps ==
  ASSUME IInv, status = "open", need = 0, NEW kind \in Kinds, ReplyTo(kind), UNCHANGED <<client, pos, cut>>,
         ~cut => /\ kind = script[Len(replies) + 1]
                 /\ kind = "too_large" \/ pos = (Len(replies) + 1) * FrameSize
  PROVE  IInv'
<1> DEFINE m == Len(replies)
<1> USE DEF IInv
<1>1. TypeOK'
  <2>1. UNCHANGED <<script, sent, ended, peer, pos, cut>>
    BY DEF client
  <2>2. need' \in Nat /\ part' \in {"header", "payload"}
    BY NextReplyTyped, FramingAssumption
  <2>3. lost' \subseteq DOMAIN replies'
    BY LossKeeps DEF HangsUpWithCause
  <2> QED
    BY <2>1, <2>2, <2>3, NextReplyTyped DEF TypeOK
<1>2. part' = "header" /\ need' = HeaderSize /\ pos' = pos
  BY NextReplyTyped
<1>3. Read'
  <2>1. pos' \in Nat
    BY <1>1, FramingAssumption, SMT DEF TypeOK, FrameSize
  <2> QED
    BY <1>2, <2>1, FramingAssumption DEF Read
<1>3a. LossEndsLoop'
  BY LossKeeps DEF HangsUpWithCause
<1>4. CASE cut
  <2>1. cut'
    BY <1>4
  <2> QED
    BY <1>1, <1>3, <1>3a, <2>1 DEF AnsweredInOrder, HangsUpWithCause
<1>5. CASE ~cut
  <2>1. m \in Nat /\ m + 1 \in DOMAIN script /\ kind = script[m + 1]
        /\ UNCHANGED <<script, ended, peer>>
    BY <1>5, InFrame DEF client
  <2>2. CASE Answer(kind) = "none"
    <3>1. kind \in {"unframed_answer", "null", "beyond_parser"}
      BY <2>2 DEF Answer, Kinds
    <3>2. replies' = replies /\ status' = "closed"
      BY <2>2, <3>1 DEF ReplyTo, Sent, SendFails, EndsLoop
    <3>3. HangsUpWithCause'
      <4>1. BadFrame'
        BY <2>1, <3>1, <3>2 DEF BadFrame
      <4> QED
        BY <1>3a, <4>1 DEF HangsUpWithCause
    <3>4. AnsweredInOrder'
      BY <2>1, <3>2 DEF AnsweredInOrder, Aligned, Expected
    <3> QED
      BY <1>1, <1>3, <3>2, <3>3, <3>4
  <2>3. CASE Answer(kind) # "none"
    <3>1. replies' = Append(replies, Answer(kind)) /\ kind \notin {"unframed_answer", "null", "beyond_parser"}
      BY <2>3 DEF ReplyTo, Answer
    <3>2. Len(replies') = m + 1 /\ DOMAIN replies' = 1..(m + 1) /\ replies'[m + 1] = Answer(kind)
          /\ DOMAIN replies = 1..m /\ \A k \in 1..m : replies'[k] = replies[k]
      BY <2>1, <3>1 DEF TypeOK
    <3>3. AnsweredInOrder'
      BY <1>5, <2>1, <3>2 DEF AnsweredInOrder, Aligned, Expected
    <3>4. HangsUpWithCause'
      <4>1. CASE SendFails(kind)
        <5>1. m + 1 \in lost' /\ (ended \/ peer # "reading")
          BY <4>1 DEF SendFails
        <5>2. ~ended' /\ peer' # "broken" => UnreadAnswer'
          BY <2>1, <3>2, <5>1 DEF UnreadAnswer, TypeOK
        <5> QED
          BY <1>3a, <5>2 DEF HangsUpWithCause
      <4>2. CASE Sent(kind)
        <5>1. status' = "closed" => kind = "too_large"
          BY <3>1, <4>2 DEF Sent, EndsLoop
        <5>2. status' = "closed" => BadFrame'
          BY <2>1, <3>2, <5>1 DEF BadFrame
        <5> QED
          BY <1>3a, <5>2 DEF HangsUpWithCause
      <4> QED
        BY <4>1, <4>2 DEF ReplyTo
    <3>5. status' = "open" => InPlace'
      <4> SUFFICES ASSUME status' = "open" PROVE InPlace'
        OBVIOUS
      <4>1. kind # "too_large"
        BY DEF ReplyTo, Sent, SendFails, EndsLoop
      <4>2. pos' = (m + 1) * FrameSize /\ pos' \in Nat /\ pos % FrameSize = 0
        BY <1>2, <1>5, <2>1, <4>1, FrameEnds
      <4>3. aligned'
        BY <4>2 DEF ReplyTo, NextFrame
      <4> QED
        BY <1>2, <3>2, <4>2, <4>3, FramingAssumption DEF InPlace
    <3> QED
      BY <1>1, <1>3, <3>3, <3>4, <3>5
  <2> QED
    BY <2>2, <2>3
<1> QED
  BY <1>4, <1>5

LEMMA HeaderReadKeeps == ASSUME IInv, HeaderRead PROVE IInv'
<1> USE DEF IInv
<1>1. PICK length \in IF aligned THEN {PayloadSize} ELSE 0..FrameSize : part' = "payload" /\ need' = length
  BY DEF HeaderRead
<1>2. UNCHANGED <<client, pos, aligned, status, replies, lost, cut>> /\ status = "open" /\ need = 0
      /\ part = "header" /\ (aligned => FrameAt(pos) # "too_large")
  BY DEF HeaderRead, answers
<1>3. length \in Nat
  BY FramingAssumption DEF FrameSize
<1>4. TypeOK'
  BY <1>1, <1>2, <1>3 DEF TypeOK, client
<1>5. Read'
  <2>1. pos \in Nat
    BY FramingAssumption, SMT DEF TypeOK, FrameSize
  <2> QED
    BY <1>1, <1>2, <2>1, FramingAssumption DEF Read
<1>6. AnsweredInOrder' /\ HangsUpWithCause'
  BY <1>2 DEF AnsweredInOrder, Aligned, Expected, HangsUpWithCause, BadFrame, UnreadAnswer,
              LossEndsLoop, client
<1>7. ASSUME ~cut PROVE InPlace'
  <2>1. aligned /\ script[Len(replies) + 1] # "too_large"
    BY <1>2, <1>7, InFrame
  <2>2. pos = Len(replies) * FrameSize + HeaderSize /\ Len(replies) * FrameSize \in Nat
    BY <1>2, <1>7, FramingAssumption, FrameEnds DEF InPlace, TypeOK
  <2> QED
    BY <1>1, <1>2, <2>1, <2>2, FramingAssumption DEF InPlace, client, FrameSize
<1> QED
  BY <1>2, <1>4, <1>5, <1>6, <1>7

LEMMA HeaderTooLargeKeeps == ASSUME IInv, HeaderTooLarge PROVE IInv'
<1>1. ~cut => "too_large" = script[Len(replies) + 1]
  BY InFrame DEF HeaderTooLarge
<1> QED
  BY <1>1, ReplyKeeps DEF HeaderTooLarge, Kinds

LEMMA PayloadReadKeeps == ASSUME IInv, PayloadRead PROVE IInv'
<1>1. PICK kind \in IF aligned THEN {FrameAt(pos)} ELSE Misread :
        ReplyTo(kind)
  BY DEF PayloadRead
<1>2. kind \in Kinds
  <2>1. FrameAt(pos) \in Kinds
    BY FrameTyped DEF PayloadRead, IInv, Read
  <2> QED
    BY <2>1 DEF Kinds, Misread
<1>3. ~cut => kind = script[Len(replies) + 1] /\ pos = (Len(replies) + 1) * FrameSize
  BY InFrame DEF PayloadRead
<1> QED
  BY <1>1, <1>2, <1>3, ReplyKeeps DEF PayloadRead

LEMMA ReadTimesOutKeeps == ASSUME IInv, ReadTimesOut PROVE IInv'
<1> USE DEF IInv
<1>1. part' = "header" /\ need' = HeaderSize /\ aligned' = (pos % FrameSize = 0)
      /\ UNCHANGED <<script, sent, ended, peer, pos, status, replies, lost>> /\ status = "open"
      /\ cut' = (cut \/ part = "payload" \/ need < HeaderSize)
  BY DEF ReadTimesOut, NextFrame, client, answers
<1>2. TypeOK'
  <2>1. aligned' \in BOOLEAN /\ cut' \in BOOLEAN
    BY <1>1
  <2> QED
    BY <1>1, <2>1, FramingAssumption DEF TypeOK
<1>3. Read'
  <2>1. pos \in Nat
    BY FramingAssumption, SMT DEF TypeOK, FrameSize
  <2> QED
    BY <1>1, <2>1, FramingAssumption DEF Read
<1>4. HangsUpWithCause'
  BY <1>1 DEF HangsUpWithCause, LossEndsLoop
<1>5. ~cut' => ~cut /\ part = "header" /\ need >= HeaderSize
  <2>1. ~cut' => ~cut /\ part # "payload" /\ ~(need < HeaderSize)
    BY <1>1, Zenon
  <2> QED
    BY <2>1, FramingAssumption DEF TypeOK
<1>6. AnsweredInOrder'
  BY <1>1, <1>5 DEF AnsweredInOrder, Aligned, Expected
<1>7. ASSUME ~cut' PROVE InPlace'
  <2>1. InPlace /\ part = "header" /\ need >= HeaderSize
    BY <1>1, <1>5, <1>7
  <2>2. Len(replies) * FrameSize \in Nat /\ (Len(replies) * FrameSize) % FrameSize = 0
    BY FrameEnds DEF TypeOK
  <2>3. pos = Len(replies) * FrameSize
    BY <2>1, <2>2, FramingAssumption DEF InPlace
  <2>4. aligned'
    BY <1>1, <2>2, <2>3
  <2> QED
    BY <1>1, <2>2, <2>3, <2>4, FramingAssumption DEF InPlace
<1> QED
  BY <1>2, <1>3, <1>4, <1>6, <1>7

LEMMA StreamEndsKeeps == ASSUME IInv, EndOfStream \/ ReadFails PROVE IInv'
<1> USE DEF IInv
<1>1. UNCHANGED <<client, reader, replies, lost, cut>> /\ (ended \/ peer = "broken")
      /\ status = "open" /\ status' = "closed"
  BY DEF EndOfStream, ReadFails, answers
<1>2. TypeOK' /\ Read'
  BY <1>1 DEF TypeOK, Read, client, reader
<1>3. AnsweredInOrder' /\ HangsUpWithCause'
  BY <1>1 DEF AnsweredInOrder, Aligned, Expected, HangsUpWithCause, LossEndsLoop, client
<1> QED
  BY <1>1, <1>2, <1>3

LEMMA Inductive == ASSUME IInv, [Next]_vars PROVE IInv'
<1>1. CASE UNCHANGED vars
  BY <1>1 DEF vars, client, reader, answers, IInv, TypeOK, Read, AnsweredInOrder, Aligned, Expected,
              HangsUpWithCause, BadFrame, UnreadAnswer, LossEndsLoop, InPlace
<1> QED
  BY <1>1, ClientKeeps, RecvKeeps, HeaderReadKeeps, HeaderTooLargeKeeps, PayloadReadKeeps,
     ReadTimesOutKeeps, StreamEndsKeeps DEF Next, Server
-----------------------------------------------------------------------------
(* The reader of an undisturbed stream is where its answers say.           *)
THEOREM Invariance == Spec => []IInv
  BY InitIInv, Inductive, PTL DEF Spec

(* However a stream is cut into pieces, and whatever the sizes of frames:  *)
(* the loop answers its frames in order, each as it deserves.              *)
THEOREM AnswersKeepOrder == Spec => []AnsweredInOrder
  BY Invariance, PTL DEF IInv

(* Only a frame that cannot be read or answered, or an answer left unread, *)
(* costs a client its connection; and an answer to a request that did not  *)
(* get out always does.                                                    *)
THEOREM HangUpsHaveCause == Spec => []HangsUpWithCause
  BY Invariance, PTL DEF IInv
=============================================================================
