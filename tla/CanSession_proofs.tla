-------------------------- MODULE CanSession_proofs --------------------------
(***************************************************************************)
(* Proofs about CanSession, for every schema, every set of payloads and    *)
(* every traffic on the bus: a frame that goes out holds nothing of what   *)
(* its buffer held before; and, within the limits that CanSession names,   *)
(* what is read was made for what was asked, and what is made can be read. *)
(***************************************************************************)
EXTENDS CanSession, CanCodec_proofs

\* What NothingStale says of one answer, and of one query.
IsFresh(order, a) ==
  a.err = "YOBD_OK" =>
    /\ a.frame = make_can_response_noctx(order, a.mode, a.pid, a.payload, ZeroFrame).frame
    /\ PaddedBehind(a.frame)

IsFreshQuery(order, frame, r) ==
  frame = make_can_query_noctx(order, r[1], r[2], ZeroFrame).frame /\ PaddedBehind(frame)

LEMMA AnswerIsFresh ==
  ASSUME NEW order, NEW mode, NEW pid, NEW payload \in Seq(Byte), NEW frame, NEW made,
         made = make_can_response_noctx(order, mode, pid, payload, frame)
  PROVE  /\ IsFresh(order, [mode |-> mode, pid |-> pid, payload |-> payload,
                            err |-> made.err, frame |-> made.frame])
         /\ made.err = "YOBD_OK" => ~is_query(made.frame)
<1>. DEFINE response == [can_id |-> RESPONSE_BASE, can_dlc |-> OBD_II_DLC,
                         data |-> Response(order, mode, pid, payload)]
            zero     == make_can_response_noctx(order, mode, pid, payload, ZeroFrame)
<1>1. made.err = "YOBD_OK" => made.frame = response
  BY ResponseIsWhole
<1>2. zero.err = made.err
  BY ErrorIsOfTheCall
<1>3. zero.err = "YOBD_OK" => zero.frame = response
  BY ResponseIsWhole
<1>4. response.data = Response(order, mode, pid, payload) /\ ~is_query(response)
  BY DEF is_query, QUERY_ADDRESS, RESPONSE_BASE
<1>. HIDE DEF response
<1>5. PaddedBehind(response)
  <2>. DEFINE data == Response(order, mode, pid, payload)
  <2>1. \A k \in 0..7 : k > data[0] => data[k] = PAD_VALUE
    BY PaddedBehindData
  <2>. HIDE DEF data
  <2>2. response.data = data
    BY <1>4 DEF data
  <2>. QED
    BY <2>1, <2>2 DEF PaddedBehind
<1>6. made.err = "YOBD_OK" => made.frame = zero.frame /\ PaddedBehind(made.frame)
  BY <1>1, <1>2, <1>3, <1>5
<1>7. made.err = "YOBD_OK" => ~is_query(made.frame)
  BY <1>1, <1>4
<1>. QED
  BY <1>6, <1>7 DEF IsFresh

LEMMA QueryIsFresh ==
  ASSUME NEW order, NEW r, NEW frame, NEW made,
         made = make_can_query_noctx(order, r[1], r[2], frame), made.err = "YOBD_OK"
  PROVE  IsFreshQuery(order, made.frame, r)
<1>. DEFINE query == [can_id |-> QUERY_ADDRESS, can_dlc |-> OBD_II_DLC,
                      data |-> QueryData(order, r[1], r[2])]
            zero  == make_can_query_noctx(order, r[1], r[2], ZeroFrame)
<1>1. made.frame = query
  BY QueryIsWhole
<1>2. zero.err = "YOBD_OK"
  BY QueryErrorIsOfTheCall
<1>3. zero.frame = query
  BY <1>2, QueryIsWhole
<1>4. PaddedBehind(query)
  <2>. DEFINE data == QueryData(order, r[1], r[2])
  <2>1. \A k \in 0..7 : k > data[0] => data[k] = PAD_VALUE
    BY QueryPaddedBehind
  <2>2. query.data = data
    OBVIOUS
  <2>. HIDE DEF data, query
  <2>. QED
    BY <2>1, <2>2 DEF PaddedBehind
<1>. HIDE DEF query
<1>. QED
  BY <1>1, <1>3, <1>4 DEF IsFreshQuery

\* What is on the bus and not foreign is a query as the call makes it, or no
\* query at all; and each answer is as its call makes it.
QueriesFresh ==
  \A frame \in bus \ Foreign :
    \/ \E r \in asked : IsFreshQuery(big_endian, frame, r)
    \/ ~is_query(frame)

AnswersFresh == \A a \in answers : IsFresh(big_endian, a)

\* A frame that goes out, query or answer, holds its header, its data and
\* padding, and nothing of what the buffer held before: a half-written query, a
\* query of another width or an earlier answer.
THEOREM FramesAreFresh == Spec => []NothingStale
<1>1. QueriesFresh /\ AnswersFresh => NothingStale
  <2>1. QueriesFresh =>
          \A frame \in bus \ Foreign : is_query(frame) =>
            (\E r \in asked : frame = Query(r)) /\ PaddedBehind(frame)
    BY Zenon DEF QueriesFresh, IsFreshQuery, Query
  <2>2. AnswersFresh =>
          \A a \in answers : a.err = "YOBD_OK" =>
            /\ a.frame = make_can_response_noctx(big_endian, a.mode, a.pid, a.payload, ZeroFrame).frame
            /\ PaddedBehind(a.frame)
    BY Zenon DEF AnswersFresh, IsFresh
  <2>. QED
    BY <2>1, <2>2, Zenon DEF NothingStale
<1>2. Init => QueriesFresh /\ AnswersFresh
  BY DEF Init, QueriesFresh, AnswersFresh
<1>3. QueriesFresh /\ AnswersFresh /\ [Next]_vars => QueriesFresh' /\ AnswersFresh'
  <2>. SUFFICES ASSUME QueriesFresh, AnswersFresh, [Next]_vars
                PROVE  QueriesFresh' /\ AnswersFresh'
    OBVIOUS
  <2>1. UNCHANGED << big_endian, answers >> => AnswersFresh'
    BY DEF AnswersFresh
  <2>2. UNCHANGED << big_endian, asked >> /\ bus' \subseteq bus => QueriesFresh'
    BY DEF QueriesFresh
  <2>3. CASE Answer
    <3>1. PICK payload \in Payloads :
            LET made == make_can_response_noctx(big_endian, heard.mode, heard.pid, payload, vehicle)
            IN  /\ answers' = answers \cup
                     {[mode |-> heard.mode, pid |-> heard.pid, payload |-> payload,
                       err |-> made.err, frame |-> made.frame]}
                /\ bus' = IF made.err = "YOBD_OK" THEN bus \cup {made.frame} ELSE bus
      BY <2>3 DEF Answer
    <3>. DEFINE made == make_can_response_noctx(big_endian, heard.mode, heard.pid, payload, vehicle)
                a    == [mode |-> heard.mode, pid |-> heard.pid, payload |-> payload,
                         err |-> made.err, frame |-> made.frame]
    <3>2. payload \in Seq(Byte)
      BY SessionAssumption
    <3>3. IsFresh(big_endian, a) /\ (made.err = "YOBD_OK" => ~is_query(made.frame))
      BY <3>2, AnswerIsFresh, Zenon
    <3>4. /\ answers' = answers \cup {a} /\ UNCHANGED << big_endian, asked >>
          /\ bus' = IF made.err = "YOBD_OK" THEN bus \cup {made.frame} ELSE bus
      BY <2>3, <3>1 DEF Answer
    <3>. HIDE DEF a, made
    <3>5. AnswersFresh'
      BY <3>3, <3>4 DEF AnswersFresh
    <3>6. QueriesFresh'
      BY <3>3, <3>4 DEF QueriesFresh
    <3>. QED
      BY <3>5, <3>6
  <2>4. CASE Ask
    <3>1. PICK r \in Requests :
            LET made == make_can_query_noctx(big_endian, r[1], r[2], tester)
            IN  \/ /\ made.err = "YOBD_OK"
                   /\ bus' = bus \cup {made.frame}
                   /\ asked' = asked \cup {r}
                \/ UNCHANGED << bus, asked >>
      BY <2>4 DEF Ask
    <3>. DEFINE made == make_can_query_noctx(big_endian, r[1], r[2], tester)
    <3>2. made.err = "YOBD_OK" => IsFreshQuery(big_endian, made.frame, r)
      BY QueryIsFresh
    <3>3. UNCHANGED << big_endian, answers >>
      BY <2>4 DEF Ask
    <3>4. \/ made.err = "YOBD_OK" /\ bus' = bus \cup {made.frame} /\ asked' = asked \cup {r}
          \/ UNCHANGED << bus, asked >>
      BY <3>1
    <3>. HIDE DEF made
    <3>5. QueriesFresh'
      BY <3>2, <3>3, <3>4 DEF QueriesFresh
    <3>. QED
      BY <2>1, <3>3, <3>5
  <2>5. CASE Hear \/ Receive \/ Vanish \/ UNCHANGED vars
    <3>1. UNCHANGED << big_endian, asked, answers >> /\ bus' \subseteq bus
      BY <2>5 DEF Hear, Receive, Vanish, vars
    <3>. QED
      BY <2>1, <2>2, <3>1
  <2>. QED
    BY <2>3, <2>4, <2>5 DEF Next
<1>. QED
  BY <1>1, <1>2, <1>3, PTL DEF Spec

-----------------------------------------------------------------------------
(***************************************************************************)
(* The context.                                                            *)
(***************************************************************************)

\* The keys are the modes and the PIDs, so the map of the context is the schema.
LEMMA MapIsSchema ==
  ASSUME NEW order
  PROVE  /\ ctx_of(order).big_endian = order
         /\ DOMAIN ctx_of(order).modepid_map = DOMAIN Schema
         /\ \A k \in DOMAIN Schema : ctx_of(order).modepid_map[k] = Schema[k]
<1>1. ASSUME NEW k \in DOMAIN Schema PROVE get_modepid(k[1], k[2]) = k
  <2>1. k \in Modes \X PidNumbers
    BY SessionAssumption
  <2>2. k = << k[1], k[2] >> /\ k[2] \in 0..(HALF - 1)
    BY <2>1 DEF PidNumbers
  <2>. QED
    BY <2>2, KeyIsPair
<1>. DEFINE Keys == {get_modepid(k[1], k[2]) : k \in DOMAIN Schema}
            Map  == [key \in Keys |-> Schema[CHOOSE k \in DOMAIN Schema :
                                              get_modepid(k[1], k[2]) = key]]
<1>2. Keys = DOMAIN Schema
  BY <1>1
<1>3. ctx_of(order) = [big_endian |-> order, modepid_map |-> Map]
  BY Zenon DEF ctx_of
<1>4. ASSUME NEW k \in DOMAIN Schema PROVE Map[k] = Schema[k]
  <2>1. \A j \in DOMAIN Schema : get_modepid(j[1], j[2]) = k <=> j = k
    BY <1>1
  <2>2. (CHOOSE j \in DOMAIN Schema : get_modepid(j[1], j[2]) = k) = k
    BY <2>1
  <2>. QED
    BY <1>2, <2>2
<1>. HIDE DEF Map
<1>5. ctx_of(order).big_endian = order /\ ctx_of(order).modepid_map = Map
  BY <1>3
<1>6. DOMAIN Map = DOMAIN Schema
  BY <1>2 DEF Map
<1>. QED
  BY <1>4, <1>5, <1>6

-----------------------------------------------------------------------------
(***************************************************************************)
(* The session.  Whatever is on the bus is foreign, a query of something   *)
(* that was asked, or an answer that was given; what either side made of   *)
(* the last frame it took follows from that.                               *)
(***************************************************************************)

\* A frame that is read as the query r.
QueryOf(order, frame, r) ==
  /\ is_query(frame) /\ ~is_response(frame) /\ frame.can_dlc = 8
  /\ parse_mode_pid(order, frame).mode = r[1]
  /\ parse_mode_pid(order, frame).pid = r[2]

\* An answer of which nothing got lost between the call and the frame.
AnswerOf(order, a) ==
  /\ a.payload \in Seq(Byte)
  /\ a.err = "YOBD_OK" =>
       /\ Len(a.payload) >= 1 /\ a.pid \in Byte
       /\ a.frame = [can_id |-> RESPONSE_BASE, can_dlc |-> OBD_II_DLC,
                     data |-> Response(order, a.mode, a.pid, a.payload)]

\* What the reader makes of an answer that was given.
LEMMA GivenIsRead ==
  ASSUME big_endian \in BOOLEAN, NEW a, << a.mode, a.pid >> \in DOMAIN Schema,
         AnswerOf(big_endian, a), a.err = "YOBD_OK"
  PROVE  IsReadAs(parse_can_response(ctx, a.frame), parse_can_headers_noctx(big_endian, a.frame),
                  big_endian, a.mode, a.pid, a.payload, Schema[<< a.mode, a.pid >>])
<1>. DEFINE desc == Schema[<< a.mode, a.pid >>]
<1>1. /\ ctx.big_endian = big_endian /\ << a.mode, a.pid >> \in DOMAIN ctx.modepid_map
      /\ ctx.modepid_map[<< a.mode, a.pid >>] = desc
  BY MapIsSchema DEF ctx
<1>2. /\ a.mode \in Modes
      /\ desc.can_bytes \in 1..4 /\ desc.expr.type \in {"EXPR_NOP", "EXPR_STACK"}
  <2>1. << a.mode, a.pid >> \in Modes \X PidNumbers
    BY SessionAssumption
  <2>2. desc \in [can_bytes : 1..4, pid_type : STRING,
                  expr : Exprs, convert : STRING]
    BY SessionAssumption
  <2>. QED
    BY <2>1, <2>2 DEF Exprs
<1>3. /\ a.payload \in Seq(Byte) /\ Len(a.payload) >= 1 /\ a.pid \in Byte
      /\ a.frame = [can_id |-> RESPONSE_BASE, can_dlc |-> OBD_II_DLC,
                    data |-> Response(big_endian, a.mode, a.pid, a.payload)]
  BY DEF AnswerOf
<1>. HIDE DEF desc
<1>4. desc.can_bytes \in Nat
  BY <1>2
<1>5. Len(a.payload) = desc.can_bytes => Len(a.payload) \in 1..4
  BY <1>2, Zenon
<1>. QED
  BY <1>1, <1>2, <1>3, <1>4, <1>5, AnswerIsRead DEF desc

\* A value that the tester accepted because of the answer a.
AcceptedFrom(g, a) ==
  /\ a.mode = g.mode /\ a.pid = g.pid /\ FitsSchema(a)
  /\ g.convert = Schema[<< a.mode, a.pid >>].convert
  /\ LET desc == Schema[<< a.mode, a.pid >>]
     IN  (desc.can_bytes = 3 /\ desc.expr.type = "EXPR_NOP" => big_endian) =>
           g.val = Meaning(big_endian, desc, a.payload)

BusSound ==
  \A frame \in bus :
    \/ frame \in Foreign
    \/ \E r \in asked : QueryOf(big_endian, frame, r)
    \/ \E a \in answers : a.err = "YOBD_OK" /\ a.frame = frame

AnswersSound ==
  \A a \in answers :
    << a.mode, a.pid >> \in asked \cap DOMAIN Schema /\ AnswerOf(big_endian, a)

HeardSound ==
  heard.err = "YOBD_OK" /\ is_query(vehicle) => << heard.mode, heard.pid >> \in asked

GotSound == got.err = "YOBD_OK" => \E a \in answers : AcceptedFrom(got, a)

SessionInv ==
  /\ big_endian \in Endianness /\ asked \subseteq Requests
  /\ BusSound /\ AnswersSound /\ HeardSound /\ GotSound

\* What was accepted stays accepted.
LEMMA GotKept ==
  ASSUME GotSound, UNCHANGED << big_endian, got >>, answers \subseteq answers'
  PROVE  GotSound'
<1>1. ASSUME NEW desc, NEW payload PROVE Meaning(big_endian, desc, payload)' = Meaning(big_endian, desc, payload)
  BY DEF Meaning, Weighed, Padded
<1>2. ASSUME NEW a, AcceptedFrom(got, a) PROVE AcceptedFrom(got, a)'
  BY <1>1, <1>2 DEF AcceptedFrom, FitsSchema
<1>. QED
  BY <1>2 DEF GotSound

\* What is on the bus stays accounted for.
LEMMA BusKept ==
  ASSUME BusSound, UNCHANGED big_endian, bus' \subseteq bus,
         asked \subseteq asked', answers \subseteq answers'
  PROVE  BusSound'
BY DEF BusSound

LEMMA AnswersKept ==
  ASSUME AnswersSound, UNCHANGED << big_endian, answers >>, asked \subseteq asked'
  PROVE  AnswersSound'
BY DEF AnswersSound

LEMMA InitSession == Init => SessionInv
<1>. SUFFICES ASSUME Init PROVE SessionInv
  OBVIOUS
<1>1. heard.err # "YOBD_OK" /\ got.err # "YOBD_OK"
  BY DEF Init, Nothing, Failed
<1>. QED
  BY <1>1 DEF Init, SessionInv, BusSound, AnswersSound, HeardSound, GotSound

LEMMA AskSession ==
  ASSUME OneBytePids, SessionInv, Ask
  PROVE  SessionInv'
<1>1. PICK r \in Requests :
        LET made == make_can_query_noctx(big_endian, r[1], r[2], tester)
        IN  \/ /\ made.err = "YOBD_OK"
               /\ bus' = bus \cup {made.frame}
               /\ asked' = asked \cup {r}
            \/ /\ made.err # "YOBD_OK"
               /\ UNCHANGED << bus, asked >>
  BY DEF Ask
<1>. DEFINE made == make_can_query_noctx(big_endian, r[1], r[2], tester)
<1>2. UNCHANGED << big_endian, vehicle, heard, got, answers >>
  BY DEF Ask
<1>3. r[1] \in Modes /\ r[2] \in Nat /\ (mode_is_sae_standard(r[1]) \/ r[2] <= 255)
      /\ big_endian \in BOOLEAN
  BY SessionAssumption DEF OneBytePids, SessionInv
<1>4. made.err = "YOBD_OK" => QueryOf(big_endian, made.frame, r)
  <2>. SUFFICES ASSUME made.err = "YOBD_OK" PROVE QueryOf(big_endian, made.frame, r)
    OBVIOUS
  <2>. DEFINE frame == made.frame
  <2>1. /\ is_query(frame) /\ ~is_response(frame) /\ frame.can_dlc = 8
        /\ parse_mode_pid(big_endian, frame) =
             [err |-> "YOBD_OK", mode |-> r[1], pid |-> r[2],
              data_start |-> mode_data_offset(r[1]) + 1]
    BY <1>3, QueryIsRead
  <2>. HIDE DEF frame
  <2>2. QueryOf(big_endian, frame, r)
    BY <2>1 DEF QueryOf
  <2>. QED
    BY <2>2 DEF frame
<1>. HIDE DEF made
<1>5. asked \subseteq asked' /\ asked' \subseteq Requests
  BY <1>1 DEF SessionInv, made
<1>6. BusSound'
  <2>1. CASE made.err = "YOBD_OK"
    <3>1. bus' = bus \cup {made.frame} /\ asked' = asked \cup {r}
      BY <1>1, <2>1 DEF made
    <3>. QED
      BY <1>2, <1>4, <2>1, <3>1 DEF SessionInv, BusSound
  <2>2. CASE made.err # "YOBD_OK"
    <3>1. UNCHANGED << bus, asked >>
      BY <1>1, <2>2 DEF made
    <3>. QED
      BY <1>2, <3>1, BusKept DEF SessionInv
  <2>. QED
    BY <2>1, <2>2
<1>7. AnswersSound' /\ GotSound'
  BY <1>2, <1>5, AnswersKept, GotKept DEF SessionInv
<1>8. HeardSound'
  BY <1>2, <1>5 DEF SessionInv, HeardSound
<1>. QED
  BY <1>2, <1>5, <1>6, <1>7, <1>8 DEF SessionInv

\* What a frame on the bus is when it is neither foreign nor a query.
LEMMA AnswerIsResponse ==
  ASSUME SessionInv, NEW a \in answers, a.err = "YOBD_OK"
  PROVE  is_response(a.frame) /\ ~is_query(a.frame)
<1>1. /\ a.frame = [can_id |-> RESPONSE_BASE, can_dlc |-> OBD_II_DLC,
                    data |-> Response(big_endian, a.mode, a.pid, a.payload)]
  BY DEF SessionInv, AnswersSound, AnswerOf
<1>2. a.frame.can_id = RESPONSE_BASE
  BY <1>1
<1>. QED
  BY <1>2 DEF is_query, is_response, QUERY_ADDRESS, RESPONSE_BASE, RESPONSE_END

LEMMA HearSession ==
  ASSUME NoOtherTraffic, SessionInv, Hear
  PROVE  SessionInv'
<1>1. PICK frame \in bus :
        vehicle' = frame /\ heard' = parse_can_headers_noctx(big_endian, frame)
  BY DEF Hear
<1>2. UNCHANGED << big_endian, tester, bus, got, asked, answers >>
  BY DEF Hear
<1>3. BusSound' /\ AnswersSound' /\ GotSound'
  BY <1>2, BusKept, AnswersKept, GotKept DEF SessionInv
<1>4. HeardSound'
  <2>. SUFFICES ASSUME is_query(frame)
                PROVE  << heard'.mode, heard'.pid >> \in asked
    BY <1>1, <1>2 DEF HeardSound
  <2>1. frame \notin Foreign
    BY DEF NoOtherTraffic
  <2>2. ~\E a \in answers : a.err = "YOBD_OK" /\ a.frame = frame
    BY AnswerIsResponse
  <2>3. PICK r \in asked : QueryOf(big_endian, frame, r)
    BY <2>1, <2>2 DEF SessionInv, BusSound
  <2>4. heard' = parse_mode_pid(big_endian, frame)
    BY <1>1, <2>3 DEF parse_can_headers_noctx, QueryOf
  <2>5. heard'.mode = r[1] /\ heard'.pid = r[2]
    BY <2>3, <2>4 DEF QueryOf
  <2>6. r = << r[1], r[2] >>
    BY SessionAssumption DEF SessionInv
  <2>. QED
    BY <2>5, <2>6
<1>. QED
  BY <1>2, <1>3, <1>4 DEF SessionInv

LEMMA VanishSession ==
  ASSUME SessionInv, Vanish
  PROVE  SessionInv'
<1>1. bus' \subseteq bus /\ UNCHANGED << big_endian, tester, vehicle, heard, got, asked, answers >>
  BY DEF Vanish
<1>2. BusSound' /\ AnswersSound' /\ GotSound'
  BY <1>1, BusKept, AnswersKept, GotKept DEF SessionInv
<1>. QED
  BY <1>1, <1>2 DEF SessionInv, HeardSound

LEMMA AnswerSession ==
  ASSUME OneBytePids, SessionInv, Answer
  PROVE  SessionInv'
<1>1. PICK payload \in Payloads :
        LET made == make_can_response_noctx(big_endian, heard.mode, heard.pid,
                                            payload, vehicle)
        IN  /\ answers' = answers \cup
                 {[mode |-> heard.mode, pid |-> heard.pid, payload |-> payload,
                   err |-> made.err, frame |-> made.frame]}
            /\ bus' = IF made.err = "YOBD_OK" THEN bus \cup {made.frame} ELSE bus
            /\ heard' = IF made.err = "overrun" THEN Failed("overrun") ELSE Nothing
  BY DEF Answer
<1>2. /\ heard.err = "YOBD_OK" /\ is_query(vehicle)
      /\ << heard.mode, heard.pid >> \in DOMAIN Schema
      /\ UNCHANGED << big_endian, tester, got, asked >>
  BY DEF Answer
<1>. DEFINE made == make_can_response_noctx(big_endian, heard.mode, heard.pid, payload, vehicle)
            a    == [mode |-> heard.mode, pid |-> heard.pid, payload |-> payload,
                     err |-> made.err, frame |-> made.frame]
<1>3. << heard.mode, heard.pid >> \in asked
  BY <1>2 DEF SessionInv, HeardSound
<1>4. payload \in Seq(Byte)
  BY SessionAssumption
<1>5. made.err = "YOBD_OK" =>
        /\ Len(payload) >= 1 /\ heard.pid \in Byte
        /\ made.frame = [can_id |-> RESPONSE_BASE, can_dlc |-> OBD_II_DLC,
                         data |-> Response(big_endian, heard.mode, heard.pid, payload)]
  <2>. SUFFICES ASSUME made.err = "YOBD_OK"
                PROVE  /\ Len(payload) >= 1 /\ heard.pid \in Byte
                       /\ made.frame = [can_id |-> RESPONSE_BASE, can_dlc |-> OBD_II_DLC,
                            data |-> Response(big_endian, heard.mode, heard.pid, payload)]
    OBVIOUS
  <2>. DEFINE len == Len(payload)
  <2>1. len \in 1..5 /\ ~PidTooLarge(heard.mode, heard.pid)
    BY DEF make_can_response_noctx
  <2>2. heard.pid \in Nat /\ (mode_is_sae_standard(heard.mode) \/ heard.pid <= 255)
    <3>1. << heard.mode, heard.pid >> \in Requests
      BY <1>3 DEF SessionInv
    <3>. QED
      BY <3>1, SessionAssumption DEF OneBytePids
  <2>3. heard.pid \in Byte
    BY <2>1, <2>2 DEF PidTooLarge, Byte
  <2>4. made.frame = [can_id |-> RESPONSE_BASE, can_dlc |-> OBD_II_DLC,
                      data |-> Response(big_endian, heard.mode, heard.pid, payload)]
    BY <1>4, ResponseIsWhole
  <2>. HIDE DEF len
  <2>5. len >= 1
    BY <2>1
  <2>. HIDE DEF made
  <2>. QED
    BY <2>3, <2>4, <2>5, Zenon DEF len
<1>. HIDE DEF made
<1>6. AnswerOf(big_endian, a)
  <2>1. /\ a.mode = heard.mode /\ a.pid = heard.pid /\ a.payload = payload
        /\ a.err = made.err /\ a.frame = made.frame
    OBVIOUS
  <2>. HIDE DEF a
  <2>. QED
    BY <1>4, <1>5, <2>1, Zenon DEF AnswerOf
<1>7. << a.mode, a.pid >> \in asked \cap DOMAIN Schema /\ a.err = made.err /\ a.frame = made.frame
  BY <1>2, <1>3
<1>8. answers' = answers \cup {a}
  BY <1>1 DEF made
<1>. HIDE DEF a
<1>9. bus' = (IF made.err = "YOBD_OK" THEN bus \cup {made.frame} ELSE bus)
      /\ heard'.err # "YOBD_OK"
  BY <1>1 DEF made, Nothing, Failed
<1>10. AnswersSound'
  BY <1>2, <1>6, <1>7, <1>8 DEF SessionInv, AnswersSound
<1>11. BusSound'
  <2>. SUFFICES ASSUME NEW frame \in bus'
                PROVE  \/ frame \in Foreign
                       \/ \E r \in asked : QueryOf(big_endian, frame, r)
                       \/ \E b \in answers' : b.err = "YOBD_OK" /\ b.frame = frame
    BY <1>2 DEF BusSound
  <2>1. CASE frame \in bus
    BY <1>8, <2>1 DEF SessionInv, BusSound
  <2>2. CASE made.err = "YOBD_OK" /\ frame = made.frame
    BY <1>7, <1>8, <2>2
  <2>. QED
    BY <1>9, <2>1, <2>2
<1>12. GotSound'
  BY <1>2, <1>8, GotKept DEF SessionInv
<1>. QED
  BY <1>2, <1>9, <1>10, <1>11, <1>12 DEF SessionInv, HeardSound

LEMMA ReceiveSession ==
  ASSUME NoOtherTraffic, SessionInv, Receive
  PROVE  SessionInv'
<1>1. PICK frame \in bus :
        LET head  == parse_can_headers_noctx(big_endian, frame)
            value == parse_can_response(ctx, frame)
        IN  got' = IF value.err = "YOBD_OK"
                     THEN [err |-> "YOBD_OK", mode |-> head.mode, pid |-> head.pid,
                           convert |-> value.convert, val |-> value.val]
                     ELSE value
  BY DEF Receive
<1>2. UNCHANGED << big_endian, vehicle, bus, heard, asked, answers >>
  BY DEF Receive
<1>. DEFINE head  == parse_can_headers_noctx(big_endian, frame)
            value == parse_can_response(ctx, frame)
<1>3. BusSound' /\ AnswersSound'
  BY <1>2, BusKept, AnswersKept DEF SessionInv
<1>4. GotSound'
  <2>. SUFFICES ASSUME value.err = "YOBD_OK"
                PROVE  \E a \in answers' : AcceptedFrom(got, a)'
    <3>1. got'.err = "YOBD_OK" => value.err = "YOBD_OK"
      BY <1>1
    <3>. HIDE DEF value
    <3>. QED
      BY <3>1 DEF GotSound
  <2>1. frame \notin Foreign
    BY DEF NoOtherTraffic, SessionInv, ctx
  <2>2. is_response(frame)
    <3>. SUFFICES ASSUME ~is_response(frame) PROVE FALSE
      OBVIOUS
    <3>1. value = Failed("YOBD_UNKNOWN_ID")
      BY DEF parse_can_response
    <3>. HIDE DEF value
    <3>. QED
      BY <3>1 DEF Failed
  <2>3. PICK a \in answers : a.err = "YOBD_OK" /\ a.frame = frame
    BY <2>1, <2>2 DEF SessionInv, BusSound, QueryOf
  <2>. DEFINE desc == Schema[<< a.mode, a.pid >>]
  <2>4. << a.mode, a.pid >> \in DOMAIN Schema /\ AnswerOf(big_endian, a) /\ big_endian \in BOOLEAN
    BY <2>3, SessionAssumption DEF SessionInv, AnswersSound
  <2>5. /\ Len(a.payload) = desc.can_bytes
        /\ head.mode = a.mode /\ head.pid = a.pid
        /\ value.convert = desc.convert
        /\ (desc.can_bytes = 3 /\ desc.expr.type = "EXPR_NOP" => big_endian) =>
             value.val = Meaning(big_endian, desc, a.payload)
    <3>1. IsReadAs(value, head, big_endian, a.mode, a.pid, a.payload, desc)
      BY <2>3, <2>4, GivenIsRead
    <3>. QED
      BY <3>1 DEF IsReadAs
  <2>. HIDE DEF head, value
  <2>6. got' = [err |-> "YOBD_OK", mode |-> head.mode, pid |-> head.pid,
                convert |-> value.convert, val |-> value.val]
    BY <1>1 DEF head, value
  <2>7. Meaning(big_endian, desc, a.payload)' = Meaning(big_endian, desc, a.payload)
    BY <1>2 DEF Meaning, Weighed, Padded
  <2>8. /\ got'.mode = a.mode /\ got'.pid = a.pid
        /\ got'.convert = desc.convert /\ got'.val = value.val
    BY <2>5, <2>6
  <2>9. (desc.can_bytes = 3 /\ desc.expr.type = "EXPR_NOP" => big_endian') =>
           got'.val = Meaning(big_endian, desc, a.payload)'
    BY <1>2, <2>5, <2>7, <2>8
  <2>10. AcceptedFrom(got, a)'
    BY <2>4, <2>5, <2>8, <2>9 DEF AcceptedFrom, FitsSchema
  <2>. QED
    BY <1>2, <2>3, <2>10
<1>. QED
  BY <1>2, <1>3, <1>4 DEF SessionInv, HeardSound

THEOREM SessionIsSound ==
  ASSUME OneBytePids, NoOtherTraffic
  PROVE  Spec => []SessionInv
<1>1. SessionInv /\ [Next]_vars => SessionInv'
  <2>. SUFFICES ASSUME SessionInv, [Next]_vars PROVE SessionInv'
    OBVIOUS
  <2>1. CASE UNCHANGED vars
    <3>1. UNCHANGED << big_endian, vehicle, bus, heard, got, asked, answers >>
      BY <2>1 DEF vars
    <3>2. BusSound' /\ AnswersSound' /\ GotSound'
      BY <3>1, BusKept, AnswersKept, GotKept DEF SessionInv
    <3>. QED
      BY <3>1, <3>2 DEF SessionInv, HeardSound
  <2>. QED
    BY <2>1, AskSession, HearSession, AnswerSession, ReceiveSession, VanishSession DEF Next
<1>. QED
  BY <1>1, InitSession, PTL DEF Spec

\* The vehicle only hears queries that were made, and the tester only accepts
\* values for what it asked: parse_can_headers() and parse_can_response() get
\* back the mode and the PID that make_can_query() and make_can_response()
\* wrote, in either byte order, for modes with PIDs of one and of two bytes.
THEOREM NobodyHearsMore ==
  ASSUME OneBytePids, NoOtherTraffic
  PROVE  Spec => []OnlyAskedFor
<1>1. SessionInv => OnlyAskedFor
  <2>. SUFFICES ASSUME SessionInv PROVE OnlyAskedFor
    OBVIOUS
  <2>1. ASSUME got.err = "YOBD_OK" PROVE << got.mode, got.pid >> \in asked
    <3>1. PICK a \in answers : AcceptedFrom(got, a)
      BY <2>1 DEF SessionInv, GotSound
    <3>2. << a.mode, a.pid >> \in asked
      BY DEF SessionInv, AnswersSound
    <3>. QED
      BY <3>1, <3>2 DEF AcceptedFrom
  <2>. QED
    BY <2>1 DEF OnlyAskedFor, SessionInv, HeardSound
<1>. QED
  BY <1>1, SessionIsSound, PTL

\* Every answer of the length that the schema says is accepted: what
\* make_can_response() makes, parse_can_response() does not refuse; it stops
\* exactly when the formula of the PID is missing or has no value over the data.
THEOREM AnswersAreAccepted ==
  ASSUME OneBytePids, NoOtherTraffic, AnswerableModes
  PROVE  Spec => []AnswersAreReadable
<1>1. SessionInv => AnswersAreReadable
  <2>. SUFFICES ASSUME SessionInv, NEW a \in answers, FitsSchema(a), a.err = "YOBD_OK"
                PROVE  LET read == parse_can_response(ctx, a.frame)
                       IN  IF Stops(Schema[<< a.mode, a.pid >>], a.payload)
                             THEN read.err \in {"xassert", "undefined"}
                             ELSE read.err = "YOBD_OK"
    BY Zenon DEF AnswersAreReadable
  <2>. DEFINE desc == Schema[<< a.mode, a.pid >>]
  <2>1. << a.mode, a.pid >> \in DOMAIN Schema /\ AnswerOf(big_endian, a) /\ big_endian \in BOOLEAN
    BY SessionAssumption DEF SessionInv, AnswersSound
  <2>2. a.mode \in 1..191
    BY <2>1 DEF AnswerableModes
  <2>3. Len(a.payload) = desc.can_bytes
    BY DEF FitsSchema
  <2>. DEFINE read == parse_can_response(ctx, a.frame)
  <2>4. a.mode \in 1..191 /\ Len(a.payload) = desc.can_bytes =>
          read.err = Ending(desc, a.payload)
    <3>1. IsReadAs(read, parse_can_headers_noctx(big_endian, a.frame),
                   big_endian, a.mode, a.pid, a.payload, desc)
      BY <2>1, GivenIsRead
    <3>. QED
      BY <3>1 DEF IsReadAs
  <2>. HIDE DEF read, desc
  <2>5. IF Stops(desc, a.payload) THEN read.err \in {"xassert", "undefined"}
                                  ELSE read.err = "YOBD_OK"
    BY <2>2, <2>3, <2>4 DEF Ending
  <2>. QED
    BY <2>5, Zenon DEF read, desc
<1>. QED
  BY <1>1, SessionIsSound, PTL

\* A value that the tester accepts for a PID is one that the vehicle gave for
\* that PID of that mode, weighed by the schema's byte order and with the
\* schema's unit: whatever frames are lost, late, repeated or foreign, and
\* whatever was in the buffers.
THEOREM ValuesWereGiven ==
  ASSUME OneBytePids, NoOtherTraffic, ReadableNumbers
  PROVE  Spec => []ValueWasGiven
<1>1. SessionInv => ValueWasGiven
  <2>. SUFFICES ASSUME SessionInv, got.err = "YOBD_OK"
                PROVE  \E a \in answers :
                         /\ a.mode = got.mode /\ a.pid = got.pid /\ FitsSchema(a)
                         /\ got.convert = Schema[<< a.mode, a.pid >>].convert
                         /\ got.val = Meaning(big_endian, Schema[<< a.mode, a.pid >>], a.payload)
    BY DEF ValueWasGiven
  <2>1. PICK a \in answers : AcceptedFrom(got, a)
    BY DEF SessionInv, GotSound
  <2>. DEFINE desc == Schema[<< a.mode, a.pid >>]
  <2>2. desc.can_bytes = 3 /\ desc.expr.type = "EXPR_NOP" => big_endian
    <3>1. << a.mode, a.pid >> \in DOMAIN Schema
      BY DEF SessionInv, AnswersSound
    <3>2. big_endian \in BOOLEAN /\ big_endian \in Endianness
      BY SessionAssumption DEF SessionInv
    <3>. QED
      BY <3>1, <3>2 DEF ReadableNumbers
  <2>3. got.val = Meaning(big_endian, desc, a.payload)
    BY <2>1, <2>2 DEF AcceptedFrom
  <2>. QED
    BY <2>1, <2>3 DEF AcceptedFrom
<1>. QED
  BY <1>1, SessionIsSound, PTL
=============================================================================
