----------------------------- MODULE CanSession -----------------------------
(***************************************************************************)
(* A tester and a vehicle that talk OBD II through libyobd.  The tester    *)
(* asks for PIDs and reads whatever the bus delivers; the vehicle answers  *)
(* the queries it hears.  Each side keeps one struct can_frame and uses it *)
(* over and over, as test/can.c does, so every call meets what an earlier  *)
(* call, or a failed one, left in it.                                      *)
(*                                                                         *)
(* The applications and the bus are external: CAN frames may be lost, be   *)
(* overtaken, or be delivered again by a gateway, and frames of other      *)
(* nodes are on the bus as well.                                           *)
(***************************************************************************)
EXTENDS CanCodec

CONSTANTS
  Endianness,    \* the byte orders of the schemas in question
  Schema,        \* the context's PIDs: <<mode, pid>> -> what the schema says
  Requests,      \* what the tester asks for: a set of <<mode, pid>>
  Payloads,      \* the data bytes a vehicle may have for a PID
  Foreign,       \* frames of other nodes
  MaxInFlight,   \* bound: frames on the bus
  MaxAnswers     \* bound: answers of the vehicle

\* The PIDs that fill half a key.
PidNumbers == 0..(HALF - 1)

Exprs == [type : {"EXPR_NOP", "EXPR_STACK"}, data : Seq(STRING)]

ASSUME SessionAssumption ==
  /\ Endianness \subseteq BOOLEAN
  /\ DOMAIN Schema \subseteq Modes \X PidNumbers
  /\ Schema \in [DOMAIN Schema -> [can_bytes : 1..4, pid_type : STRING,
                                   expr : Exprs, convert : STRING]]
  /\ Requests \subseteq Modes \X Nat
  /\ Payloads \subseteq Seq(Byte)
  /\ Foreign \subseteq Frames
  /\ MaxInFlight \in Nat /\ MaxAnswers \in Nat

VARIABLES
  big_endian,  \* the byte order of both sides' schema
  tester,      \* the tester's frame
  vehicle,     \* the vehicle's frame
  bus,         \* the frames in flight
  heard,       \* what the vehicle made of the last frame it took; "overrun"
               \* when its process is gone
  got,         \* what the tester made of the last frame it took; "xassert" or
               \* "undefined" when its process is gone
  asked,       \* history: what was asked for
  answers      \* history: the answers given, with their frames

vars == << big_endian, tester, vehicle, bus, heard, got, asked, answers >>

ctx_of(order) ==
  [big_endian  |-> order,
   modepid_map |-> [key \in {get_modepid(k[1], k[2]) : k \in DOMAIN Schema} |->
                      Schema[CHOOSE k \in DOMAIN Schema :
                               get_modepid(k[1], k[2]) = key]]]

ctx == ctx_of(big_endian)

Nothing == Failed("none yet")

-----------------------------------------------------------------------------
Init ==
  /\ big_endian \in Endianness
  /\ tester = ZeroFrame
  /\ vehicle = ZeroFrame
  /\ bus = Foreign
  /\ heard = Nothing
  /\ got = Nothing
  /\ asked = {}
  /\ answers = {}

Room == Cardinality(bus \ Foreign) < MaxInFlight

TesterIsGone == got.err \in {"xassert", "undefined"}

\* The tester asks; a query that could not be made is not sent.
Ask ==
  \E request \in Requests :
    LET made == make_can_query_noctx(big_endian, request[1], request[2], tester)
    IN  /\ Room /\ ~TesterIsGone
        /\ tester' = made.frame
        /\ \/ /\ made.err = "YOBD_OK"
              /\ bus' = bus \cup {made.frame}
              /\ asked' = asked \cup {request}
           \/ /\ made.err # "YOBD_OK"
              /\ UNCHANGED << bus, asked >>
        /\ UNCHANGED << big_endian, vehicle, heard, got, answers >>

\* The vehicle takes a frame into its buffer and reads its header.
Hear ==
  \E frame \in bus :
    /\ heard.err # "overrun"
    /\ vehicle' = frame
    /\ heard' = parse_can_headers_noctx(big_endian, frame)
    /\ UNCHANGED << big_endian, tester, bus, got, asked, answers >>

\* The vehicle answers the query in its buffer, in the same buffer, with the
\* bytes it has at the moment.
Answer ==
  \E payload \in Payloads :
    /\ heard.err = "YOBD_OK"
    /\ is_query(vehicle)
    /\ << heard.mode, heard.pid >> \in DOMAIN Schema
    /\ Room
    /\ Cardinality(answers) < MaxAnswers
    /\ LET made == make_can_response_noctx(big_endian, heard.mode, heard.pid,
                                           payload, vehicle)
       IN  /\ vehicle' = made.frame
           /\ answers' = answers \cup
                {[mode |-> heard.mode, pid |-> heard.pid, payload |-> payload,
                  err |-> made.err, frame |-> made.frame]}
           /\ bus' = IF made.err = "YOBD_OK" THEN bus \cup {made.frame} ELSE bus
           /\ heard' = IF made.err = "overrun" THEN Failed("overrun") ELSE Nothing
    /\ UNCHANGED << big_endian, tester, got, asked >>

\* The tester takes a frame into its buffer and reads its header and value.
Receive ==
  \E frame \in bus :
    LET head  == parse_can_headers_noctx(big_endian, frame)
        value == parse_can_response(ctx, frame)
    IN  /\ ~TesterIsGone
        /\ tester' = frame
        /\ got' = IF value.err = "YOBD_OK"
                    THEN [err |-> "YOBD_OK", mode |-> head.mode, pid |-> head.pid,
                          convert |-> value.convert, val |-> value.val]
                    ELSE value
        /\ UNCHANGED << big_endian, vehicle, bus, heard, asked, answers >>

\* A frame is lost, or has reached everyone it will ever reach.
Vanish ==
  \E frame \in bus \ Foreign :
    /\ bus' = bus \ {frame}
    /\ UNCHANGED << big_endian, tester, vehicle, heard, got, asked, answers >>

Next == Ask \/ Hear \/ Answer \/ Receive \/ Vanish

Spec == Init /\ [][Next]_vars

-----------------------------------------------------------------------------
FitsSchema(a) ==
  /\ << a.mode, a.pid >> \in DOMAIN Schema
  /\ Len(a.payload) = Schema[<< a.mode, a.pid >>].can_bytes

-----------------------------------------------------------------------------
\* A value the tester accepts for a PID is one the vehicle gave for that very
\* PID of that mode, with the unit the schema has for it: whatever frames are
\* lost, late, repeated or foreign, and whatever was in the buffers.
ValueWasGiven ==
  got.err = "YOBD_OK" =>
    \E a \in answers :
      /\ a.mode = got.mode /\ a.pid = got.pid /\ FitsSchema(a)
      /\ got.convert = Schema[<< a.mode, a.pid >>].convert
      /\ got.val = Meaning(big_endian, Schema[<< a.mode, a.pid >>], a.payload)

\* The vehicle only hears queries that were made, and the tester only accepts
\* values for what it asked: the mode and the PID survive both directions.
OnlyAskedFor ==
  /\ heard.err = "YOBD_OK" /\ is_query(vehicle) => << heard.mode, heard.pid >> \in asked
  /\ got.err = "YOBD_OK" => << got.mode, got.pid >> \in asked

\* Every answer of the length the schema says is accepted: no response the
\* library makes is refused by the library.  It stops the reader exactly when
\* the PID's formula is missing or cannot be evaluated over the data.
AnswersAreReadable ==
  \A a \in answers :
    FitsSchema(a) /\ a.err = "YOBD_OK" =>
      LET read == parse_can_response(ctx, a.frame)
      IN  IF Stops(Schema[<< a.mode, a.pid >>], a.payload)
            THEN read.err \in {"xassert", "undefined"}
            ELSE read.err = "YOBD_OK"

\* A frame that goes out, query or answer, holds its header, its data and
\* padding: nothing of what the buffer held before, a half-written query
\* included.
PaddedBehind(frame) == \A k \in 0..7 : k > frame.data[0] => frame.data[k] = PAD_VALUE

Query(r) == make_can_query_noctx(big_endian, r[1], r[2], ZeroFrame).frame

NothingStale ==
  /\ \A frame \in bus \ Foreign : is_query(frame) =>
       /\ \E r \in asked : frame = Query(r)
       /\ PaddedBehind(frame)
  /\ \A a \in answers : a.err = "YOBD_OK" =>
       /\ a.frame = make_can_response_noctx(big_endian, a.mode, a.pid, a.payload, ZeroFrame).frame
       /\ PaddedBehind(a.frame)

\* yobd.h: the payload of a response has one to five bytes.  Such a payload
\* fits into the frame.
PayloadFits == \A a \in answers : Len(a.payload) \in 1..5 => a.err # "overrun"
-----------------------------------------------------------------------------
(***************************************************************************)
(* What the codec gets across.  Outside these limits the code itself loses *)
(* a PID or a number; within them the theorems hold for every schema, all  *)
(* payloads and any traffic.                                               *)
(***************************************************************************)

\* PidField() puts the upper byte of a two-byte PID nowhere.
OneBytePids == \A r \in Requests : mode_is_sae_standard(r[1]) \/ r[2] <= 255

\* The response mode, 0x40 more, is a byte above 0x40.
AnswerableModes == \A k \in DOMAIN Schema : k[1] \in 1..191

\* nop_eval() reads three bytes in little-endian order wrongly.
ReadableNumbers ==
  \A k \in DOMAIN Schema :
    Schema[k].can_bytes = 3 /\ Schema[k].expr.type = "EXPR_NOP" => FALSE \notin Endianness

\* No other node asks, or sends what is a good response by the schema.
NoOtherTraffic ==
  \A frame \in Foreign :
    /\ ~is_query(frame)
    /\ \A order \in Endianness : parse_can_response(ctx_of(order), frame).err # "YOBD_OK"
=============================================================================
