------------------------------ MODULE CanCodec ------------------------------
(***************************************************************************)
(* The CAN half of src/eval.c: how queries and responses are written into  *)
(* a struct can_frame of the caller, and how they are read back.           *)
(*                                                                         *)
(* A frame is a caller's buffer: a call that fails may have written part   *)
(* of it, so each maker takes the frame as it was and returns it as it     *)
(* is.  The pointer checks for NULL are left out.                          *)
(***************************************************************************)
EXTENDS PidMap, Sequences

\* Of a formula, the type of its PID and the four bytes it is given: no
\* assertion of stack_eval() fails.  ExprEval is about that.
CONSTANT Evaluates(_, _, _)

QUERY_ADDRESS == 2015            \* 0x7df
RESPONSE_BASE == 2024            \* 0x7e8
RESPONSE_END  == 2031            \* 0x7ef
OBD_II_DLC    == 8
PAD_VALUE     == 204             \* 0xcc

Byte   == 0..255
Modes  == Byte                   \* yobd_mode, an uint_fast8_t
Frames == [can_id : Nat, can_dlc : Nat, data : [0..7 -> Byte]]

\* struct can_frame after memset(&frame, 0, sizeof(frame)).
ZeroFrame == [can_id |-> 0, can_dlc |-> 0, data |-> [k \in 0..7 |-> 0]]

mode_is_sae_standard(mode) == mode <= 10
mode_data_offset(mode)     == IF mode_is_sae_standard(mode) THEN 2 ELSE 3

is_query(frame)    == frame.can_id = QUERY_ADDRESS
\* Mutant: the base address is left out.
AboveBase(frame) == frame.can_id > RESPONSE_BASE /\ frame.can_id <= RESPONSE_END

is_response(frame) == frame.can_id >= RESPONSE_BASE /\ frame.can_id <= RESPONSE_END

-----------------------------------------------------------------------------
(***************************************************************************)
(* Making frames.                                                          *)
(***************************************************************************)

\* memcpy() of bytes to data[at], and memset() of the rest from data[at].
Write(data, at, bytes) ==
  [k \in 0..7 |-> IF k \in at..(at + Len(bytes) - 1) THEN bytes[k - at + 1] ELSE data[k]]

\* Mutant: no padding.
NoPadding(data, at) == data

Pad(data, at) == [k \in 0..7 |-> IF k >= at THEN PAD_VALUE ELSE data[k]]

\* What an assignment to an unsigned char stores.
ToByte(n) == n % 256

\* The PID as it is stored.  pid & 0xff00 is not shifted before it becomes a
\* byte.
PidField(big_endian, mode, pid) ==
  LET high == ToByte(256 * ((pid \div 256) % 256))
      low  == ToByte(pid)
  IN  IF mode_is_sae_standard(mode) THEN << low >>
      ELSE IF big_endian THEN << high, low >> ELSE << low, high >>

\* Modes of the standard have PIDs of one byte.
PidTooLarge(mode, pid) == mode_is_sae_standard(mode) /\ pid > 255

\* The header is written before the PID is checked.
make_can_query_noctx(big_endian, mode, pid, frame) ==
  LET start == mode_data_offset(mode) + 1
      first == Write(frame.data, 0, << mode_data_offset(mode) >>)
      whole == Pad(Write(first, 1, << mode >> \o PidField(big_endian, mode, pid)), start)
      query(data) == [can_id |-> QUERY_ADDRESS, can_dlc |-> OBD_II_DLC, data |-> data]
  IN  IF PidTooLarge(mode, pid)
        THEN [err |-> "YOBD_INVALID_PID", frame |-> query(first)]
        ELSE [err |-> "YOBD_OK", frame |-> query(whole)]

\* A payload that does not fit behind the header is copied past data[7], and
\* the size of the memset() wraps: the call does not come back ("overrun").
make_can_response_noctx(big_endian, mode, pid, payload, frame) ==
  LET start == mode_data_offset(mode) + 1
      first == Write(frame.data, 0, << mode_data_offset(mode) + Len(payload),
                                       ToByte(64 + mode) >>)
      whole == Pad(Write(first, 2, PidField(big_endian, mode, pid) \o payload),
                   start + Len(payload))
      response(data) == [can_id |-> RESPONSE_BASE, can_dlc |-> OBD_II_DLC, data |-> data]
  IN  CASE Len(payload) \notin 1..5 ->
             [err |-> "YOBD_INVALID_PARAMETER", frame |-> frame]
        [] Len(payload) \in 1..5 /\ PidTooLarge(mode, pid) ->
             [err |-> "YOBD_INVALID_PID", frame |-> response(first)]
        [] OTHER ->
             [err |-> IF start + Len(payload) > 8 THEN "overrun" ELSE "YOBD_OK",
              frame |-> response(whole)]

-----------------------------------------------------------------------------
(***************************************************************************)
(* Reading frames.                                                         *)
(***************************************************************************)

Failed(err) == [err |-> err]

\* Mutant: the bytes of a PID are always read in big-endian order.
ParseBigEndian(big_endian, frame) ==
  LET data == frame.data
      mode == IF is_response(frame) THEN data[1] - 64 ELSE data[1]
  IN  IF is_response(frame) /\ data[1] < 65
        THEN Failed("YOBD_INVALID_MODE")
        ELSE [err |-> "YOBD_OK", mode |-> mode,
              pid |-> IF mode_is_sae_standard(mode) THEN data[2]
                                                    ELSE 256 * data[2] + data[3],
              data_start |-> mode_data_offset(mode) + 1]

\* A response carries the mode of its query plus 0x40.
parse_mode_pid(big_endian, frame) ==
  LET data == frame.data
      mode == IF is_response(frame) THEN data[1] - 64 ELSE data[1]
      pid  == IF mode_is_sae_standard(mode) THEN data[2]
              ELSE IF big_endian THEN 256 * data[2] + data[3]
                                 ELSE 256 * data[3] + data[2]
  IN  IF is_response(frame) /\ data[1] < 65
        THEN Failed("YOBD_INVALID_MODE")
        ELSE [err |-> "YOBD_OK", mode |-> mode, pid |-> pid,
              data_start |-> mode_data_offset(mode) + 1]

parse_can_headers_noctx(big_endian, frame) ==
  CASE ~is_query(frame) /\ ~is_response(frame) -> Failed("YOBD_UNKNOWN_ID")
    [] (is_query(frame) \/ is_response(frame)) /\ frame.can_dlc # 8 ->
         Failed("YOBD_INVALID_DLC")
    [] OTHER -> parse_mode_pid(big_endian, frame)

\* The number two, three or four bytes make, the first of them counting most.
be16(a, b)       == 256 * a + b
be24(a, b, c)    == 256 * be16(a, b) + c
be32(a, b, c, d) == 256 * be24(a, b, c) + d

\* The four bytes an expression can read.
Bytes(data, at) == [k \in 1..4 |-> data[at + k - 1]]

\* Mutant: the byte order is not looked at.
NopBigEndian(big_endian, can_bytes, bytes) ==
  CASE can_bytes = 1 -> bytes[1]
    [] can_bytes = 2 -> be16(bytes[1], bytes[2])
    [] can_bytes = 3 -> be24(bytes[1], bytes[2], bytes[3])
    [] can_bytes = 4 -> be32(bytes[1], bytes[2], bytes[3], bytes[4])

\* nop_eval(): the payload as an unsigned number; bytes is what data points to.
nop_eval(big_endian, can_bytes, bytes) ==
  CASE can_bytes = 1 -> bytes[1]
    [] can_bytes = 2 -> IF big_endian THEN be16(bytes[1], bytes[2])
                                      ELSE be16(bytes[2], bytes[1])
    [] can_bytes = 3 -> IF big_endian THEN be24(bytes[1], bytes[2], bytes[3])
                                      ELSE be24(bytes[3], bytes[1], bytes[1])
    [] can_bytes = 4 -> IF big_endian THEN be32(bytes[1], bytes[2], bytes[3], bytes[4])
                                      ELSE be32(bytes[4], bytes[3], bytes[2], bytes[1])

\* The data of an expression: a formula, or none (the pointer is NULL).
NoProgram == << >>

Value(val) == [err |-> "YOBD_OK", val |-> val]

\* stack_eval() reads the program through the pointer; then an assertion fails,
\* or the value is what the formula makes of its bytes.
stack_eval(pid_type, data, bytes) ==
  IF data = NoProgram THEN Failed("undefined")
  ELSE IF ~Evaluates(data[1], pid_type, bytes) THEN Failed("xassert")
  ELSE Value([formula |-> data[1], type |-> pid_type, over |-> bytes])

\* eval_expr(): a four-byte "nop" of a float PID is a bit pattern.  The errors
\* are the ends of the process in stack_eval().
eval_expr(big_endian, pid_ctx, bytes) ==
  CASE pid_ctx.expr.type = "EXPR_NOP" /\ ~(pid_ctx.can_bytes = 4 /\ pid_ctx.pid_type = "float") ->
         Value([num |-> nop_eval(big_endian, pid_ctx.can_bytes, bytes)])
    [] pid_ctx.expr.type = "EXPR_NOP" /\ pid_ctx.can_bytes = 4 /\ pid_ctx.pid_type = "float" ->
         Value([bits |-> nop_eval(big_endian, 4, bytes)])
    [] pid_ctx.expr.type = "EXPR_STACK" ->
         stack_eval(pid_ctx.pid_type, pid_ctx.expr.data, bytes)

\* The value is named with its unit conversion.
Converted(got, convert) ==
  IF got.err = "YOBD_OK" THEN [err |-> "YOBD_OK", convert |-> convert, val |-> got.val] ELSE got

\* Mutant: the length of the data is not checked.
ParseAnyLength(ctx, frame) ==
  LET head == parse_mode_pid(ctx.big_endian, frame)
      key  == get_modepid(head.mode, head.pid)
      map  == ctx.modepid_map
  IN  IF ~is_response(frame) THEN Failed("YOBD_UNKNOWN_ID")
      ELSE IF frame.can_dlc # 8 THEN Failed("YOBD_INVALID_DLC")
      ELSE IF head.err # "YOBD_OK" THEN head
      ELSE IF key \notin DOMAIN map THEN Failed("YOBD_UNKNOWN_MODE_PID")
      ELSE Converted(eval_expr(ctx.big_endian, map[key], Bytes(frame.data, head.data_start)),
                     map[key].convert)

\* The checks in their order.
parse_can_response(ctx, frame) ==
  LET head == parse_mode_pid(ctx.big_endian, frame)
      key  == get_modepid(head.mode, head.pid)
      map  == ctx.modepid_map
  IN  IF ~is_response(frame) THEN Failed("YOBD_UNKNOWN_ID")
      ELSE IF frame.can_dlc # 8 THEN Failed("YOBD_INVALID_DLC")
      ELSE IF head.err # "YOBD_OK" THEN head
      ELSE IF key \notin DOMAIN map THEN Failed("YOBD_UNKNOWN_MODE_PID")
      ELSE IF frame.data[0] # mode_data_offset(head.mode) + map[key].can_bytes
        THEN Failed("YOBD_INVALID_DATA_BYTES")
      ELSE Converted(eval_expr(ctx.big_endian, map[key], Bytes(frame.data, head.data_start)),
                     map[key].convert)
-----------------------------------------------------------------------------
(***************************************************************************)
(* What the bytes of an answer mean, without the code.                     *)
(***************************************************************************)
\* The powers of 256, and a number of up to four bytes: each byte counts by
\* its place in the byte order.
Power == << 1, 256, 65536, 16777216 >>

Weighed(big_endian, payload) ==
  LET place(n) == IF big_endian THEN Len(payload) + 1 - n ELSE n
      part(n)  == IF n <= Len(payload) THEN payload[n] * Power[place(n)] ELSE 0
  IN  part(1) + part(2) + part(3) + part(4)

Padded(payload) ==
  [n \in 1..4 |-> IF n \in DOMAIN payload THEN payload[n] ELSE PAD_VALUE]

\* The number is the unsigned one, whatever the PID's type is.
Meaning(big_endian, pid_ctx, payload) ==
  IF pid_ctx.expr.type = "EXPR_STACK"
    THEN [formula |-> pid_ctx.expr.data[1], type |-> pid_ctx.pid_type, over |-> Padded(payload)]
  ELSE IF pid_ctx.pid_type = "float" /\ pid_ctx.can_bytes = 4
    THEN [bits |-> Weighed(big_endian, payload)]
    ELSE [num |-> Weighed(big_endian, payload)]

\* A formula that is missing, or that cannot be evaluated over these bytes,
\* has no value: the process ends there.
Stops(pid_ctx, payload) ==
  /\ pid_ctx.expr.type = "EXPR_STACK"
  /\ \/ pid_ctx.expr.data = NoProgram
     \/ ~Evaluates(pid_ctx.expr.data[1], pid_ctx.pid_type, Padded(payload))
=============================================================================
