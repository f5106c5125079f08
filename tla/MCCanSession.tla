---------------------------- MODULE MCCanSession ----------------------------
(***************************************************************************)
(* Instances of CanSession for TLC.                                        *)
(***************************************************************************)
EXTENDS CanSession, TLC

Pid(can_bytes, pid_type, expr, convert) ==
  [can_bytes |-> can_bytes, pid_type |-> pid_type, expr |-> expr, convert |-> convert]

Nop           == [type |-> "EXPR_NOP", data |-> NoProgram]
Formula(text) == [type |-> "EXPR_STACK", data |-> << text >>]

\* "1 / A" has no value over 0.
MCEvaluates(formula, pid_type, bytes) == formula = "1 / A" => bytes[1] # 0

\* The same PID in two modes as a number and as a bit pattern, and a shorter
\* PID whose formula some data bytes cannot be put into.
MCSchema ==
     (<< 1, 12 >>  :> Pid(4, "uint32", Nop, "rpm_to_rad_per_s"))
  @@ (<< 1, 13 >>  :> Pid(1, "uint8", Formula("1 / A"), "km_per_h_to_m_per_s"))
  @@ (<< 34, 12 >> :> Pid(4, "float", Nop, "identity"))

\* 0x10c does not fit a standard mode: making that query fails half-way.
MCRequests == DOMAIN MCSchema \cup {<< 1, 268 >>}

MCPayloads == {<< 0 >>, << 77 >>, << 1, 2, 3, 4 >>}

MCFrame(id, dlc, bytes) ==
  [can_id |-> id, can_dlc |-> dlc, data |-> Write([k \in 0..7 |-> PAD_VALUE], 0, bytes)]

\* A short frame, a response mode below 0x41, an unknown PID, a response of
\* the wrong length.
MCForeign ==
  {MCFrame(RESPONSE_END, 7, << 6, 65, 12, 9, 9, 9, 9 >>),
   MCFrame(RESPONSE_BASE, 8, << 6, 1, 12, 9, 9, 9, 9 >>),
   MCFrame(RESPONSE_END, 8, << 6, 65, 14, 9, 9, 9, 9 >>),
   MCFrame(RESPONSE_END, 8, << 3, 65, 12, 9, 9 >>)}

MCNoForeign == {}

\* Two PIDs of one mode with the same low byte: 0x04 and 0x104.
MCTwoBytePids ==
     (<< 34, 4 >>   :> Pid(1, "uint8", Nop, "identity"))
  @@ (<< 34, 260 >> :> Pid(1, "uint8", Nop, "celsius_to_kelvin"))

\* A three-byte number that is passed through.
MCTwoByteRequests == {<< 34, 260 >>}

MCThreeBytes == << 1, 16 >> :> Pid(3, "uint32", Nop, "identity")

MCThreeRequests == {<< 1, 16 >>}

MCOnePayload == {<< 77 >>}

MCThreePayload == {<< 1, 2, 3 >>}

MCFivePayload == {<< 1, 2, 3, 4, 5 >>}
-----------------------------------------------------------------------------
\* The instance with foreign frames is within the limits of the theorems.
ASSUME SessionWithinLimits ==
  Foreign = MCForeign =>
    OneBytePids /\ AnswerableModes /\ ReadableNumbers /\ NoOtherTraffic
=============================================================================
