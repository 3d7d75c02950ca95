------------------------------- MODULE Commands -------------------------------
(***************************************************************************)
(* commands.c in its normal mode: the badge collects the bytes of a        *)
(* command, executes it and answers.  A command is                         *)
(*     length, payload (type and data), xor of the payload                 *)
(* and a response has the same form.  The length is one byte, which is     *)
(* what makes the boundaries here interesting: bytes are numbers below     *)
(* ByteMod (256 in the code), and everything the code keeps in a uint8_t   *)
(* is taken modulo ByteMod.                                                *)
(*                                                                         *)
(* cmd_resp, cmd_resp_len and cmd_resp_buf are set and consumed within one *)
(* step of app_command_func's loop, as is cmd_overflow: they are not       *)
(* state.  Of cmd_buf and cmd_buf_idx the module keeps the bytes received  *)
(* since the last reset.                                                   *)
(***************************************************************************)
EXTENDS Integers, SequencesExt

CONSTANTS
    ByteMod,     \* values of a byte
    ByteXor(_, _), \* the xor of two bytes
    Wire         \* what the peripherals deliver: bytes read, buttons pressed

Byte         == 0 .. ByteMod - 1
CMD_BUF_SIZE == ByteMod + 1

ASSUME CommandsAssumption ==
    /\ ByteMod \in Nat /\ ByteMod >= 8
    /\ \A a, b \in Byte : ByteXor(a, b) \in Byte
    /\ Wire \subseteq Byte /\ Wire # {}

VARIABLES
    app,      \* "command" while app_command_func runs, else "menu"
    cmd_buf,  \* the bytes received since cmd_buf_reset
    rx, tx,   \* the USB serial line: bytes to the badge, bytes from it
    log       \* history: payloads handled since the client's last call, with
              \* the answers

badgeVars == <<app, cmd_buf, rx, tx, log>>

(* cmd_type_t and cmd_resp_t *)
TYPE_RESET == 0
TYPE_UART  == 1
TYPE_I2C   == 2
TYPE_SPI   == 3
TYPE_LED   == 5
TYPE_LCD   == 6
TYPE_BTN   == 7

RESP_RESET       == 1
RESP_OK          == 2
RESP_INVALID_CMD == 3
RESP_OVERFLOW    == 4
RESP_CRC_ERR     == 5
RESP_EXEC_ERR    == 6

(* cmd_crc *)
Crc(bytes) ==
    LET crc[i \in 0 .. Len(bytes)] == IF i = 0 THEN 0 ELSE ByteXor(crc[i - 1], bytes[i])
    IN  crc[Len(bytes)]

BadgeTypeOK ==
    /\ app \in {"menu", "command"}
    /\ cmd_buf \in Seq(Byte) /\ Len(cmd_buf) < CMD_BUF_SIZE
    /\ rx \in Seq(Byte) /\ tx \in Seq(Byte)

BadgeInit == app = "menu" /\ cmd_buf = <<>> /\ rx = <<>> /\ tx = <<>> /\ log = <<>>

-----------------------------------------------------------------------------
(* Responses *)

(* What cmd_resp_init and cmd_resp_writen leave in cmd_resp_buf: its        *)
(* length field wraps                                                      *)
Response(type, data) ==
    [type |-> type, data |-> data, len |-> (1 + Len(data)) % ByteMod]

(* cmd_fix_resp_crc and cmd_response: what is sent for a response.  The     *)
(* number of bytes to send, cmd_resp_len, wraps as well.                   *)
Sent(resp) ==
    LET payload == SubSeq(<<resp.type>> \o resp.data, 1, resp.len)
    IN  SubSeq(<<resp.len>> \o payload \o <<Crc(payload)>>,
               1, (resp.len + 2) % ByteMod)

WireData(n) == {Response(RESP_OK, data) : data \in [1 .. n -> Wire]}

Done    == {Response(RESP_OK, <<>>)}
Invalid == {Response(RESP_INVALID_CMD, <<>>)}
ExecErr == {Response(RESP_EXEC_ERR, <<>>)}

(* A byte of the payload.  A handler reads its parameters unchecked: what  *)
(* a payload does not hold is whatever an earlier command left in cmd_buf. *)
Param(p, i) == IF i <= Len(p) THEN {p[i]} ELSE Byte

(* cmd_uart returns the bytes it finds: the one the UART holds, and one    *)
(* that arrives while that is stored.  No third: a byte takes the line     *)
(* longer than the loop takes for two.                                     *)
UartBytes     == 2
UartResponses == UNION {WireData(n) : n \in 0 .. UartBytes}

(* cmd_i2c: CLOCK may be out of range; a read returns the bytes asked for; *)
(* the bus may fail                                                        *)
I2cResponses(p) ==
    UNION { CASE op = 2 -> Done \cup ExecErr
              [] op # 2 /\ alen > 4 -> Invalid
              [] op = 0 /\ alen <= 4 ->
                    ExecErr \cup UNION {WireData(n) : n \in Param(p, 5 + alen)}
              [] op = 1 /\ alen <= 4 -> Done \cup ExecErr
              [] OTHER -> Invalid
            : op \in Param(p, 2), alen \in Param(p, 4) }

(* cmd_spi: CONFIG, or TRANSFER of as many bytes as its parameter says.    *)
(* cmd_resp_write stores each at the incremented length: the one that      *)
(* makes the length wrap becomes the length.                               *)
Stored(r) ==
    IF Len(r.data) = ByteMod - 1 THEN [r EXCEPT !.len = Last(r.data)] ELSE r

SpiResponses(p) ==
    UNION { CASE op = 0 -> Done
              [] op = 1 -> {Stored(r) : r \in UNION {WireData(n) : n \in Param(p, 3)}}
              [] OTHER -> Invalid
            : op \in Param(p, 2) }

(* cmd_led, cmd_lcd, cmd_btn *)
Up(p, most) == UNION {IF op <= most THEN Done ELSE Invalid : op \in Param(p, 2)}
BtnResponses == WireData(1)

(* What the handler of a payload may answer *)
Responses(p) ==
    CASE p[1] = TYPE_UART -> UartResponses
      [] p[1] = TYPE_I2C  -> I2cResponses(p)
      [] p[1] = TYPE_SPI  -> SpiResponses(p)
      [] p[1] = TYPE_LED  -> Up(p, 1)
      [] p[1] = TYPE_LCD  -> Up(p, 3)
      [] p[1] = TYPE_BTN  -> BtnResponses
      [] OTHER -> Invalid

-----------------------------------------------------------------------------
(* cmd_new_data and cmd_execute_normal, for the byte b *)

(* Mutants: the limit of the buffer missed by one; a command complete one  *)
(* byte late                                                               *)
OverflownEarly(buf) == Len(buf) = CMD_BUF_SIZE - 1
CompleteLate(buf)   == Len(buf) > buf[1] + 2

Overflown(buf)  == Len(buf) = CMD_BUF_SIZE
ResetAsked(buf) == buf = <<TYPE_RESET>>
Complete(buf)   == Len(buf) >= buf[1] + 2
Payload(buf)    == SubSeq(buf, 2, buf[1] + 1)
CrcMatches(buf) == Crc(Payload(buf)) = buf[buf[1] + 2]
Handled(buf) ==
    ~Overflown(buf) /\ ~ResetAsked(buf) /\ Complete(buf) /\ CrcMatches(buf)

(* The answers to the bytes received; none while the command is incomplete *)
Answers(buf) ==
    IF Overflown(buf) THEN {Response(RESP_OVERFLOW, <<>>)}
    ELSE IF ResetAsked(buf) THEN {Response(RESP_RESET, <<>>)}
    ELSE IF ~Complete(buf) THEN {}
    ELSE IF ~CrcMatches(buf) THEN {Response(RESP_CRC_ERR, <<>>)}
    ELSE Responses(Payload(buf))

(* One turn of app_command_func's loop that finds a byte on the line: it   *)
(* is added to the buffer, and the command executed if that completes it.  *)
Take ==
    /\ app = "command" /\ rx # <<>>
    /\ rx' = Tail(rx)
    /\ LET buf == Append(cmd_buf, Head(rx))
       IN  \/ /\ Answers(buf) = {}
              /\ cmd_buf' = buf
              /\ UNCHANGED <<tx, log>>
           \/ \E r \in Answers(buf) :
                /\ cmd_buf' = <<>>
                /\ tx' = tx \o Sent(r)
                /\ log' = IF Handled(buf) THEN Append(log, [payload |-> Payload(buf), answer |-> r])
                                         ELSE log
    /\ UNCHANGED app

(* app_command_func is entered, which resets the buffer, and left *)
Enter ==
    /\ app = "menu"
    /\ app' = "command" /\ cmd_buf' = <<>>
    /\ UNCHANGED <<rx, tx, log>>

Leave ==
    /\ app = "command"
    /\ app' = "menu"
    /\ UNCHANGED <<cmd_buf, rx, tx, log>>
=============================================================================
