---------------------------- MODULE MCCommandLink ----------------------------
(* Instances of CommandLink for TLC: bytes of three bits *)
EXTENDS CommandLink, Bitwise

XorTable == [a, b \in Byte |-> a ^^ b]
XorBits(a, b) == XorTable[a, b]

I2cRead(n) == <<TYPE_I2C, 0, 3, 0, n>>

(* One command of every type, I2C reads of every length, a command of an   *)
(* unknown type, and a payload that fills the length byte                  *)
AllCalls ==
    {I2cRead(n) : n \in 1 .. ByteMod - 1} \cup
    { <<TYPE_I2C, 1, 3, 0, 1, 4>>, <<TYPE_I2C, 2, 0, 4>>, <<TYPE_UART, 3>>,
      <<TYPE_SPI, 1, 2, 4, 4>>, <<TYPE_LED, 0, 0, 1>>, <<TYPE_LCD, 1>>,
      <<TYPE_BTN>>, <<0, 1>>, <<TYPE_UART, 3, 3, 3, 3, 3, 3>> }

(* What a client killed in the middle of one of these calls has sent *)
Interrupted(calls) == UNION {Prefixes(Frame(p)) : p \in calls}

(* Commands whose answers are as long as the answer to a reset *)
Orders == {p \in AllCalls : p[1] \in {0, TYPE_LED, TYPE_LCD}}
             \cup {<<TYPE_I2C, 1, 3, 0, 1, 4>>, <<TYPE_I2C, 2, 0, 4>>}
MidOrder   == Interrupted(Orders)
MidCommand == Interrupted(AllCalls)

FewCalls == {I2cRead(2), <<TYPE_LED, 0, 0, 1>>}

NoEnv == {}
Slow == {"slow"}
=============================================================================
