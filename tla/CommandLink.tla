----------------------------- MODULE CommandLink -----------------------------
(***************************************************************************)
(* The Python client (kicon_badge.py) and the command interface of         *)
(* Commands over one serial line.                                          *)
(*                                                                         *)
(* A read of the client returns when the bytes it asked for are there, or  *)
(* with fewer after half a second.  The badge answers faster than that     *)
(* unless the surroundings allow it not to.                                *)
(***************************************************************************)
EXTENDS Commands

CONSTANTS
    Calls,      \* payloads of the commands the client makes
    Leftovers,  \* what a client killed while it writes may have sent
    Env         \* what the surroundings may do, a subset of Behaviours

(* "slow":   a read of the client times out before the badge has answered  *)
(*           an I2C command (255 bytes at 3 kHz take three quarters of a   *)
(*           second, more if the device stretches the clock);              *)
(* "absent": the user is not in the command interface, or leaves it, while *)
(*           the client is at work.                                        *)
Behaviours == {"slow", "absent"}

ASSUME LinkAssumption ==
    /\ \A p \in Calls : p \in Seq(Byte) /\ p # <<>> /\ Len(p) \in Byte
    /\ Leftovers \subseteq Seq(Byte)
    /\ Env \subseteq Behaviours

VARIABLES
    c,       \* where the client is
    trials,  \* `trials` of init
    call,    \* payload of the command last written
    need,    \* bytes _get_resp still asks for
    got      \* what the last call returned

clientVars == <<c, trials, call, need, got>>
vars == <<badgeVars, clientVars>>

(* Between calls: never initialised, initialised, returned, raised *)
Resting == {"new", "ready", "ok", "raised"}

TypeOK ==
    /\ BadgeTypeOK
    /\ c \in Resting \cup {"discard", "ack", "head", "body"}
    /\ trials \in 0 .. ByteMod
    /\ call \in Calls \cup {<<>>} /\ need \in 0 .. ByteMod
    /\ got \in Seq(Byte)

Init ==
    /\ BadgeInit
    /\ c = "new" /\ trials = 0 /\ call = <<>> /\ need = 0 /\ got = <<>>

-----------------------------------------------------------------------------
(* A read of n bytes, and what it returns *)
Quiet == rx = <<>> \/ app = "menu"
Arrived(n) == SubSeq(tx, 1, Min({n, Len(tx)}))

LateAnswer == "slow" \in Env /\ call # <<>> /\ call[1] = TYPE_I2C

Read(n) ==
    /\ Len(tx) >= n \/ Quiet \/ LateAnswer
    /\ tx' = SubSeq(tx, Len(Arrived(n)) + 1, Len(tx))

Write(bytes) == rx' = rx \o bytes

ResetResp == Sent(Response(RESP_RESET, <<>>))

(* init: ask for a reset, drop what is there, and ask again until the      *)
(* answer to a reset is read.  A new client opens the port first, which    *)
(* drops what the badge has sent, and takes longer over it than the badge  *)
(* over the bytes the last client sent.                                    *)
InitCall ==
    /\ c \in Resting
    /\ app = "command" \/ "absent" \in Env
    /\ IF c = "new" THEN Quiet /\ tx' = <<>>
                    ELSE UNCHANGED tx
    /\ Write(<<TYPE_RESET>>)
    /\ c' = "discard" /\ trials' = 0 /\ got' = <<>> /\ call' = <<>>
    /\ log' = <<>>
    /\ UNCHANGED <<app, cmd_buf, need>>

InitDiscard ==
    /\ c = "discard"
    /\ Read(Len(ResetResp))
    /\ c' = "ack"
    /\ UNCHANGED <<app, cmd_buf, rx, log, trials, call, need, got>>

(* Mutant: init waits for the answer without asking again *)
InitAckWaits ==
    /\ c = "ack"
    /\ Read(Len(ResetResp))
    /\ IF Arrived(Len(ResetResp)) = ResetResp
         THEN c' = "ready" /\ UNCHANGED trials
         ELSE /\ trials' = trials + 1
              /\ c' = IF trials' = ByteMod THEN "raised" ELSE "ack"
    /\ UNCHANGED <<app, cmd_buf, rx, log, call, need, got>>

InitAck ==
    /\ c = "ack"
    /\ Read(Len(ResetResp))
    /\ IF Arrived(Len(ResetResp)) = ResetResp
         THEN c' = "ready" /\ UNCHANGED <<rx, trials>>
         ELSE /\ Write(<<TYPE_RESET>>)
              /\ trials' = trials + 1
              /\ c' = IF trials' = ByteMod THEN "raised" ELSE "ack"
    /\ UNCHANGED <<app, cmd_buf, log, call, need, got>>

(* A command: _make_cmd, write, _get_resp *)
Frame(p) == <<Len(p)>> \o p \o <<Crc(p)>>

Call ==
    /\ c \in Resting \ {"new"}
    /\ app = "command" \/ "absent" \in Env
    /\ call' \in Calls
    /\ Write(Frame(call'))
    /\ c' = "head" /\ got' = <<>> /\ log' = <<>>
    /\ UNCHANGED <<app, cmd_buf, tx, trials, need>>

(* Mutants: the length byte itself is counted among the bytes that follow  *)
(* it; a read that returns nothing is made again                           *)
GetHeadCounted ==
    /\ c = "head"
    /\ Read(1)
    /\ IF Arrived(1) = <<>>
         THEN c' = "raised" /\ UNCHANGED need
         ELSE c' = "body" /\ need' = Head(tx) + 2
    /\ UNCHANGED <<app, cmd_buf, rx, log, trials, call, got>>

GetHeadAgain ==
    /\ c = "head"
    /\ Read(1)
    /\ IF Arrived(1) = <<>>
         THEN UNCHANGED <<c, need>>
         ELSE c' = "body" /\ need' = Head(tx) + 1
    /\ UNCHANGED <<app, cmd_buf, rx, log, trials, call, got>>

GetHead ==
    /\ c = "head"
    /\ Read(1)
    /\ IF Arrived(1) = <<>>
         THEN c' = "raised" /\ UNCHANGED need
         ELSE c' = "body" /\ need' = Head(tx) + 1
    /\ UNCHANGED <<app, cmd_buf, rx, log, trials, call, got>>

(* Mutant: the type of the answer is not looked at *)
AcceptedAny(r) == r # <<>> /\ Crc(Front(r)) = Last(r)

Accepted(r) == r # <<>> /\ Crc(Front(r)) = Last(r) /\ r[1] = RESP_OK

GetBody ==
    /\ c = "body"
    /\ Read(need)
    /\ IF Accepted(Arrived(need))
         THEN c' = "ok" /\ got' = Tail(Front(Arrived(need)))
         ELSE c' = "raised" /\ UNCHANGED got
    /\ need' = 0
    /\ UNCHANGED <<app, cmd_buf, rx, log, trials, call>>

(* The client is killed, while it writes a command or elsewhere *)
Kill ==
    /\ c # "new"
    /\ app = "command" \/ "absent" \in Env
    /\ \/ c \in Resting /\ \E sent \in Leftovers : Write(sent)
       \/ UNCHANGED rx
    /\ c' = "new" /\ need' = 0 /\ call' = <<>> /\ got' = <<>>
    /\ log' = <<>>
    /\ UNCHANGED <<app, cmd_buf, tx, trials>>

Badge  == Take /\ UNCHANGED clientVars
Client == InitDiscard \/ InitAck \/ GetHead \/ GetBody
User   ==
    /\ \/ Enter
       \/ /\ Leave
          /\ "absent" \in Env \/ (c \in Resting /\ rx = <<>>)
    /\ UNCHANGED clientVars
Next == Badge \/ Client \/ InitCall \/ Call \/ Kill \/ User

Spec == Init /\ [][Next]_vars

(* The loop of app_command_func and the client's code go on by themselves *)
FairSpec == Spec /\ WF_vars(Badge) /\ WF_vars(Client)

-----------------------------------------------------------------------------
(* Properties *)

(* A call that returns has been executed, once, and returns what the badge *)
(* answered to it: no answer to an earlier command or reset is taken for   *)
(* the answer to this one.                                                 *)
CallAnswered ==
    c = "ok" => log = <<[payload |-> call, answer |-> Response(RESP_OK, got)]>>

(* kicon_badge.py of i2c_read: "@return Registers contents."  What a call   *)
(* returns was answered by the badge to this very payload.                 *)
NoStaleAnswer ==
    c = "ok" => \E i \in DOMAIN log : log[i].payload = call /\ log[i].answer.data = got

(* Between two calls nothing is left on the line or in cmd_buf that the     *)
(* next one could take for its own, even after a call that raised.         *)
LineClean ==
    c \in {"ready", "ok", "raised"} /\ call # <<>>
        => rx = <<>> /\ tx = <<>> /\ (app = "command" => cmd_buf = <<>>)

(* kicon_badge.py of init: "Initializes the badge to a valid state.        *)
(* Should be called whenever the badge state is unknown."                  *)
InitCleans ==
    c = "ready" => rx = <<>> /\ tx = <<>> /\ (app = "command" => cmd_buf = <<>>)

(* A call raises only when the badge refused it, or when its command or    *)
(* its answer does not fit in a byte's worth of length: a payload of 255   *)
(* bytes, an answer of 254 or more.                                        *)
RaisesForAReason ==
    c = "raised" /\ call # <<>> =>
        \/ Len(call) = ByteMod - 1 /\ log = <<>>
        \/ /\ Len(log) = 1 /\ log[1].payload = call
           /\ \/ log[1].answer.type # RESP_OK
              \/ Len(log[1].answer.data) + 1 >= ByteMod - 2

(* commands.h: "keep sending 0x00 until CMD_RESET_ACK is received": the     *)
(* client's init comes to an end, and with success.                        *)
Resyncs == c = "discard" ~> c \in {"ready", "new"}

(* Every call returns or raises. *)
CallEnds == c = "head" ~> c \in Resting
=============================================================================
