------------------------------- MODULE Scout -------------------------------
(***************************************************************************)
(* The application controlled Scout robots: the sketches                   *)
(* scout_4wd/.../scout_appControl.ino and scout_2wd/.../scout_appControl   *)
(* .ino, on top of what WiFiUDP promises (Mailbox).  The app's datagrams   *)
(* may be lost, repeated or reordered on the way: any of them arrives at   *)
(* any time the sketch lets the network run.                               *)
(***************************************************************************)
EXTENDS Naturals, Sequences

CONSTANTS Command,    \* the commands the app sends, as strings
          Chars,      \* the characters of each
          Capacity    \* datagrams the socket keeps

(* A text and its NUL fit the 255 characters of incomingPacket.            *)
ASSUME ScoutAssumption == /\ Capacity \in Nat
                          /\ \A c \in Command : /\ Chars[c] \in Seq(STRING)
                                               /\ Len(Chars[c]) < 255

VARIABLES sketch,     \* which of the two sketches this is; it never changes
          open, box, taken, offset, got,   \* the socket, see Mailbox
          pc,         \* where loop() is
          incomingPacket,   \* the text of the last datagram
          cmdCode,    \* the command being executed (4wd)
          pins,       \* the duty of each motor pin
          writes,     \* pin writes that are still to be made, in order
          told        \* history: the last command the robot was given

Udp == INSTANCE Mailbox WITH Packet <- Command, Bytes <- Chars, Reads <- {255}

socket == <<open, box, taken, offset, got>>
vars == <<sketch, open, box, taken, offset, got, pc, incomingPacket, cmdCode, pins, writes, told>>

Pin == {"M1_PWM", "M1_DIR", "M2_PWM", "M2_DIR"}

Idle == /\ sketch \in {"4wd", "2wd"}
        /\ pc = "setup"
        /\ incomingPacket = <<>>
        /\ cmdCode = 0
        /\ pins = [pin \in Pin |-> 0]
        /\ writes = <<>>
        /\ told = "S"
Init == Idle /\ Udp!Init

-----------------------------------------------------------------------------
(* The pins are written one after the other, those of motor 1 first.       *)
Wheels(pwm1, dir1, pwm2, dir2) == << <<"M1_PWM", pwm1>>, <<"M1_DIR", dir1>>,
                                     <<"M2_PWM", pwm2>>, <<"M2_DIR", dir2>> >>

Slower(pwmValue) == (pwmValue * 9) \div 10

cruise_PwmOnly == << <<"M1_PWM", 0>>, <<"M2_PWM", 0>> >>

cruise == Wheels(0, 0, 0, 0)
forward(pwmValue) == Wheels(pwmValue, 0, pwmValue, 0)
backward(pwmValue) == Wheels(0, pwmValue, 0, pwmValue)
left(pwmValue) == Wheels(Slower(pwmValue), 0, pwmValue, 0)
right(pwmValue) == Wheels(pwmValue, 0, Slower(pwmValue), 0)
left_back(pwmValue) == Wheels(0, Slower(pwmValue), 0, pwmValue)
right_back(pwmValue) == Wheels(0, pwmValue, 0, Slower(pwmValue))

left2(pwmValue) == Wheels(0, 0, pwmValue, 0)
right2(pwmValue) == Wheels(pwmValue, 0, 0, 0)

(* 4wd: the whole text selects the code, an unknown text leaves it alone.  *)
Codes == << <<"F">>, <<"B">>, <<"L">>, <<"R">>, <<"L", "F">>, <<"R", "F">>, <<"L", "B">>, <<"R", "B">> >>

CodeOf_Stop(text) == IF \E i \in DOMAIN Codes : Codes[i] = text
                     THEN CHOOSE i \in DOMAIN Codes : Codes[i] = text
                     ELSE 0

CodeOf(text) == IF text = <<"S">> THEN 0
                ELSE IF \E i \in DOMAIN Codes : Codes[i] = text
                     THEN CHOOSE i \in DOMAIN Codes : Codes[i] = text
                     ELSE cmdCode

Switch4(code) == CASE code = 0 -> cruise
                   [] code = 1 -> forward(255)
                   [] code = 2 -> backward(224)
                   [] code = 3 -> left(200)
                   [] code = 4 -> right(200)
                   [] code = 5 -> left(224)
                   [] code = 6 -> right(224)
                   [] code = 7 -> left_back(200)
                   [] code = 8 -> right_back(200)

(* 2wd: its first character selects the case; there may be none.           *)
Switch2(char) == CASE char = "F" -> forward(250)
                   [] char = "S" -> cruise
                   [] char = "L" -> left2(225)
                   [] char = "R" -> right2(255)
                   [] char = "B" -> backward(250)
                   [] OTHER -> <<>>

-----------------------------------------------------------------------------
(* The calls of the socket are parameters of the actions that make them.   *)

(* setup(): whatever it does before, begin() comes last.                   *)
SetupBy(begin) == /\ pc = "setup"
                  /\ begin
                  /\ pc' = "parse"
                  /\ UNCHANGED <<sketch, incomingPacket, cmdCode, pins, writes, told>>

(* The network runs in delay() and between two calls of loop().            *)
ArriveBy(recv) == /\ pc = "end"
                  /\ recv
                  /\ UNCHANGED <<sketch, pc, incomingPacket, cmdCode, pins, writes, told>>

(* receiveUdpPacket(): the first half.                                     *)
ParseBy(parsePacket) ==
  /\ pc = "parse"
  /\ parsePacket
  /\ IF got'.n > 0 THEN pc' = "read" /\ UNCHANGED writes
     ELSE pc' = "cruise" /\ writes' = cruise
  /\ UNCHANGED <<sketch, incomingPacket, cmdCode, pins, told>>

(* What a text tells the robot to do, see EndsAsTold.                      *)
Spelling == [S |-> <<"S">>, F |-> <<"F">>, B |-> <<"B">>, L |-> <<"L">>, R |-> <<"R">>,
             LF |-> <<"L", "F">>, RF |-> <<"R", "F">>, LB |-> <<"L", "B">>, RB |-> <<"R", "B">>]
Known == DOMAIN Spelling

Meant(text) == IF sketch = "2wd"
               THEN IF Head(text) \in {"F", "B", "L", "R"} THEN Head(text) ELSE "S"
               ELSE IF \E c \in Known : Spelling[c] = text
                    THEN CHOOSE c \in Known : Spelling[c] = text
                    ELSE told

(* receiveUdpPacket(): the second half; a longer text is cut by its NUL.   *)
ReceiveBy(read) ==
  /\ pc = "read"
  /\ read
  /\ IF got'.n > 0
     THEN incomingPacket' = got'.bytes /\ told' = Meant(got'.bytes)
     ELSE UNCHANGED <<incomingPacket, told>>
  /\ pc' = "cruise"
  /\ writes' = cruise
  /\ UNCHANGED <<sketch, cmdCode, pins>>

Setup == SetupBy(Udp!Open(TRUE))
Arrive(c) == ArriveBy(Udp!Arrive(c))
ParsePacket == ParseBy(Udp!Parse)
Receive == ReceiveBy(Udp!Read(255))

(* One digitalWrite() or analogWrite(): how the waveform of the pin turns  *)
(* to the new duty is left out.                                            *)
Write == /\ writes # <<>>
         /\ pins' = [pins EXCEPT ![Head(writes)[1]] = Head(writes)[2]]
         /\ writes' = Tail(writes)
         /\ UNCHANGED <<sketch, socket, pc, incomingPacket, cmdCode, told>>

(* The rest of loop() after the first cruise(): the switch.                *)
Decide == /\ pc = "cruise" /\ writes = <<>>
          /\ IF incomingPacket = <<>>
             THEN UNCHANGED <<cmdCode, writes>>
             ELSE IF sketch = "4wd"
             THEN /\ cmdCode' = CodeOf(incomingPacket)
                  /\ writes' = Switch4(cmdCode')
             ELSE /\ writes' = Switch2(Head(incomingPacket))
                  /\ UNCHANGED cmdCode
          /\ pc' = "act"
          /\ UNCHANGED <<sketch, socket, incomingPacket, pins, told>>

Acted == /\ pc = "act" /\ writes = <<>>
         /\ pc' = "end"
         /\ UNCHANGED <<sketch, socket, incomingPacket, cmdCode, pins, writes, told>>

Again == /\ pc = "end"
         /\ pc' = "parse"
         /\ UNCHANGED <<sketch, socket, incomingPacket, cmdCode, pins, writes, told>>

Loop == Setup \/ ParsePacket \/ Receive \/ Write \/ Decide \/ Acted \/ Again

Next == Loop \/ \E c \in Command : Arrive(c)

(* The core calls loop() for ever and none of its calls blocks.            *)
Spec == Init /\ [][Next]_vars /\ WF_vars(Loop)

-----------------------------------------------------------------------------
(* The values of the variables: the text is that of a command, and         *)
(* incomingPacket, which nothing clears, never runs past one.              *)
TypeOK == /\ sketch \in {"4wd", "2wd"}
          /\ open \in BOOLEAN /\ taken \in BOOLEAN
          /\ box \in Seq(Command) /\ Len(box) <= Capacity
          /\ offset \in Nat
          /\ pc \in {"setup", "parse", "read", "cruise", "act", "end"}
          /\ incomingPacket = <<>> \/ \E c \in Command : incomingPacket = Chars[c]
          /\ cmdCode \in 0..Len(Codes)
          /\ pins \in [Pin -> 0..255]
          /\ Len(writes) <= 4

(* No motor is driven from both of its pins, whatever direction it turned  *)
(* in before: loop() writes the pins one at a time, and only its cruise()  *)
(* keeps a change from backward() to forward() from passing through brake. *)
NeverBrakes == /\ pins["M1_PWM"] = 0 \/ pins["M1_DIR"] = 0
               /\ pins["M2_PWM"] = 0 \/ pins["M2_DIR"] = 0

(* The way the wheels turn for each command, whatever the speeds are:      *)
(* to the left, motor 1 is the slower of the two.                          *)
Turns(c) ==
    LET fwd == <<pins["M1_PWM"], pins["M2_PWM"]>>
        rev == <<pins["M1_DIR"], pins["M2_DIR"]>>
        still(w) == w = <<0, 0>>
        straight(w) == w[1] = w[2] /\ w[1] > 0
    IN  CASE c = "S" -> still(fwd) /\ still(rev)
          [] c = "F" -> straight(fwd) /\ still(rev)
          [] c = "B" -> still(fwd) /\ straight(rev)
          [] c \in {"L", "LF"} -> fwd[1] < fwd[2] /\ still(rev)
          [] c \in {"R", "RF"} -> fwd[2] < fwd[1] /\ still(rev)
          [] c = "LB" -> still(fwd) /\ rev[1] < rev[2]
          [] c = "RB" -> still(fwd) /\ rev[2] < rev[1]

(* When loop() returns the wheels turn as the last command said that the   *)
(* robot accepted: it is repeated by every loop() in which nothing arrives *)
(* and survives a datagram the sketch does not know (4wd), which stops the *)
(* 2wd robot.                                                              *)
EndsAsTold == pc = "end" => Turns(told)

(* The types, the text that never runs past a command, and the wheels.     *)
Obeys == TypeOK /\ EndsAsTold

(* A stop that has reached the socket stops the robot, however many        *)
(* datagrams are ahead of it and whatever follows it.                      *)
Stopped == pc = "end" /\ incomingPacket = <<"S">> /\ Turns("S")
StopIsObeyed == (\E i \in DOMAIN box : box[i] = "S" /\ (i > 1 \/ ~taken)) ~> Stopped

=============================================================================
