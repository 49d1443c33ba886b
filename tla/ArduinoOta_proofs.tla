-------------------------- MODULE ArduinoOta_proofs --------------------------
(***************************************************************************)
(* Only whole files are installed, and espota.py reports success of the    *)
(* file that was, for any number of sessions of any sizes (Inv): all that  *)
(* is in a connection came from the session it leads to, so what matches   *)
(* the MD5 of an invitation is the file of the host at its other end; the  *)
(* OK comes only behind it, and no other update can have been installed    *)
(* when the script reads it; and the O of an error comes behind its E.     *)
(* And it hears the OK (HearInv): units sent, units taken and counts on    *)
(* the way add up.                                                         *)
(***************************************************************************)
EXTENDS ArduinoOta, SequenceTheorems, TLAPS

Unit == Nat \X Nat
Answer == {"digits", "O", "E", "RRO"}
Connections == [to : 0..Len(Size), up : Seq(Unit), down : Seq(Answer),
                host : {"open", "closed", "vanished"}, dev : {"open", "closed", "gone"}, rst : BOOLEAN]
Updates == [job : 0..Len(Size), taken : Seq(Unit), failed : BOOLEAN]

Types == /\ session \in 0..Len(Size) /\ offset \in Nat
         /\ host \in {"off", "invited", "authing", "accept", "upload", "sent", "result", "ok", "failed"}
         /\ host \notin {"off", "ok", "failed"} => session \in Session
         /\ conn \in Connections
         /\ upd \in Updates
         /\ inv \in 0..Len(Size)

(* The device works on the invitation of some session.                     *)
Invited == /\ \A m \in toDevice : m.op = "invite" => m.from \in Session
           /\ state # "IDLE" => inv \in Session
           /\ pc \in {"begun", "receive"} => upd.job \in Session

(* What a connection carries, and what was taken from it, is of one host.  *)
UnitsOf(s) == {s} \X Nat
OneHost == /\ conn.up \in Seq(UnitsOf(conn.to))
           /\ pc = "begun" => upd.taken = <<>>
           /\ pc = "receive" => upd.taken \in Seq(UnitsOf(conn.to))
           /\ host \in {"upload", "sent", "result"} => conn.to = session

(* An OK is on the way only when the file of the host is installed.        *)
HasOk == \E i \in 1..Len(conn.down) : conn.down[i] = "O"
OkIsTrue == /\ pc \in {"ended", "told"} \/ HasOk => installed = File(conn.to)
            /\ pc = "receive" => ~HasOk
            /\ host = "ok" => (installed = File(session) /\ pc # "receive") \/ "E" \in swallowed

(* The connection leads to the script that is running now.                 *)
Here == conn.to = session /\ host \notin {"off", "ok", "failed"}

(* The O of an error comes behind its E, or the E was read in the place of *)
(* a count.                                                                *)
EBefore(i) == \E j \in 1..(i - 1) : conn.down[j] = "E"
ErrorHasE == /\ conn.to <= session
             /\ Here /\ "E" \notin swallowed =>
                  \A i \in 1..Len(conn.down) : conn.down[i] = "RRO" => EBefore(i)

Inv == Types /\ Invited /\ OneHost /\ InstallsWhole /\ OkIsTrue /\ ErrorHasE

-----------------------------------------------------------------------------
(* Pieces of sequences are sequences of the same elements.                 *)
LEMMA PieceType ==
  ASSUME NEW S, NEW s \in Seq(S), NEW a \in Nat \ {0}, NEW b \in Nat, b <= Len(s)
  PROVE  SubSeq(s, a, b) \in Seq(S)
  BY SubSeqProperties

(* The file of a session is a sequence of its units, at least one.         *)
LEMMA FileType ==
  ASSUME NEW s \in Session
  PROVE  /\ s \in Nat \ {0} /\ Size[s] \in Nat \ {0}
         /\ File(s) \in Seq(UnitsOf(s)) /\ File(s) \in Seq(Unit)
         /\ Len(File(s)) = Size[s]
         /\ File(s)[1] = <<s, 1>>
<1>1. s \in Nat \ {0} /\ Size[s] \in Nat \ {0}
  BY OtaAssumption DEF Session
<1>2. \A i \in 1..Size[s] : <<s, i>> \in UnitsOf(s) /\ <<s, i>> \in Unit
  BY <1>1 DEF UnitsOf, Unit
<1>3. File(s) \in [1..Size[s] -> UnitsOf(s)] /\ File(s) \in [1..Size[s] -> Unit]
  BY <1>2 DEF File
<1>4. Len(File(s)) = Size[s] /\ File(s)[1] = <<s, 1>>
  BY <1>1 DEF File
<1> QED BY <1>1, <1>3, <1>4

(* The answers are sequences of the elements that are told apart.          *)
LEMMA CountType ==
  ASSUME NEW ans \in Count \cup {<<>>}
  PROVE  ans \in Seq(Answer) /\ \A i \in 1..Len(ans) : ans[i] = "digits"
<1>1. CASE ans = <<>>
  BY <1>1
<1>2. CASE ans = <<"digits">>
  BY <1>2 DEF Answer
<1>3. CASE ans = <<"digits", "digits">>
  BY <1>3 DEF Answer
<1> QED BY <1>1, <1>2, <1>3 DEF Count

LEMMA ErrorType ==
  ASSUME NEW text \in ErrorText
  PROVE  /\ text \in Seq(Answer) /\ Len(text) \in {2, 3} /\ text[1] = "E"
         /\ \A i \in 1..Len(text) : text[i] # "O"
<1>1. CASE text = <<"E", "RRO">>
  BY <1>1 DEF Answer
<1>2. CASE text = <<"E", "RRO", "E">>
  BY <1>2 DEF Answer
<1> QED BY <1>1, <1>2 DEF ErrorText

(* Only one host can have sent the whole file of a session.                *)
LEMMA FileOfOneHost ==
  ASSUME NEW s \in Session, NEW h, File(s) \in Seq(UnitsOf(h))
  PROVE  h = s
<1>1. File(s)[1] = <<s, 1>> /\ 1 \in 1..Len(File(s))
  BY FileType
<1>2. <<s, 1>> \in UnitsOf(h)
  BY <1>1, ElementOfSeq
<1> QED BY <1>2 DEF UnitsOf

LEMMA InitInv == Init => Inv
<1> SUFFICES ASSUME Init PROVE Inv
  OBVIOUS
<1> USE DEF Init
<1>1. Types
  <2>1. Len(Size) \in Nat
    BY OtaAssumption
  <2> QED BY <2>1 DEF Types, Connections, Updates, NoUpdate
<1>2. Invited
  BY DEF Invited
<1>3. OneHost
  BY DEF OneHost
<1>4. InstallsWhole
  BY DEF InstallsWhole
<1>5. OkIsTrue
  BY DEF OkIsTrue, HasOk
<1>6. ErrorHasE
  BY DEF ErrorHasE, Here
<1> QED BY <1>1, <1>2, <1>3, <1>4, <1>5, <1>6 DEF Inv

(* Steps that change neither the answers nor who reads them.               *)
LEMMA SameErrors ==
  ASSUME ErrorHasE, conn'.to = conn.to, conn'.down = conn.down,
         UNCHANGED <<session, swallowed>>, Here' => Here
  PROVE  ErrorHasE'
  BY DEF ErrorHasE, EBefore

-----------------------------------------------------------------------------
(* Steps that leave the connection and the update alone.                   *)
LEMMA InvitedSteps ==
  ASSUME Inv, NEW m \in toDevice, OnRx(m)
  PROVE  Inv'
<1> USE DEF Inv, OnRx
<1>1. inv' \in 0..Len(Size) /\ (state' # "IDLE" => inv' \in Session)
  <2>1. CASE OnInvitation(m)
    BY <2>1 DEF OnInvitation, Invited, Session
  <2>2. CASE OnAuth(m)
    BY <2>2 DEF OnAuth, Invited, Types
  <2>3. CASE OnOther(m)
    BY <2>3 DEF OnOther, Invited, Types
  <2> QED BY <2>1, <2>2, <2>3
<1>2. UNCHANGED <<pc, upd, installed, session, host, offset, swallowed, toDevice, conn>>
  BY DEF hostVars
<1>3. Types'
  BY <1>1, <1>2 DEF Types
<1>4. Invited'
  BY <1>1, <1>2 DEF Invited
<1>5. OneHost'
  BY <1>2 DEF OneHost
<1>6. InstallsWhole'
  BY <1>2 DEF InstallsWhole
<1>7. OkIsTrue'
  BY <1>2 DEF OkIsTrue, HasOk
<1>8. ErrorHasE'
  BY <1>2, SameErrors DEF Here
<1> QED BY <1>3, <1>4, <1>5, <1>6, <1>7, <1>8

(* A step of the device that leaves the connection as it is and begins or  *)
(* ends an update without installing it.                                   *)
LEMMA UpdateSteps ==
  ASSUME Inv, BeginRefused \/ Begin \/ ConnectFails
  PROVE  Inv'
<1> USE DEF Inv
<1>1. UNCHANGED <<installed, session, host, offset, swallowed, toDevice, conn, inv>>
  BY DEF BeginRefused, Begin, ConnectFails, hostVars
<1>2. \/ UNCHANGED <<pc, upd>> /\ state' = "IDLE"
      \/ pc' = "begun" /\ upd' = [job |-> inv, taken |-> <<>>, failed |-> FALSE] /\ inv \in Session /\ state' = state
      \/ pc' = "loop" /\ upd' = NoUpdate /\ state' = "IDLE"
  BY DEF BeginRefused, Begin, ConnectFails, Invited
<1>4. upd' \in Updates
  <2>1. inv \in 0..Len(Size) /\ upd \in Updates
    BY DEF Types
  <2>2. NoUpdate \in Updates /\ [job |-> inv, taken |-> <<>>, failed |-> FALSE] \in Updates
    <3>1. <<>> \in Seq(Unit) /\ Len(Size) \in Nat
      BY OtaAssumption
    <3> QED BY <2>1, <3>1 DEF Updates, NoUpdate
  <2> QED BY <1>2, <2>1, <2>2
<1>5. Types'
  BY <1>1, <1>4 DEF Types
<1>6. Invited'
  BY <1>1, <1>2 DEF Invited
<1>7. OneHost'
  BY <1>1, <1>2 DEF OneHost
<1>8. InstallsWhole'
  BY <1>1 DEF InstallsWhole
<1>9. OkIsTrue'
  BY <1>1, <1>2 DEF OkIsTrue, HasOk
<1>10. ErrorHasE'
  BY <1>1, SameErrors DEF Here
<1> QED BY <1>5, <1>6, <1>7, <1>8, <1>9, <1>10

(* The connection leads to the script that is running now.                 *)
LEMMA ConnectStep ==
  ASSUME Inv, Connect
  PROVE  Inv'
<1> USE DEF Inv
<1>1. /\ pc = "begun" /\ pc' = "receive"
      /\ host \in {"invited", "authing", "accept"}
      /\ conn' = [to |-> session, up |-> <<>>, down |-> <<>>, host |-> "open", dev |-> "open", rst |-> FALSE]
      /\ UNCHANGED <<state, inv, upd, installed, session, host, offset, swallowed, toDevice>>
  BY DEF Connect, Listening, hostVars
<1>2. conn' \in Connections
  <2>1. session \in 0..Len(Size) /\ <<>> \in Seq(Unit) /\ <<>> \in Seq(Answer)
    BY DEF Types
  <2> QED BY <1>1, <2>1 DEF Connections
<1>3. conn'.up = <<>> /\ conn'.down = <<>> /\ conn'.to = session
  BY <1>1
<1>4. Types'
  BY <1>1, <1>2 DEF Types
<1>5. Invited'
  BY <1>1 DEF Invited
<1>6. OneHost'
  <2>1. <<>> \in Seq(UnitsOf(session)) /\ upd.taken = <<>>
    BY <1>1 DEF OneHost
  <2> QED BY <1>1, <1>3, <2>1 DEF OneHost
<1>7. InstallsWhole'
  BY <1>1 DEF InstallsWhole
<1>8. OkIsTrue'
  BY <1>1, <1>3 DEF OkIsTrue, HasOk
<1>9. ErrorHasE'
  <2>1. session \in Nat /\ Len(<<>>) = 0
    BY OtaAssumption DEF Types
  <2> QED BY <1>1, <1>3, <2>1 DEF ErrorHasE
<1> QED BY <1>4, <1>5, <1>6, <1>7, <1>8, <1>9

-----------------------------------------------------------------------------
(* Steps that take units from the connection.                              *)
LEMMA ReceiveStep ==
  ASSUME Inv, NEW k \in 1..Len(conn.up), Receive(k)
  PROVE  Inv'
<1> USE DEF Inv
<1> DEFINE rest == SubSeq(conn.up, k + 1, Len(conn.up))
           some == SubSeq(conn.up, 1, k)
<1>1. /\ pc = "receive" /\ pc' = pc /\ state' \in {state, "IDLE"}
      /\ UNCHANGED <<inv, installed, session, host, offset, swallowed, toDevice>>
  BY DEF Receive, TooLate, hostVars
<1>2. conn \in Connections /\ upd \in Updates
  BY DEF Types
<1>3. k \in Nat \ {0} /\ k <= Len(conn.up) /\ Len(conn.up) \in Nat
  BY <1>2 DEF Connections
<1>4. rest \in Seq(Unit) /\ some \in Seq(Unit)
  BY <1>2, <1>3, PieceType DEF Connections
<1>5. rest \in Seq(UnitsOf(conn.to)) /\ some \in Seq(UnitsOf(conn.to))
  BY <1>3, PieceType DEF OneHost
<1>6. PICK ans \in Count \cup {<<>>} : conn' = [conn EXCEPT !.up = rest, !.down = @ \o ans]
  BY DEF Receive
<1>7. \A i \in 1..Len(ans) : ans[i] = "digits"
  BY CountType
<1>8. ans \in Seq(Answer) /\ conn.down \in Seq(Answer)
  BY <1>2, CountType DEF Connections
<1>9. conn' \in Connections /\ conn'.to = conn.to /\ conn'.up = rest /\ conn'.down = conn.down \o ans
  <2>1. conn.down \o ans \in Seq(Answer)
    BY <1>8
  <2> QED BY <1>2, <1>4, <1>6, <2>1 DEF Connections
<1>10. \A i \in 1..Len(conn'.down) :
         conn'.down[i] # "digits" => i \in 1..Len(conn.down) /\ conn'.down[i] = conn.down[i]
  <2> SUFFICES ASSUME NEW i \in 1..Len(conn'.down), conn'.down[i] # "digits"
               PROVE  i \in 1..Len(conn.down) /\ conn'.down[i] = conn.down[i]
    OBVIOUS
  <2>1. /\ Len(conn'.down) = Len(conn.down) + Len(ans)
        /\ Len(conn.down) \in Nat /\ Len(ans) \in Nat
        /\ conn'.down[i] = IF i <= Len(conn.down) THEN conn.down[i] ELSE ans[i - Len(conn.down)]
    BY <1>8, <1>9
  <2>2. i <= Len(conn.down)
    <3> SUFFICES ASSUME i > Len(conn.down) PROVE FALSE
      BY <2>1
    <3>1. i - Len(conn.down) \in 1..Len(ans)
      BY <2>1
    <3>2. ans[i - Len(conn.down)] = "digits"
      BY <1>7, <3>1
    <3> QED BY <2>1, <3>2
  <2> QED BY <2>1, <2>2
<1>11. ~HasOk'
  <2>1. ~HasOk
    BY <1>1 DEF OkIsTrue
  <2> QED BY <1>10, <2>1 DEF HasOk
<1>12. \/ upd' = [upd EXCEPT !.taken = @ \o some]
       \/ upd' = [upd EXCEPT !.failed = TRUE]
  BY DEF Receive
<1>13. upd' \in Updates /\ upd'.job = upd.job /\ upd'.taken \in Seq(UnitsOf(conn.to))
  <2>1. upd.taken \o some \in Seq(Unit) /\ upd.taken \o some \in Seq(UnitsOf(conn.to))
    BY <1>1, <1>2, <1>4, <1>5, ConcatProperties DEF OneHost, Updates
  <2>2. upd.taken \in Seq(UnitsOf(conn.to))
    BY <1>1 DEF OneHost
  <2> QED BY <1>2, <1>12, <2>1, <2>2 DEF Updates
<1>14. Types'
  BY <1>1, <1>9, <1>13 DEF Types
<1>15. Invited'
  BY <1>1, <1>13 DEF Invited
<1>16. OneHost'
  BY <1>1, <1>5, <1>9, <1>13 DEF OneHost
<1>17. InstallsWhole'
  BY <1>1 DEF InstallsWhole
<1>18. OkIsTrue'
  BY <1>1, <1>11 DEF OkIsTrue
<1>19. ErrorHasE'
  <2>1. Here' = Here
    BY <1>1, <1>9 DEF Here
  <2>2. ASSUME NEW i \in 1..Len(conn'.down), conn'.down[i] = "RRO", Here, "E" \notin swallowed
        PROVE  EBefore(i)'
    <3>1. i \in 1..Len(conn.down) /\ conn.down[i] = "RRO"
      BY <1>10, <2>2
    <3>2. PICK j \in 1..(i - 1) : conn.down[j] = "E"
      BY <2>2, <3>1 DEF ErrorHasE, EBefore
    <3>3. conn'.down[j] = "E"
      BY <1>8, <1>9, <3>1, <3>2
    <3> QED BY <3>2, <3>3 DEF EBefore
  <2> QED BY <1>1, <1>9, <2>1, <2>2 DEF ErrorHasE
<1> QED BY <1>14, <1>15, <1>16, <1>17, <1>18, <1>19

(* What matches the MD5 of the invitation is the file of the host that the *)
(* connection leads to.                                                    *)
LEMMA EndOkStep ==
  ASSUME Inv, EndOk
  PROVE  Inv'
<1> USE DEF Inv
<1>1. /\ pc = "receive" /\ pc' = "ended" /\ upd.taken = File(upd.job)
      /\ installed' = upd.taken /\ upd' = NoUpdate
      /\ UNCHANGED <<state, inv, session, host, offset, swallowed, toDevice, conn>>
  BY DEF EndOk, Complete, hostVars
<1>2. upd.job \in Session
  BY <1>1 DEF Invited
<1>3. conn.to = upd.job
  BY <1>1, <1>2, FileOfOneHost DEF OneHost
<1>4. installed' = File(conn.to) /\ ~HasOk
  BY <1>1, <1>3 DEF OkIsTrue
<1>5. upd' \in Updates
  <2>1. <<>> \in Seq(Unit) /\ Len(Size) \in Nat
    BY OtaAssumption
  <2> QED BY <1>1, <2>1 DEF Updates, NoUpdate
<1>6. Types'
  BY <1>1, <1>5 DEF Types
<1>7. Invited'
  BY <1>1 DEF Invited
<1>8. OneHost'
  BY <1>1 DEF OneHost
<1>9. InstallsWhole'
  BY <1>1, <1>2 DEF InstallsWhole
<1>10. OkIsTrue'
  BY <1>1, <1>4 DEF OkIsTrue, HasOk
<1>11. ErrorHasE'
  BY <1>1, SameErrors DEF Here
<1> QED BY <1>6, <1>7, <1>8, <1>9, <1>10, <1>11

(* An error behind what was sent makes no OK; the last step sends nothing. *)
LEMMA OtherEnds ==
  ASSUME Inv, EndError \/ SayOk \/ Finish
  PROVE  Inv'
<1> USE DEF Inv
<1>1. UNCHANGED <<inv, installed, session, host, offset, swallowed, toDevice>>
  BY DEF EndError, SayOk, Finish, hostVars
<1>2. conn \in Connections /\ upd \in Updates
  BY DEF Types
<1>3. conn.up \in Seq(Unit) /\ <<>> \in Seq(Unit) /\ conn.down \in Seq(Answer) /\ Len(conn.down) \in Nat
  BY <1>2 DEF Connections
<1>4. NoUpdate \in Updates
  <2>1. Len(Size) \in Nat
    BY OtaAssumption
  <2> QED BY <1>3, <2>1 DEF Updates, NoUpdate
<1>5. CASE EndError
  <2>1. PICK text \in ErrorText :
          /\ pc = "receive" /\ pc' = "loop" /\ state' = "IDLE" /\ upd' = NoUpdate
          /\ conn' = [conn EXCEPT !.up = <<>>, !.down = @ \o text, !.dev = "closed"]
    BY <1>5 DEF EndError
  <2>2. /\ text \in Seq(Answer) /\ conn.down \o text \in Seq(Answer)
        /\ text[1] = "E" /\ Len(text) \in {2, 3} /\ \A i \in 1..Len(text) : text[i] # "O"
    BY <1>3, ErrorType
  <2>3. /\ conn' \in Connections /\ conn'.to = conn.to /\ conn'.up = <<>>
        /\ conn'.down = conn.down \o text
    BY <1>2, <1>3, <2>1, <2>2 DEF Connections
  <2>4. ~HasOk'
    <3>1. ~HasOk
      BY <2>1 DEF OkIsTrue
    <3>2. \A i \in 1..Len(conn'.down) : conn'.down[i] # "O"
      BY <1>3, <2>2, <2>3, <3>1 DEF HasOk
    <3> QED BY <3>2 DEF HasOk
  <2>5. Types'
    BY <1>1, <1>4, <2>1, <2>3 DEF Types
  <2>6. Invited'
    BY <1>1, <2>1 DEF Invited
  <2>7. OneHost'
    BY <1>1, <2>1, <2>3 DEF OneHost
  <2>8. InstallsWhole' /\ OkIsTrue'
    BY <1>1, <2>1, <2>3, <2>4 DEF InstallsWhole, OkIsTrue
  <2>9. ErrorHasE'
    <3>1. Here' = Here
      BY <1>1, <2>3 DEF Here
    <3>2. ASSUME NEW i \in 1..Len(conn'.down), conn'.down[i] = "RRO", Here, "E" \notin swallowed
          PROVE  EBefore(i)'
      <4>1. CASE i <= Len(conn.down)
        <5>1. i \in 1..Len(conn.down) /\ conn.down[i] = "RRO"
          BY <1>3, <2>2, <2>3, <3>2, <4>1
        <5>2. PICK j \in 1..(i - 1) : conn.down[j] = "E"
          BY <3>2, <5>1 DEF ErrorHasE, EBefore
        <5>3. conn'.down[j] = "E"
          BY <1>3, <2>2, <2>3, <4>1, <5>2
        <5> QED BY <5>2, <5>3 DEF EBefore
      <4>2. CASE i > Len(conn.down)
        <5>1. conn'.down[Len(conn.down) + 1] = "E"
          BY <1>3, <2>2, <2>3
        <5>2. Len(conn.down) + 1 \in 1..(i - 1)
          BY <1>3, <3>2, <4>2, <5>1
        <5> QED BY <5>1, <5>2 DEF EBefore
      <4> QED BY <1>3, <4>1, <4>2
    <3> QED BY <1>1, <2>3, <3>1, <3>2 DEF ErrorHasE
  <2> QED BY <2>5, <2>6, <2>7, <2>8, <2>9
<1>6. CASE SayOk
  <2>1. /\ pc = "ended" /\ pc' = "told" /\ UNCHANGED <<state, upd>>
        /\ conn' = [conn EXCEPT !.down = Append(@, "O")]
    BY <1>6 DEF SayOk
  <2>2. Append(conn.down, "O") \in Seq(Answer)
    BY <1>3 DEF Answer
  <2>3. conn' \in Connections /\ conn'.to = conn.to /\ conn'.up = conn.up
    BY <1>2, <2>1, <2>2 DEF Connections
  <2>4. Types'
    BY <1>1, <2>1, <2>3 DEF Types
  <2>5. Invited'
    BY <1>1, <2>1 DEF Invited
  <2>6. OneHost'
    BY <1>1, <2>1, <2>3 DEF OneHost
  <2>7. InstallsWhole' /\ OkIsTrue'
    BY <1>1, <2>1, <2>3 DEF InstallsWhole, OkIsTrue
  <2>8. ErrorHasE'
    <3>1. Here' = Here /\ conn'.down = Append(conn.down, "O")
      BY <1>1, <1>2, <1>3, <2>1, <2>2, <2>3 DEF Here, Connections
    <3>2. ASSUME NEW i \in 1..Len(conn'.down), conn'.down[i] = "RRO", Here, "E" \notin swallowed
          PROVE  EBefore(i)'
      <4>1. i \in 1..Len(conn.down) /\ conn.down[i] = "RRO"
        BY <1>3, <3>1, <3>2
      <4>2. PICK j \in 1..(i - 1) : conn.down[j] = "E"
        BY <3>2, <4>1 DEF ErrorHasE, EBefore
      <4>3. conn'.down[j] = "E"
        BY <1>3, <3>1, <4>1, <4>2
      <4> QED BY <4>2, <4>3 DEF EBefore
    <3> QED BY <1>1, <2>3, <3>1, <3>2 DEF ErrorHasE
  <2> QED BY <2>4, <2>5, <2>6, <2>7, <2>8
<1>7. CASE Finish
  <2>1. /\ pc = "told" /\ pc' = "loop" /\ state' = "IDLE" /\ UNCHANGED upd
        /\ conn' = [conn EXCEPT !.dev = "closed"]
    BY <1>7 DEF Finish
  <2>2. conn' \in Connections /\ conn'.to = conn.to /\ conn'.up = conn.up /\ conn'.down = conn.down
    BY <1>2, <2>1 DEF Connections
  <2>3. Types'
    BY <1>1, <2>1, <2>2 DEF Types
  <2>4. Invited'
    BY <1>1, <2>1 DEF Invited
  <2>5. OneHost'
    BY <1>1, <2>1, <2>2 DEF OneHost
  <2>6. InstallsWhole' /\ OkIsTrue'
    BY <1>1, <2>1, <2>2 DEF InstallsWhole, OkIsTrue, HasOk
  <2>7. ErrorHasE'
    BY <1>1, <2>2, SameErrors DEF Here
  <2> QED BY <2>3, <2>4, <2>5, <2>6, <2>7
<1> QED BY <1>5, <1>6, <1>7

(* A reset loses the update and what was on its way to the device.         *)
LEMMA ResetStep ==
  ASSUME Inv, Reset
  PROVE  Inv'
<1> USE DEF Inv
<1>1. /\ state' = "IDLE" /\ pc' = "loop" /\ upd' = NoUpdate
      /\ UNCHANGED <<inv, installed, session, host, offset, swallowed, toDevice>>
  BY DEF Reset, hostVars
<1>2. conn \in Connections
  BY DEF Types
<1>3. upd' \in Updates /\ <<>> \in Seq(Unit)
  <2>1. <<>> \in Seq(Unit) /\ Len(Size) \in Nat
    BY OtaAssumption
  <2> QED BY <1>1, <2>1 DEF Updates, NoUpdate
<1>4. conn' = conn \/ conn' = [conn EXCEPT !.up = <<>>, !.dev = "gone"]
  BY DEF Reset
<1>5. /\ conn' \in Connections /\ conn'.to = conn.to /\ conn'.down = conn.down
      /\ conn'.up = conn.up \/ conn'.up = <<>>
  BY <1>2, <1>3, <1>4 DEF Connections
<1>6. Types'
  BY <1>1, <1>3, <1>5 DEF Types
<1>7. Invited'
  BY <1>1 DEF Invited
<1>8. OneHost'
  <2>1. <<>> \in Seq(UnitsOf(conn.to)) /\ conn.up \in Seq(UnitsOf(conn.to))
    BY DEF OneHost
  <2>2. conn'.up \in Seq(UnitsOf(conn'.to))
    BY <1>5, <2>1
  <2> QED BY <1>1, <1>5, <2>2 DEF OneHost
<1>9. InstallsWhole' /\ OkIsTrue'
  BY <1>1, <1>5 DEF InstallsWhole, OkIsTrue, HasOk
<1>10. ErrorHasE'
  BY <1>1, <1>5, SameErrors DEF Here
<1> QED BY <1>6, <1>7, <1>8, <1>9, <1>10

-----------------------------------------------------------------------------
(* Steps of the script: it sends its own file, and reads the answers of the*)
(* connection that leads to it.                                            *)
deviceState == <<state, inv, pc, upd, installed>>

(* The script goes on or ends; a connection keeps its contents.            *)
LEMMA TurnSteps ==
  ASSUME Inv,
         HostOk \/ HostAuth \/ HostRefused \/ HostCountEnded \/ HostSent \/ HostTimeout \/ Vanish
  PROVE  Inv'
<1> USE DEF Inv
<1>1. UNCHANGED <<deviceState, session, offset, swallowed>>
  BY DEF HostOk, HostAuth, HostRefused, HostCountEnded, HostSent, HostTimeout, Vanish, devVars, deviceState
<1>2. conn \in Connections
  BY DEF Types
<1>3. \/ conn' = conn
      \/ conn' = [conn EXCEPT !.host = "closed"]
      \/ conn' = [conn EXCEPT !.host = "vanished"]
  BY DEF HostOk, HostAuth, HostRefused, HostCountEnded, HostSent, HostTimeout, Vanish, HostEnds
<1>4. conn' \in Connections /\ conn'.to = conn.to /\ conn'.up = conn.up /\ conn'.down = conn.down
  BY <1>2, <1>3 DEF Connections
<1>5. /\ host' \in {"accept", "authing", "failed", "upload", "result"}
      /\ host' \in {"upload", "result"} => host \in {"sent", "upload"}
      /\ host \notin {"off", "ok", "failed"}
  BY DEF HostOk, HostAuth, HostRefused, HostCountEnded, HostSent, HostTimeout, Vanish, HostEnds
<1>6. \A m \in toDevice' : m.op = "invite" => m \in toDevice
  <2>1. \A s, n : Proof(s, n).op # "invite"
    BY DEF Proof
  <2>2. toDevice' = toDevice \/ \E s, n : toDevice' = toDevice \cup {Proof(s, n)}
    BY DEF HostOk, HostAuth, HostRefused, HostCountEnded, HostSent, HostTimeout, Vanish
  <2> QED BY <2>1, <2>2
<1> USE <1>1 DEF deviceState
<1>7. Types'
  BY <1>4, <1>5 DEF Types
<1>8. Invited'
  BY <1>6 DEF Invited
<1>9. OneHost'
  BY <1>4, <1>5 DEF OneHost
<1>10. InstallsWhole' /\ OkIsTrue'
  BY <1>4, <1>5 DEF InstallsWhole, OkIsTrue, HasOk
<1>11. ErrorHasE'
  BY <1>4, <1>5, SameErrors DEF Here
<1> QED BY <1>7, <1>8, <1>9, <1>10, <1>11

LEMMA AcceptStep ==
  ASSUME Inv, HostAccept
  PROVE  Inv'
<1> USE DEF Inv
<1>1. /\ host = "accept" /\ host' = "upload" /\ conn.to = session
      /\ UNCHANGED <<deviceState, session, offset, swallowed, toDevice, conn>>
  BY DEF HostAccept, devVars, deviceState
<1> USE <1>1 DEF deviceState
<1>2. Types'
  BY DEF Types
<1>3. Invited'
  BY DEF Invited
<1>4. OneHost'
  BY DEF OneHost
<1>5. InstallsWhole' /\ OkIsTrue'
  BY DEF InstallsWhole, OkIsTrue, HasOk
<1>6. ErrorHasE'
  BY SameErrors DEF Here
<1> QED BY <1>2, <1>3, <1>4, <1>5, <1>6

LEMMA NewSessionStep ==
  ASSUME Inv, NewSession
  PROVE  Inv'
<1> USE DEF Inv
<1>1. /\ session < Len(Size) /\ session' = session + 1 /\ host' = "invited" /\ offset' = 0
      /\ toDevice' = toDevice \cup {Invitation(session')}
      /\ UNCHANGED <<deviceState, conn>>
  BY DEF NewSession, devVars, deviceState
<1>2. session' \in Session /\ session' \in 0..Len(Size)
  <2>1. Len(Size) \in Nat /\ session \in 0..Len(Size)
    BY OtaAssumption DEF Types
  <2> QED BY <1>1, <2>1 DEF Session
<1> USE <1>1 DEF deviceState
<1>3. Types'
  BY <1>2 DEF Types
<1>4. Invited'
  <2>1. Invitation(session').from = session'
    BY DEF Invitation
  <2> QED BY <1>2, <2>1 DEF Invited
<1>5. OneHost'
  BY DEF OneHost
<1>6. InstallsWhole' /\ OkIsTrue'
  BY DEF InstallsWhole, OkIsTrue, HasOk
<1>7. ErrorHasE'
  <2>1. conn.to <= session /\ session \in Nat /\ conn.to \in Nat
    BY OtaAssumption DEF ErrorHasE, Types, Connections
  <2> QED BY <2>1 DEF ErrorHasE, Here
<1> QED BY <1>3, <1>4, <1>5, <1>6, <1>7

LEMMA SendStep ==
  ASSUME Inv, HostSend
  PROVE  Inv'
<1> USE DEF Inv
<1>1. /\ host = "upload" /\ host' = "sent" /\ offset < Size[session]
      /\ UNCHANGED <<deviceState, session, swallowed, toDevice>>
  BY DEF HostSend, devVars, deviceState
<1> USE <1>1 DEF deviceState
<1>2. session \in Session /\ offset \in Nat /\ conn \in Connections /\ conn.to = session
  BY DEF Types, OneHost
<1>3. Size[session] \in Nat \ {0} /\ Chunk \in Nat \ {0}
  BY <1>2, FileType, OtaAssumption
<1> DEFINE n == IF Size[session] - offset < Chunk THEN Size[session] - offset ELSE Chunk
           piece == SubSeq(File(session), offset + 1, offset + n)
<1>4. n \in Nat \ {0} /\ offset + n <= Size[session]
  BY <1>2, <1>3
<1>5. /\ offset' = offset + n
      /\ \/ conn' = [conn EXCEPT !.up = @ \o piece]
         \/ conn' = [conn EXCEPT !.rst = TRUE]
  BY DEF HostSend
<1> HIDE DEF n
<1>6. piece \in Seq(Unit) /\ piece \in Seq(UnitsOf(conn.to))
  <2>1. File(session) \in Seq(Unit) /\ File(session) \in Seq(UnitsOf(session)) /\ Len(File(session)) = Size[session]
    BY <1>2, FileType
  <2>2. offset + 1 \in Nat \ {0} /\ offset + n \in Nat
    BY <1>2, <1>4
  <2> QED BY <1>2, <1>4, <2>1, <2>2, PieceType
<1> HIDE DEF piece
<1>7. /\ conn' \in Connections /\ conn'.to = conn.to /\ conn'.down = conn.down
      /\ conn'.up \in Seq(UnitsOf(conn.to))
  <2>1. conn.up \o piece \in Seq(Unit)
    BY <1>2, <1>6, ConcatProperties DEF Connections
  <2>2. conn.up \o piece \in Seq(UnitsOf(conn.to)) /\ conn.up \in Seq(UnitsOf(conn.to))
    BY <1>6, ConcatProperties DEF OneHost
  <2> QED BY <1>2, <1>5, <2>1, <2>2 DEF Connections
<1>8. Types'
  <2>1. offset' \in Nat
    BY <1>2, <1>4, <1>5
  <2> QED BY <1>7, <2>1 DEF Types
<1>9. Invited'
  BY DEF Invited
<1>10. OneHost'
  BY <1>7 DEF OneHost
<1>11. InstallsWhole' /\ OkIsTrue'
  BY <1>7 DEF InstallsWhole, OkIsTrue, HasOk
<1>12. ErrorHasE'
  BY <1>1, <1>7, SameErrors DEF Here
<1> QED BY <1>8, <1>9, <1>10, <1>11, <1>12

(* What recv() returns is the beginning of what is on the way.             *)
LEMMA Reading ==
  ASSUME Inv, NEW k \in 1..Len(conn.down), NEW h \in {"open", "closed", "vanished"},
         conn' = [conn EXCEPT !.down = SubSeq(@, k + 1, Len(@)), !.host = h]
  PROVE  /\ conn' \in Connections /\ conn'.to = conn.to /\ conn'.up = conn.up
         /\ ~HasOk => "O" \notin ToSet(Taken(k)) /\ ~HasOk'
         /\ HasOk' => HasOk
         /\ Here /\ "E" \notin swallowed /\ "E" \notin ToSet(Taken(k)) =>
              /\ "RRO" \notin ToSet(Taken(k))
              /\ \A i \in 1..Len(conn'.down) : conn'.down[i] = "RRO" => EBefore(i)'
<1>1. conn \in Connections
  BY DEF Inv, Types
<1>2. conn.down \in Seq(Answer) /\ k \in Nat \ {0} /\ Len(conn.down) \in Nat /\ k <= Len(conn.down)
  BY <1>1 DEF Connections
<1>3. SubSeq(conn.down, k + 1, Len(conn.down)) \in Seq(Answer)
  BY <1>2, PieceType
<1>4. conn' \in Connections /\ conn'.to = conn.to /\ conn'.up = conn.up
  BY <1>1, <1>3 DEF Connections
<1>5. conn'.down = SubSeq(conn.down, k + 1, Len(conn.down))
  BY <1>1, <1>3 DEF Connections
<1>6. /\ Len(conn'.down) = Len(conn.down) - k
      /\ \A i \in 1..(Len(conn.down) - k) : conn'.down[i] = conn.down[k + i]
  <2>1. \A i \in (k + 1)..Len(conn.down) : conn.down[i] \in Answer
    BY <1>2
  <2>2. k + 1 \in Int /\ Len(conn.down) - (k + 1) + 1 = Len(conn.down) - k
    BY <1>2
  <2>3. /\ Len(conn'.down) = IF k + 1 <= Len(conn.down) THEN Len(conn.down) - (k + 1) + 1 ELSE 0
        /\ \A i \in 1..(Len(conn.down) - (k + 1) + 1) : conn'.down[i] = conn.down[k + 1 + i - 1]
    BY <1>2, <1>5, <2>1, <2>2, SubSeqProperties
  <2>4. Len(conn'.down) = Len(conn.down) - k
    BY <1>2, <2>2, <2>3
  <2>5. ASSUME NEW i \in 1..(Len(conn.down) - k)
        PROVE  conn'.down[i] = conn.down[k + i]
    <3>1. k + 1 + i - 1 = k + i
      BY <1>2
    <3>2. conn'.down[i] = conn.down[k + 1 + i - 1]
      BY <2>2, <2>3
    <3> QED BY <3>1, <3>2
  <2> QED BY <2>4, <2>5
<1>7. HasOk' => HasOk
  <2>1. \A i \in 1..Len(conn'.down) : k + i \in 1..Len(conn.down)
    BY <1>2, <1>6
  <2> QED BY <1>6, <2>1 DEF HasOk
<1>8. DOMAIN Taken(k) = 1..k /\ \A i \in 1..k : Taken(k)[i] = conn.down[i] /\ i \in 1..Len(conn.down)
  BY <1>2 DEF Taken
<1>9. "O" \in ToSet(Taken(k)) => HasOk
  BY <1>8 DEF ToSet, HasOk
<1>10. ASSUME Here, "E" \notin swallowed, "E" \notin ToSet(Taken(k))
       PROVE  /\ "RRO" \notin ToSet(Taken(k))
              /\ \A i \in 1..Len(conn'.down) : conn'.down[i] = "RRO" => EBefore(i)'
  <2>1. \A i \in 1..k : conn.down[i] # "E"
    BY <1>8, <1>10 DEF ToSet
  <2>2. \A i \in 1..Len(conn.down) : conn.down[i] = "RRO" => \E j \in 1..(i - 1) : conn.down[j] = "E"
    BY <1>10 DEF Inv, ErrorHasE, EBefore
  <2>3. \A i \in 1..k : conn.down[i] # "RRO"
    BY <1>2, <2>1, <2>2
  <2>4. ASSUME NEW i \in 1..Len(conn'.down), conn'.down[i] = "RRO"
        PROVE  EBefore(i)'
    <3>1. k + i \in 1..Len(conn.down) /\ conn.down[k + i] = "RRO"
      <4>1. i \in 1..(Len(conn.down) - k)
        BY <1>6
      <4>2. k + i \in 1..Len(conn.down)
        BY <1>2, <4>1
      <4> QED BY <1>6, <2>4, <4>1, <4>2
    <3>2. PICK j \in 1..(k + i - 1) : conn.down[j] = "E"
      BY <2>2, <3>1
    <3>3. j > k
      BY <1>2, <2>1, <3>2
    <3>4. j - k \in 1..(i - 1) /\ j - k \in 1..(Len(conn.down) - k) /\ k + (j - k) = j
      BY <1>2, <1>6, <3>1, <3>2, <3>3
    <3>5. conn'.down[j - k] = "E"
      BY <1>6, <3>2, <3>4
    <3> QED BY <3>4, <3>5 DEF EBefore
  <2> QED BY <1>8, <2>3, <2>4 DEF ToSet
<1> QED BY <1>4, <1>7, <1>9, <1>10

LEMMA CountStep ==
  ASSUME Inv, NEW k \in 1..Len(conn.down), HostCount(k)
  PROVE  Inv'
<1> USE DEF Inv
<1>1. /\ host = "sent" /\ host' = "upload"
      /\ conn' = [conn EXCEPT !.down = SubSeq(@, k + 1, Len(@))]
      /\ swallowed' = swallowed \cup (ToSet(Taken(k)) \ {"digits"})
      /\ UNCHANGED <<deviceState, session, offset, toDevice>>
  BY DEF HostCount, HostReads, devVars, deviceState
<1> USE <1>1 DEF deviceState
<1>2. conn.host \in {"open", "closed", "vanished"}
  BY DEF Types, Connections
<1>3. conn' = [conn EXCEPT !.down = SubSeq(@, k + 1, Len(@)), !.host = conn.host]
  BY DEF Types, Connections
<1>4. conn' \in Connections /\ conn'.to = conn.to /\ conn'.up = conn.up /\ (HasOk' => HasOk)
  BY <1>2, <1>3, Reading
<1>5. Types'
  BY <1>4 DEF Types
<1>6. Invited'
  BY DEF Invited
<1>7. OneHost'
  BY <1>4 DEF OneHost
<1>8. InstallsWhole' /\ OkIsTrue'
  BY <1>4 DEF InstallsWhole, OkIsTrue
<1>9. ErrorHasE'
  <2>1. Here' = Here
    BY <1>4 DEF Here
  <2>2. "E" \notin swallowed' => "E" \notin swallowed /\ "E" \notin ToSet(Taken(k))
    OBVIOUS
  <2> QED BY <1>2, <1>3, <1>4, <2>1, <2>2, Reading DEF ErrorHasE
<1> QED BY <1>5, <1>6, <1>7, <1>8, <1>9

LEMMA ResultStep ==
  ASSUME Inv, NEW k \in 1..Len(conn.down), HostResult(k)
  PROVE  Inv'
<1> USE DEF Inv
<1>1. /\ host = "result" /\ host' = Verdict(ToSet(Taken(k)))
      /\ UNCHANGED <<deviceState, session, offset, swallowed, toDevice>>
  BY DEF HostResult, devVars, deviceState
<1> USE <1>1 DEF deviceState
<1> DEFINE h == IF host' = "result" THEN conn.host ELSE "closed"
<1>2. h \in {"open", "closed", "vanished"}
  BY DEF Types, Connections
<1>3. conn' = [conn EXCEPT !.down = SubSeq(@, k + 1, Len(@)), !.host = h]
  BY DEF HostResult
<1> HIDE DEF h
<1>4. /\ conn' \in Connections /\ conn'.to = conn.to /\ conn'.up = conn.up /\ (HasOk' => HasOk)
      /\ "O" \in ToSet(Taken(k)) => HasOk
  BY <1>2, <1>3, Reading
<1>5. conn.to = session /\ Here
  BY DEF OneHost, Here
<1>6. host' \in {"ok", "failed", "result"} /\ (host' = "ok" => HasOk \/ "E" \in swallowed)
  <2>1. ASSUME host' = "ok", "E" \notin swallowed PROVE HasOk
    <3>1. "E" \notin ToSet(Taken(k)) /\ HasO(ToSet(Taken(k)))
      BY <2>1 DEF Verdict
    <3>2. "RRO" \notin ToSet(Taken(k))
      BY <1>2, <1>3, <1>5, <2>1, <3>1, Reading
    <3> QED BY <1>4, <3>1, <3>2 DEF HasO
  <2> QED BY <2>1 DEF Verdict
<1>7. Types'
  BY <1>4, <1>6 DEF Types
<1>8. Invited'
  BY DEF Invited
<1>9. OneHost'
  BY <1>4, <1>5, <1>6 DEF OneHost
<1>10. InstallsWhole' /\ OkIsTrue'
  BY <1>4, <1>5, <1>6 DEF InstallsWhole, OkIsTrue
<1>11. ErrorHasE'
  <2>1. Here' => "E" \notin ToSet(Taken(k))
    BY DEF Here, Verdict
  <2> QED BY <1>2, <1>3, <1>4, <1>5, <2>1, Reading DEF ErrorHasE
<1> QED BY <1>7, <1>8, <1>9, <1>10, <1>11

-----------------------------------------------------------------------------
LEMMA NextInv == Inv /\ [Next]_vars => Inv'
<1> SUFFICES ASSUME Inv, [Next]_vars PROVE Inv'
  OBVIOUS
<1>1. CASE \E m \in toDevice : OnRx(m)
  BY <1>1, InvitedSteps
<1>2. CASE Handle
  <2>1. CASE BeginRefused \/ Begin \/ ConnectFails
    BY <2>1, UpdateSteps
  <2>2. CASE Connect
    BY <2>2, ConnectStep
  <2>3. CASE \E k \in 1..Len(conn.up) : Receive(k)
    BY <2>3, ReceiveStep
  <2>4. CASE EndOk
    BY <2>4, EndOkStep
  <2>5. CASE EndError \/ SayOk \/ Finish
    BY <2>5, OtherEnds
  <2> QED BY <1>2, <2>1, <2>2, <2>3, <2>4, <2>5 DEF Handle
<1>3. CASE Serve
  <2>1. CASE HostOk \/ HostAuth \/ HostRefused \/ HostCountEnded \/ HostSent \/ HostTimeout
    BY <2>1, TurnSteps
  <2>2. CASE HostAccept
    BY <2>2, AcceptStep
  <2>3. CASE HostSend
    BY <2>3, SendStep
  <2>4. CASE \E k \in 1..Len(conn.down) : HostCount(k)
    BY <2>4, CountStep
  <2>5. CASE \E k \in 1..Len(conn.down) : HostResult(k)
    BY <2>5, ResultStep
  <2> QED BY <1>3, <2>1, <2>2, <2>3, <2>4, <2>5 DEF Serve
<1>4. CASE Reset
  BY <1>4, ResetStep
<1>5. CASE NewSession
  BY <1>5, NewSessionStep
<1>6. CASE Vanish
  BY <1>6, TurnSteps
<1>7. CASE UNCHANGED vars
  BY <1>7 DEF vars, devVars, hostVars, Inv, Types, Invited, OneHost, InstallsWhole, OkIsTrue, HasOk,
              ErrorHasE, EBefore, Here
<1> QED BY <1>1, <1>2, <1>3, <1>4, <1>5, <1>6, <1>7 DEF Next

(* What the device leaves to eboot is one file of one session, whole.      *)
THEOREM SpecInstallsWhole == Spec => []InstallsWhole
<1>1. Inv => InstallsWhole
  BY DEF Inv
<1> QED BY InitInv, NextInv, <1>1, PTL DEF Spec

(* espota.py reports success only when the device has installed its file,  *)
(* or when it has read the E of the error in the place of a count.         *)
THEOREM SpecOkMeansInstalled == Spec => []OkMeansInstalled
<1>1. Inv => OkMeansInstalled
  BY DEF Inv, OkIsTrue, OkMeansInstalled
<1> QED BY InitInv, NextInv, <1>1, PTL DEF Spec

-----------------------------------------------------------------------------
(* That the OK is never read in the place of a count.  While the script    *)
(* waits for a count, a unit of what it sent or a count for it is on the   *)
(* way; the device says OK when it has taken all units, and only when the  *)
(* counts have been read: by then the script has no more to send.          *)

Connected == /\ pc \in {"receive", "ended", "told"} => conn.dev = "open"
             /\ Here => conn.host = "open"

Sent == /\ host \notin {"off", "ok", "failed"} => offset <= Size[session]
        /\ host \in {"invited", "authing", "accept"} => offset = 0

Counts == Here /\ host = "sent" =>
          /\ pc = "receive" /\ ~upd.failed => conn.up # <<>> \/ conn.down # <<>>
          /\ pc = "ended" => conn.down # <<>>

AllTaken == Here =>
            /\ pc = "receive" /\ ~upd.failed => Len(upd.taken) + Len(conn.up) = offset
            /\ pc = "ended" \/ HasOk => offset = Size[session]

OkIsLast == Here /\ HasOk => host # "sent"

HearInv == Connected /\ Sent /\ Counts /\ AllTaken /\ OkIsLast /\ OkIsHeard

LEMMA InitHear == Init => HearInv
  BY DEF Init, HearInv, Here, Connected, Sent, Counts, AllTaken, OkIsLast, OkIsHeard, HasOk

(* The device has no connection afterwards, and sends no OK.               *)
LEMMA DeviceLeaves ==
  ASSUME HearInv, UNCHANGED <<session, host, offset, swallowed>>,
         conn'.to = conn.to, conn'.host = conn.host, HasOk' => HasOk,
         pc' \in {"loop", "begun"}
  PROVE  HearInv'
  BY DEF HearInv, Here, Connected, Sent, Counts, AllTaken, OkIsLast, OkIsHeard

LEMMA LeavingSteps ==
  ASSUME Inv, HearInv, Begin \/ ConnectFails \/ EndError \/ Finish \/ Reset
  PROVE  HearInv'
<1>1. UNCHANGED <<session, host, offset, swallowed>> /\ pc' \in {"loop", "begun"}
  BY DEF Begin, ConnectFails, EndError, Finish, Reset, hostVars
<1>2. conn \in Connections
  BY DEF Inv, Types
<1>3. \/ conn' = conn
      \/ conn' = [conn EXCEPT !.up = <<>>, !.dev = "gone"]
      \/ conn' = [conn EXCEPT !.dev = "closed"]
      \/ \E text \in ErrorText : conn' = [conn EXCEPT !.up = <<>>, !.down = @ \o text, !.dev = "closed"]
  BY DEF Begin, ConnectFails, EndError, Finish, Reset
<1>4. conn'.to = conn.to /\ conn'.host = conn.host
  BY <1>2, <1>3 DEF Connections
<1>5. HasOk' => HasOk
  <2>1. CASE conn'.down = conn.down
    BY <2>1 DEF HasOk
  <2>2. CASE conn'.down # conn.down
    <3>1. PICK text \in ErrorText : conn'.down = conn.down \o text
      BY <1>2, <1>3, <2>2 DEF Connections
    <3>2. text \in Seq(Answer) /\ \A i \in 1..Len(text) : text[i] # "O"
      BY ErrorType
    <3>3. conn.down \in Seq(Answer)
      BY <1>2 DEF Connections
    <3> QED BY <3>1, <3>2, <3>3 DEF HasOk
  <2> QED BY <2>1, <2>2
<1> QED BY <1>1, <1>4, <1>5, DeviceLeaves

(* The device does something that the connection does not show.            *)
LEMMA StillSteps ==
  ASSUME HearInv, BeginRefused \/ (\E m \in toDevice : OnRx(m)) \/ UNCHANGED vars
  PROVE  HearInv'
<1>1. UNCHANGED <<session, host, offset, swallowed, conn, pc, upd>>
  BY DEF BeginRefused, OnRx, vars, devVars, hostVars
<1> QED BY <1>1 DEF HearInv, Here, Connected, Sent, Counts, AllTaken, OkIsLast, OkIsHeard, HasOk

LEMMA ConnectHears ==
  ASSUME Inv, HearInv, Connect PROVE HearInv'
<1>1. /\ pc' = "receive" /\ host \in {"invited", "authing", "accept"}
      /\ UNCHANGED <<session, host, offset, swallowed, upd>> /\ upd.taken = <<>>
      /\ conn' = [to |-> session, up |-> <<>>, down |-> <<>>, host |-> "open", dev |-> "open", rst |-> FALSE]
  BY DEF Connect, Listening, hostVars, Inv, OneHost
<1>2. /\ conn'.to = session /\ conn'.up = <<>> /\ conn'.down = <<>>
      /\ conn'.host = "open" /\ conn'.dev = "open"
  BY <1>1
<1>3. session \in Nat /\ Len(<<>>) = 0
  BY OtaAssumption DEF Inv, Types
<1>4. ~HasOk'
  BY <1>2 DEF HasOk
<1> QED BY <1>1, <1>2, <1>3, <1>4 DEF HearInv, Here, Connected, Sent, Counts, AllTaken, OkIsLast, OkIsHeard

(* A unit that is taken is answered by a count, unless the write fails.    *)
LEMMA ReceiveHears ==
  ASSUME Inv, HearInv, NEW k \in 1..Len(conn.up), Receive(k) PROVE HearInv'
<1> DEFINE rest == SubSeq(conn.up, k + 1, Len(conn.up))
           some == SubSeq(conn.up, 1, k)
<1>1. pc = "receive" /\ pc' = pc /\ UNCHANGED <<session, host, offset, swallowed>>
  BY DEF Receive, hostVars
<1>2. conn \in Connections /\ upd \in Updates
  BY DEF Inv, Types
<1>3. /\ conn.up \in Seq(Unit) /\ conn.down \in Seq(Answer) /\ upd.taken \in Seq(Unit)
      /\ k \in Nat \ {0} /\ k <= Len(conn.up) /\ Len(conn.up) \in Nat
  BY <1>2 DEF Connections, Updates
<1>4. PICK ans \in Count \cup {<<>>} :
        /\ conn' = [conn EXCEPT !.up = rest, !.down = @ \o ans]
        /\ \/ upd' = [upd EXCEPT !.taken = @ \o some] /\ ans # <<>>
           \/ upd' = [upd EXCEPT !.failed = TRUE]
  BY DEF Receive
<1>5. /\ conn'.to = conn.to /\ conn'.host = conn.host /\ conn'.dev = conn.dev
      /\ conn'.up = rest /\ conn'.down = conn.down \o ans
  BY <1>2, <1>4 DEF Connections
<1>6. ~HasOk /\ ~HasOk'
  <2>1. pc' = "receive"
    BY <1>1
  <2> QED BY <1>1, <2>1, ReceiveStep DEF Inv, OkIsTrue
<1>7. ~upd'.failed => ~upd.failed /\ upd'.taken = upd.taken \o some /\ ans # <<>>
  BY <1>2, <1>4 DEF Updates
<1>8. ~upd'.failed => conn'.down # <<>>
  <2>1. ans \in Seq(Answer)
    BY CountType
  <2> QED BY <1>3, <1>5, <1>7, <2>1
<1>9. ~upd'.failed => Len(upd'.taken) + Len(conn'.up) = Len(upd.taken) + Len(conn.up)
  <2>1. some \in Seq(Unit) /\ Len(some) = k /\ Len(rest) = Len(conn.up) - k
    BY <1>3
  <2>2. Len(upd.taken \o some) = Len(upd.taken) + k
    BY <1>3, <2>1
  <2> HIDE DEF some, rest
  <2>3. Len(upd.taken) \in Nat
    BY <1>3
  <2>4. ~upd'.failed => Len(upd'.taken) = Len(upd.taken) + k
    BY <1>7, <2>2
  <2>5. Len(conn'.up) = Len(conn.up) - k
    BY <1>5, <2>1
  <2>6. \A t, u, i \in Nat : (t + i) + (u - i) = t + u
    OBVIOUS
  <2>7. ~upd'.failed => Len(upd'.taken) + Len(conn'.up) = (Len(upd.taken) + k) + (Len(conn.up) - k)
    BY <2>4, <2>5
  <2> QED BY <1>3, <2>3, <2>6, <2>7
<1>10. Connected' /\ Sent' /\ OkIsHeard'
  BY <1>1, <1>5 DEF HearInv, Here, Connected, Sent, OkIsHeard
<1>11. Counts'
  BY <1>1, <1>8 DEF Here, Counts
<1>12. AllTaken'
  BY <1>1, <1>5, <1>6, <1>7, <1>9 DEF HearInv, Here, AllTaken
<1>13. OkIsLast'
  BY <1>6 DEF Here, OkIsLast
<1> QED BY <1>10, <1>11, <1>12, <1>13 DEF HearInv

(* The file is complete: nothing of it is on the way any more, so what the *)
(* script waits for is.                                                    *)
LEMMA EndOkHears ==
  ASSUME Inv, HearInv, EndOk PROVE HearInv'
<1>1. /\ pc = "receive" /\ pc' = "ended" /\ ~upd.failed /\ upd.taken = File(upd.job)
      /\ UNCHANGED <<session, host, offset, swallowed, conn>>
  BY DEF EndOk, Complete, hostVars
<1>2. upd.job \in Session
  BY <1>1 DEF Inv, Invited
<1>3. conn.to = upd.job
  BY <1>1, <1>2, FileOfOneHost DEF Inv, OneHost
<1>4. ~HasOk /\ ~HasOk'
  BY <1>1 DEF Inv, OkIsTrue, HasOk
<1>5. conn.up \in Seq(Unit) /\ Len(conn.up) \in Nat /\ offset \in Nat
  BY DEF Inv, Types, Connections
<1>6. ASSUME conn.to = session, host \notin {"off", "ok", "failed"}
      PROVE  offset = Size[session] /\ conn.up = <<>>
  <2>1. Len(upd.taken) = Size[session] /\ Size[session] \in Nat
    BY <1>1, <1>2, <1>3, <1>6, FileType
  <2>2. Len(upd.taken) + Len(conn.up) = offset /\ offset <= Size[session]
    BY <1>1, <1>6 DEF HearInv, Here, AllTaken, Sent
  <2>3. Len(conn.up) = 0
    BY <1>5, <2>1, <2>2
  <2> QED BY <1>5, <2>1, <2>2, <2>3
<1>7. Connected' /\ Sent' /\ OkIsHeard'
  BY <1>1 DEF HearInv, Here, Connected, Sent, OkIsHeard
<1>8. Counts'
  BY <1>1, <1>6 DEF HearInv, Here, Counts
<1>9. AllTaken'
  BY <1>1, <1>4, <1>6 DEF Here, AllTaken
<1>10. OkIsLast'
  BY <1>4 DEF Here, OkIsLast
<1> QED BY <1>7, <1>8, <1>9, <1>10 DEF HearInv

(* A script that is there has read the last count.                         *)
LEMMA SayOkHears ==
  ASSUME Inv, HearInv, SayOk PROVE HearInv'
<1>1. /\ pc = "ended" /\ pc' = "told" /\ (conn.host = "open" => conn.down = <<>>)
      /\ conn' = [conn EXCEPT !.down = Append(@, "O")]
      /\ UNCHANGED <<session, host, offset, swallowed, upd>>
  BY DEF SayOk, CountsAreRead, hostVars
<1>2. conn \in Connections
  BY DEF Inv, Types
<1>3. conn'.to = conn.to /\ conn'.host = conn.host /\ conn'.dev = conn.dev /\ conn'.up = conn.up
  BY <1>1, <1>2 DEF Connections
<1>4. ASSUME conn.to = session PROVE host # "sent"
  <2> SUFFICES ASSUME host = "sent" PROVE FALSE
    OBVIOUS
  <2>1. conn.host = "open" /\ conn.down # <<>>
    BY <1>1, <1>4 DEF HearInv, Here, Connected, Counts
  <2> QED BY <1>1, <2>1
<1>5. Connected' /\ Sent' /\ OkIsHeard'
  BY <1>1, <1>3 DEF HearInv, Here, Connected, Sent, OkIsHeard
<1>6. Counts' /\ OkIsLast'
  BY <1>1, <1>3, <1>4 DEF Here, Counts, OkIsLast
<1>7. AllTaken'
  BY <1>1, <1>3 DEF HearInv, Here, AllTaken
<1> QED BY <1>5, <1>6, <1>7 DEF HearInv

(* The script goes on to what is neither the upload nor the wait for a     *)
(* count, or from there without having read anything.                      *)
LEMMA TurnHears ==
  ASSUME Inv, HearInv,
         \/ HostOk \/ HostAuth \/ HostRefused \/ HostAccept \/ HostCountEnded \/ HostSent
         \/ HostTimeout \/ Vanish
  PROVE  HearInv'
<1>1. UNCHANGED <<session, offset, swallowed, pc, upd>>
  BY DEF HostOk, HostAuth, HostRefused, HostAccept, HostCountEnded, HostSent, HostTimeout, Vanish, devVars
<1>2. conn \in Connections
  BY DEF Inv, Types
<1>3. \/ conn' = conn /\ \/ host \in {"invited", "authing"} /\ host' \in {"authing", "accept"}
                         \/ host = "accept" /\ host' = "upload" /\ conn.to = session
                         \/ host \in {"sent", "upload"} /\ host' \in {"upload", "result"}
      \/ /\ host' = "failed"
         /\ conn' = conn \/ (\E h \in {"closed", "vanished"} : conn' = [conn EXCEPT !.host = h])
  BY DEF HostOk, HostAuth, HostRefused, HostAccept, HostCountEnded, HostSent, HostTimeout, Vanish, HostEnds
<1>4. CASE conn' = conn /\ host' # "failed"
  <2>1. HasOk' = HasOk
    BY <1>4 DEF HasOk
  <2>2. Here' => Here
    BY <1>1, <1>3, <1>4 DEF Here
  <2>3. Connected' /\ Sent' /\ OkIsHeard'
    BY <1>1, <1>3, <1>4, <2>2 DEF HearInv, Connected, Sent, OkIsHeard
  <2>4. Counts' /\ OkIsLast'
    BY <1>1, <1>3, <1>4 DEF Counts, OkIsLast
  <2>5. AllTaken'
    BY <1>1, <1>4, <2>1, <2>2 DEF HearInv, AllTaken
  <2> QED BY <2>3, <2>4, <2>5 DEF HearInv
<1>5. CASE host' = "failed"
  <2>1. conn'.to = conn.to /\ conn'.dev = conn.dev /\ conn'.down = conn.down
    BY <1>2, <1>3, <1>5 DEF Connections
  <2> QED BY <1>1, <1>5, <2>1 DEF HearInv, Here, Connected, Sent, Counts, AllTaken, OkIsLast, OkIsHeard
<1> QED BY <1>3, <1>4, <1>5


(* The next run is not the one that the connection leads to.               *)
LEMMA NewSessionHears ==
  ASSUME Inv, HearInv, NewSession PROVE HearInv'
<1>1. /\ session' = session + 1 /\ host' = "invited" /\ offset' = 0 /\ swallowed' = {}
      /\ UNCHANGED <<conn, pc, upd>>
  BY DEF NewSession, devVars
<1>2. session \in Nat /\ conn.to \in Nat /\ conn.to <= session
  BY OtaAssumption DEF Inv, ErrorHasE, Types, Connections
<1>3. conn'.to < session' /\ ~Here'
  BY <1>1, <1>2 DEF Here
<1>4. Connected'
  BY <1>1, <1>2, <1>3 DEF HearInv, Connected
<1>5. Sent'
  <2>1. session' \in Session
    <3>1. session < Len(Size) /\ Len(Size) \in Nat
      BY OtaAssumption DEF NewSession
    <3> QED BY <1>1, <1>2, <3>1 DEF Session
  <2>2. Size[session'] \in Nat
    BY <2>1, FileType
  <2> QED BY <1>1, <2>2 DEF Sent
<1> QED BY <1>1, <1>3, <1>4, <1>5 DEF HearInv, Counts, AllTaken, OkIsLast, OkIsHeard

(* Units that are sent are on the way, unless the device is gone; and      *)
(* there are none left to send behind an OK.                               *)
LEMMA SendHears ==
  ASSUME Inv, HearInv, HostSend PROVE HearInv'
<1>1. /\ host = "upload" /\ host' = "sent" /\ offset < Size[session]
      /\ UNCHANGED <<session, swallowed, pc, upd>>
  BY DEF HostSend, devVars
<1>2. session \in Session /\ offset \in Nat /\ conn \in Connections /\ conn.to = session
  BY <1>1 DEF Inv, Types, OneHost
<1>3. Size[session] \in Nat \ {0} /\ Chunk \in Nat \ {0}
  BY <1>2, FileType, OtaAssumption
<1> DEFINE n == IF Size[session] - offset < Chunk THEN Size[session] - offset ELSE Chunk
           piece == SubSeq(File(session), offset + 1, offset + n)
<1>4. n \in Nat \ {0} /\ offset + n <= Size[session]
  BY <1>1, <1>2, <1>3
<1>5. /\ offset' = offset + n
      /\ \/ conn.dev = "open" /\ conn' = [conn EXCEPT !.up = @ \o piece]
         \/ conn.dev # "open" /\ conn' = [conn EXCEPT !.rst = TRUE]
  BY DEF HostSend
<1> HIDE DEF n
<1>6. piece \in Seq(Unit) /\ Len(piece) = n
  <2>1. File(session) \in Seq(Unit) /\ Len(File(session)) = Size[session]
    BY <1>2, FileType
  <2>2. offset + 1 \in Nat \ {0} /\ offset + n \in Nat /\ offset + n - (offset + 1) + 1 = n
    BY <1>2, <1>4
  <2>3. piece \in Seq(Unit)
    BY <1>4, <2>1, <2>2, PieceType
  <2>4. Len(piece) = n
    BY <1>2, <1>4, <2>1, <2>2
  <2> QED BY <2>3, <2>4
<1> HIDE DEF piece
<1>7. /\ conn'.to = conn.to /\ conn'.down = conn.down /\ conn'.host = conn.host
      /\ conn'.dev = conn.dev
      /\ conn.dev = "open" => conn'.up = conn.up \o piece
  BY <1>2, <1>5 DEF Connections
<1>8. Here /\ ~HasOk /\ ~HasOk' /\ pc # "ended"
  <2>1. Here
    BY <1>1, <1>2 DEF Here
  <2>2. offset # Size[session]
    BY <1>1, <1>2, <1>3
  <2> QED BY <1>7, <2>1, <2>2 DEF HearInv, AllTaken, HasOk
<1>9. ASSUME pc = "receive"
      PROVE  conn'.up # <<>> /\ Len(conn'.up) = Len(conn.up) + n
  <2>1. conn'.up = conn.up \o piece
    BY <1>7, <1>9 DEF HearInv, Connected
  <2>2. conn.up \in Seq(Unit)
    BY <1>2 DEF Connections
  <2>3. Len(conn'.up) = Len(conn.up) + n /\ Len(conn.up) \in Nat
    BY <1>6, <2>1, <2>2
  <2> QED BY <1>4, <2>3
<1>10. Connected' /\ Sent' /\ OkIsHeard'
  BY <1>1, <1>4, <1>5, <1>7, <1>8 DEF HearInv, Connected, Sent, OkIsHeard
<1>11. Counts'
  BY <1>1, <1>8, <1>9 DEF Counts
<1>12. AllTaken'
  <2>1. ASSUME pc = "receive", ~upd.failed PROVE Len(upd.taken) + Len(conn'.up) = offset'
    <3>1. Len(upd.taken) + Len(conn.up) = offset
      BY <1>8, <2>1 DEF HearInv, AllTaken
    <3>2. Len(upd.taken) \in Nat /\ Len(conn.up) \in Nat
      BY <1>2 DEF Inv, Types, Updates, Connections
    <3>3. \A t, u, i \in Nat : t + (u + i) = (t + u) + i
      OBVIOUS
    <3>4. Len(upd.taken) + (Len(conn.up) + n) = (Len(upd.taken) + Len(conn.up)) + n
      BY <1>4, <3>2, <3>3
    <3> QED BY <1>5, <1>9, <2>1, <3>1, <3>4
  <2> QED BY <1>1, <1>8, <2>1 DEF AllTaken
<1>13. OkIsLast'
  BY <1>8 DEF OkIsLast
<1> QED BY <1>10, <1>11, <1>12, <1>13 DEF HearInv

(* A script that reads counts reads no OK: there is none on the way.       *)
LEMMA CountHears ==
  ASSUME Inv, HearInv, NEW k \in 1..Len(conn.down), HostCount(k) PROVE HearInv'
<1>1. /\ host = "sent" /\ host' = "upload"
      /\ conn' = [conn EXCEPT !.down = SubSeq(@, k + 1, Len(@))]
      /\ swallowed' = swallowed \cup (ToSet(Taken(k)) \ {"digits"})
      /\ UNCHANGED <<session, offset, pc, upd>>
  BY DEF HostCount, HostReads, devVars
<1>2. conn \in Connections /\ conn.to = session
  BY <1>1 DEF Inv, Types, OneHost
<1>3. conn' = [conn EXCEPT !.down = SubSeq(@, k + 1, Len(@)), !.host = conn.host]
  BY <1>1, <1>2 DEF Connections
<1>4. /\ conn'.to = conn.to /\ conn'.up = conn.up /\ (HasOk' => HasOk)
      /\ ~HasOk => "O" \notin ToSet(Taken(k))
  <2>1. conn.host \in {"open", "closed", "vanished"}
    BY <1>2 DEF Connections
  <2> QED BY <1>3, <2>1, Reading
<1>5. conn'.host = conn.host /\ conn'.dev = conn.dev
  BY <1>1, <1>2 DEF Connections
<1>6. Here /\ ~HasOk
  BY <1>1, <1>2 DEF Here, HearInv, OkIsLast
<1>7. Connected' /\ Sent' /\ OkIsHeard'
  BY <1>1, <1>4, <1>5, <1>6 DEF HearInv, Connected, Sent, OkIsHeard
<1>8. Counts' /\ OkIsLast'
  BY <1>1 DEF Counts, OkIsLast
<1>9. AllTaken'
  BY <1>1, <1>4, <1>6 DEF HearInv, AllTaken
<1> QED BY <1>7, <1>8, <1>9 DEF HearInv

LEMMA ResultHears ==
  ASSUME Inv, HearInv, NEW k \in 1..Len(conn.down), HostResult(k) PROVE HearInv'
<1>1. /\ host = "result" /\ host' = Verdict(ToSet(Taken(k)))
      /\ UNCHANGED <<session, offset, swallowed, pc, upd>>
  BY DEF HostResult, devVars
<1> DEFINE h == IF host' = "result" THEN conn.host ELSE "closed"
<1>2. conn \in Connections /\ conn.to = session /\ Here
  BY <1>1 DEF Inv, Types, OneHost, Here
<1>3. conn' = [conn EXCEPT !.down = SubSeq(@, k + 1, Len(@)), !.host = h]
  BY DEF HostResult
<1>4. h \in {"open", "closed", "vanished"}
  BY <1>2 DEF Connections
<1>5. conn'.host = h /\ conn'.dev = conn.dev
  BY <1>2, <1>3 DEF Connections
<1>6. host' \in {"ok", "failed", "result"}
  BY <1>1 DEF Verdict
<1>7. Here' => host' = "result" /\ conn'.host = conn.host
  BY <1>5, <1>6 DEF Here
<1> HIDE DEF h
<1>8. conn'.to = conn.to /\ conn'.up = conn.up /\ (HasOk' => HasOk)
  BY <1>3, <1>4, Reading
<1>9. Connected' /\ Sent' /\ OkIsHeard'
  BY <1>1, <1>2, <1>5, <1>6, <1>7, <1>8 DEF HearInv, Connected, Sent, OkIsHeard
<1>10. Counts' /\ OkIsLast'
  BY <1>6 DEF Counts, OkIsLast
<1>11. AllTaken'
  BY <1>1, <1>2, <1>7, <1>8 DEF HearInv, AllTaken
<1> QED BY <1>9, <1>10, <1>11 DEF HearInv

LEMMA NextHear == Inv /\ HearInv /\ [Next]_vars => HearInv'
  BY StillSteps, LeavingSteps, ConnectHears, ReceiveHears, EndOkHears, SayOkHears, TurnHears,
     NewSessionHears, SendHears, CountHears, ResultHears
     DEF Next, Handle, Serve

(* The OK is never read in the place of a count, however the answers are   *)
(* cut into pieces, for any sizes of the files and of the chunks.          *)
THEOREM SpecOkIsHeard == Spec => []OkIsHeard
<1>1. HearInv => OkIsHeard
  BY DEF HearInv
<1> QED BY InitInv, NextInv, InitHear, NextHear, <1>1, PTL DEF Spec
=============================================================================
