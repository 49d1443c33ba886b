----------------------------- MODULE ArduinoOta -----------------------------
(***************************************************************************)
(* An update over the air: ArduinoOTA on the device (libraries/ArduinoOTA) *)
(* and espota.py on the host, with the network between them.  The host     *)
(* invites by a datagram, the device may ask for a proof of the password,  *)
(* then opens a TCP connection to the host, takes the file from it,        *)
(* answers each write with a count and the end with OK or an error.        *)
(* Datagrams are lost, repeated and late; the bytes of the answers come in *)
(* any pieces, of which a model element is what recv() cannot cut with a   *)
(* difference; the device is reset, the host gives up, is run again, or    *)
(* vanishes.  Update stands for what module Updater promises.              *)
(***************************************************************************)
EXTENDS Naturals, Sequences, SequencesExt

CONSTANTS Size,        \* of the file of each session (run of espota.py), in units
          Chunk,       \* units the host sends at a time
          MaxNonce     \* bound: questions for the password

ASSUME OtaAssumption == /\ Size \in Seq(Nat \ {0})
                        /\ Chunk \in Nat \ {0} /\ MaxNonce \in Nat

VARIABLES password,    \* one is set
          state,       \* _state
          inv, nonce,  \* session of _size, _md5, _ota_port; the last _nonce
          pc,          \* where handle() is
          upd,         \* Update
          installed,   \* the file of the last command left to eboot
          session, host, offset,    \* espota.py
          swallowed,   \* history: answers read while the file was being sent
          toDevice, toHost,         \* datagrams sent
          conn         \* the TCP connection: what is on the way, and its two ends

devVars == <<state, inv, nonce, pc, upd, installed>>
hostVars == <<session, host, offset, swallowed>>
vars == <<password, devVars, hostVars, toDevice, toHost, conn>>

Session == 1..Len(Size)
File(s) == [i \in 1..Size[s] |-> <<s, i>>]
NoUpdate == [job |-> 0, taken |-> <<>>, failed |-> FALSE]

(* Any datagram sent may be received, again and late, or never.            *)
Invitation(s) == [op |-> "invite", from |-> s, proof |-> 0]
Proof(s, n) == [op |-> "auth", from |-> s, proof |-> n]
Reply(s, op, n) == [to |-> s, op |-> op, nonce |-> n]

Init == /\ password \in BOOLEAN
        /\ state = "IDLE" /\ inv = 0 /\ nonce = 0
        /\ pc = "loop" /\ upd = NoUpdate /\ installed = <<>>
        /\ session = 0 /\ host = "off" /\ offset = 0 /\ swallowed = {}
        /\ toDevice = {} /\ toHost = {}
        /\ conn = [to |-> 0, up |-> <<>>, down |-> <<>>, host |-> "closed", dev |-> "closed", rst |-> FALSE]

-----------------------------------------------------------------------------
(* _onRx() *)

OnInvitation(m) == /\ state = "IDLE" /\ m.op = "invite"
                   /\ inv' = m.from
                   /\ IF password
                      THEN /\ nonce < MaxNonce
                           /\ nonce' = nonce + 1
                           /\ toHost' = toHost \cup {Reply(m.from, "AUTH", nonce')}
                           /\ state' = "WAITAUTH"
                      ELSE state' = "RUNUPDATE" /\ UNCHANGED <<nonce, toHost>>

(* Anything else than the right proof ends the wait, a new invitation too. *)
OnAuth(m) == /\ state = "WAITAUTH" /\ m.op = "auth"
             /\ IF m.proof = nonce
                THEN state' = "RUNUPDATE" /\ UNCHANGED toHost
                ELSE state' = "IDLE" /\ toHost' = toHost \cup {Reply(inv, "FAIL", 0)}
             /\ UNCHANGED <<inv, nonce>>

OnOther(m) == /\ state = "WAITAUTH" /\ m.op = "invite"
              /\ state' = "IDLE"
              /\ UNCHANGED <<inv, nonce, toHost>>

OnRx(m) == /\ OnInvitation(m) \/ OnAuth(m) \/ OnOther(m)
           /\ UNCHANGED <<password, pc, upd, installed, hostVars, toDevice, conn>>

-----------------------------------------------------------------------------
(* handle() and _runUpdate() *)

BeginRefused == /\ pc = "loop" /\ state = "RUNUPDATE"
                /\ toHost' = toHost \cup {Reply(inv, "ERR", 0)}
                /\ state' = "IDLE"
                /\ UNCHANGED <<password, inv, nonce, pc, upd, installed, hostVars, toDevice, conn>>

Begin == /\ pc = "loop" /\ state = "RUNUPDATE"
         /\ toHost' = toHost \cup {Reply(inv, "OK", 0)}
         /\ upd' = [job |-> inv, taken |-> <<>>, failed |-> FALSE]
         /\ pc' = "begun"
         /\ UNCHANGED <<password, state, inv, nonce, installed, hostVars, toDevice, conn>>

Listening == host \in {"invited", "authing", "accept"} /\ conn.to # session

Connect == /\ pc = "begun" /\ Listening
           /\ conn' = [to |-> session, up |-> <<>>, down |-> <<>>, host |-> "open", dev |-> "open", rst |-> FALSE]
           /\ pc' = "receive"
           /\ UNCHANGED <<password, state, inv, nonce, upd, installed, hostVars, toDevice, toHost>>

(* Goes on without a return: nothing is received, and end() fails.         *)
ConnectFails == /\ pc = "begun"
                /\ upd' = NoUpdate
                /\ state' = "IDLE" /\ pc' = "loop"
                /\ UNCHANGED <<password, inv, nonce, installed, hostVars, toDevice, toHost, conn>>

isFinished == upd.failed \/ Len(upd.taken) = Size[upd.job]
Gone == conn.host = "closed" /\ conn.up = <<>>

(* The loop over client; isFinished() also holds after an error.           *)
Over_Patient == isFinished      \* mutant: while (!Update.isFinished())
Over == isFinished \/ Gone

(* Data that comes in the last millisecond of the wait is taken, but for a *)
(* failure: the state is OTA_IDLE and the update goes on.                  *)
TooLate == state' \in {state, "IDLE"}

(* A count, which the network may cut in two.                              *)
Count == {<<"digits">>, <<"digits", "digits">>}

Receive(k) ==
    /\ pc = "receive" /\ ~Over
    /\ k <= Len(conn.up) /\ Len(upd.taken) + k <= Size[upd.job]
    /\ TooLate
    /\ \E answer \in Count \cup {<<>>} :
       /\ \/ /\ upd' = [upd EXCEPT !.taken = @ \o SubSeq(conn.up, 1, k)]
             /\ answer # <<>>
          \/ upd' = [upd EXCEPT !.failed = TRUE]      \* a flash access fails
       /\ conn' = [conn EXCEPT !.up = SubSeq(@, k + 1, Len(@)), !.down = @ \o answer]
    /\ UNCHANGED <<password, inv, nonce, pc, installed, hostVars, toDevice, toHost>>

(* Update.end(): complete, and the MD5 is that of the invitation.          *)
Complete_Size == ~upd.failed /\ Len(upd.taken) = Size[upd.job]      \* mutant: no MD5
Complete == ~upd.failed /\ upd.taken = File(upd.job)

EndOk == /\ pc = "receive" /\ Over /\ Complete
         /\ installed' = upd.taken
         /\ upd' = NoUpdate
         /\ pc' = "ended"
         /\ UNCHANGED <<password, state, inv, nonce, hostVars, toDevice, toHost, conn>>

(* Update.printError(): "ERROR[n]: ", then a text with an E or without one,*)
(* and no other O.  The E of ERROR and the O behind it may be read apart.  *)
ErrorText == {<<"E", "RRO">>, <<"E", "RRO", "E">>}

(* printError(client), and the client is destroyed.                        *)
EndError == /\ pc = "receive" /\ Over /\ ~Complete
            /\ \E text \in ErrorText :
                 conn' = [conn EXCEPT !.up = <<>>, !.down = @ \o text, !.dev = "closed"]
            /\ upd' = NoUpdate
            /\ state' = "IDLE" /\ pc' = "loop"
            /\ UNCHANGED <<password, inv, nonce, installed, hostVars, toDevice, toHost>>

(* "Ensure last count packet has been sent out": flush() and delay(1000),  *)
(* in which a host that is there reads what was sent before.               *)
CountsAreRead_AtOnce == TRUE      \* mutant: no delay
CountsAreRead == conn.host = "open" => conn.down = <<>>

SayOk == /\ pc = "ended" /\ CountsAreRead
         /\ conn' = [conn EXCEPT !.down = Append(@, "O")]
         /\ pc' = "told"
         /\ UNCHANGED <<password, state, inv, nonce, upd, installed, hostVars, toDevice, toHost>>

(* stop(); with a restart or without one the state is OTA_IDLE.            *)
Finish == /\ pc = "told"
          /\ conn' = [conn EXCEPT !.dev = "closed"]
          /\ state' = "IDLE" /\ pc' = "loop"
          /\ UNCHANGED <<password, inv, nonce, upd, installed, hostVars, toDevice, toHost>>

Reset == /\ session > 0
         /\ state' = "IDLE" /\ pc' = "loop" /\ upd' = NoUpdate
         /\ conn' = IF conn.dev = "open" THEN [conn EXCEPT !.up = <<>>, !.dev = "gone"] ELSE conn
         /\ UNCHANGED <<password, inv, nonce, installed, hostVars, toDevice, toHost>>

-----------------------------------------------------------------------------
(* serve() of espota.py *)

NewSession == /\ host \in {"off", "ok", "failed"} /\ session < Len(Size)
              /\ session' = session + 1
              /\ toDevice' = toDevice \cup {Invitation(session')}
              /\ host' = "invited" /\ offset' = 0 /\ swallowed' = {}
              /\ UNCHANGED <<password, devVars, toHost, conn>>

(* The script ends, and its sockets are closed.                            *)
HostEnds(verdict) == /\ host' = verdict
                     /\ conn' = IF conn.to = session THEN [conn EXCEPT !.host = "closed"] ELSE conn

HostOk == \E r \in toHost :
    /\ host \in {"invited", "authing"}
    /\ r.to = session /\ r.op = "OK"
    /\ host' = "accept"
    /\ UNCHANGED <<password, devVars, session, offset, swallowed, toDevice, toHost, conn>>

HostAuth == \E r \in toHost :
    /\ host = "invited"
    /\ r.to = session /\ r.op = "AUTH"
    /\ toDevice' = toDevice \cup {Proof(session, r.nonce)}
    /\ host' = "authing"
    /\ UNCHANGED <<password, devVars, session, offset, swallowed, toHost, conn>>

HostRefused == \E r \in toHost :
    /\ host \in {"invited", "authing"}
    /\ r.to = session /\ r.op # "OK" /\ (r.op = "AUTH" => host = "authing")
    /\ HostEnds("failed")
    /\ UNCHANGED <<password, devVars, session, offset, swallowed, toDevice, toHost>>

HostAccept == /\ host = "accept" /\ conn.to = session
              /\ host' = "upload"
              /\ UNCHANGED <<password, devVars, session, offset, swallowed, toDevice, toHost, conn>>

HostSend == /\ host = "upload" /\ offset < Size[session]
            /\ LET n == IF Size[session] - offset < Chunk THEN Size[session] - offset ELSE Chunk
               IN  /\ offset' = offset + n
                   /\ conn' = IF conn.dev = "open"
                              THEN [conn EXCEPT !.up = @ \o SubSeq(File(session), offset + 1, offset + n)]
                              ELSE [conn EXCEPT !.rst = TRUE]
            /\ host' = "sent"
            /\ UNCHANGED <<password, devVars, session, swallowed, toDevice, toHost>>

(* recv(): some of what has come; nothing at all once the device has closed*)
(* the connection.                                                         *)
Ended == conn.down = <<>> /\ conn.dev = "closed"
Taken(k) == SubSeq(conn.down, 1, k)
HostReads(k) == k <= Len(conn.down) /\ conn' = [conn EXCEPT !.down = SubSeq(@, k + 1, Len(@))]

HostCount(k) == /\ host = "sent"
                /\ HostReads(k)
                /\ swallowed' = swallowed \cup (ToSet(Taken(k)) \ {"digits"})
                /\ host' = "upload"
                /\ UNCHANGED <<password, devVars, session, offset, toDevice, toHost>>

HostCountEnded == /\ host = "sent" /\ Ended
                  /\ host' = "upload"
                  /\ UNCHANGED <<password, devVars, session, offset, swallowed, toDevice, toHost, conn>>

HostSent == /\ host = "upload" /\ offset = Size[session]
            /\ host' = "result"
            /\ UNCHANGED <<password, devVars, session, offset, swallowed, toDevice, toHost, conn>>

(* "Check for E first, since both strings contain O": within what one      *)
(* recv() returns.                                                         *)
HasO(answers) == answers \cap {"O", "RRO"} # {}
Verdict_OFirst(answers) == IF HasO(answers) THEN "ok"      \* mutant
                           ELSE IF "E" \in answers THEN "failed" ELSE "result"
Verdict(answers) == IF "E" \in answers THEN "failed" ELSE IF HasO(answers) THEN "ok" ELSE "result"

HostResult(k) == /\ host = "result"
                 /\ k <= Len(conn.down)
                 /\ host' = Verdict(ToSet(Taken(k)))
                 /\ conn' = [conn EXCEPT !.down = SubSeq(@, k + 1, Len(@)),
                                         !.host = IF host' = "result" THEN @ ELSE "closed"]
                 /\ UNCHANGED <<password, devVars, session, offset, swallowed, toDevice, toHost>>

(* A receive times out: not when the device has closed the connection.     *)
HostTimeout == /\ \/ host \in {"invited", "authing"}
                  \/ host = "accept" /\ conn.to # session
                  \/ host \in {"sent", "result"} /\ conn.down = <<>> /\ conn.dev # "closed"
                  \/ host \in {"upload", "sent", "result"} /\ conn.rst
               /\ HostEnds("failed")
               /\ UNCHANGED <<password, devVars, session, offset, swallowed, toDevice, toHost>>

(* The host is gone, and nothing tells the device.                         *)
Vanish == /\ host \in {"upload", "sent", "result"}
          /\ host' = "failed"
          /\ conn' = [conn EXCEPT !.host = "vanished"]
          /\ UNCHANGED <<password, devVars, session, offset, swallowed, toDevice, toHost>>

-----------------------------------------------------------------------------
Handle == \/ BeginRefused \/ Begin \/ Connect \/ ConnectFails
          \/ (\E k \in 1..Len(conn.up) : Receive(k))
          \/ EndOk \/ EndError \/ SayOk \/ Finish

Serve == \/ HostOk \/ HostAuth \/ HostRefused \/ HostAccept \/ HostSend \/ HostCountEnded \/ HostSent
         \/ (\E k \in 1..Len(conn.down) : HostCount(k) \/ HostResult(k))
         \/ HostTimeout

Next == \/ \E m \in toDevice : OnRx(m)
        \/ Handle \/ Serve
        \/ Reset \/ NewSession \/ Vanish

Spec == Init /\ [][Next]_vars

(* The sketch calls handle() from loop(), and the script runs.             *)
FairSpec == Spec /\ WF_vars(Handle) /\ WF_vars(Serve)

-----------------------------------------------------------------------------
(* What the device leaves to eboot is one file of one session, whole, also *)
(* when an old invitation made it connect to another session's host.       *)
InstallsWhole == installed = <<>> \/ \E s \in Session : installed = File(s)

(* espota.py reports success only when the device has installed its file,  *)
(* but for one way, which ResultIsTrue shows: it has read the E of ERROR as*)
(* the end of a count, and takes the O of what is left for that of OK.     *)
OkMeansInstalled == host = "ok" => installed = File(session) \/ "E" \in swallowed

(* The OK is never read in the place of a count: the loop that sends the   *)
(* file forgets it, and the script would wait for another.                 *)
OkIsHeard == "O" \notin swallowed


(* espota.py:186-196: the device "only sends digits or 'OK'", and the loop *)
(* for the result looks for "either the E in ERROR or the O in OK", "for E *)
(* first, since both strings contain O": it ends, by a failure (a time-out *)
(* is one) or by success of the file that is installed.                    *)
ResultIsTrue == host = "result" ~> host = "failed" \/ (host = "ok" /\ installed = File(session))
=============================================================================
