------------------------------- MODULE RvSsh -------------------------------
(***************************************************************************)
(* A session of the ssh driver (components/rv9_ssh/src/drv_ssh.c and       *)
(* ssh_trans.c): keys, a login, one channel with credit both ways, and an  *)
(* end.  The client is external: it keeps the protocol and leaves when it  *)
(* likes.  The program's calls come one at a time.                         *)
(*                                                                         *)
(* The driver runs from one read of the connection to the next with        *)
(* nothing between but writes, so a step is a packet and what is done      *)
(* about it.  Bytes are counted, not spelled.                              *)
(***************************************************************************)
EXTENDS Integers, Sequences, Functions

CONSTANTS
  Window,          \* SSH_WINDOW_INIT
  MaxPayload,      \* SSH_MAX_PAYLOAD
  ObufMax,         \* sizeof obuf
  AuthTries,       \* AUTH_TRIES
  Spins,           \* packets handled while the client gives no credit: 1000
  ReadSizes, WriteSizes,  \* what a program reads and writes at a time
  Sittings,        \* bound: the clients there are.  window: what it opens its channel
                   \* with; logins, asks: requests before and after the login; typed,
                   \* said: bytes from the client and from the program
  Ample            \* a window that no program here uses up

VARIABLES
  phase,           \* how far ssh_open has come; "shell"; the steps of ssh_close
  sealIn, sealOut, \* enc_in, enc_out
  tries,           \* of authenticate
  chan,            \* chan_open, my_window, peer_window
  pend,            \* pend_pos and pend_len
  obuf,            \* obuf_len
  ended,           \* in_eof and eof
  call,            \* the program's call that is inside the driver
  toClient, toServer,     \* the connection: packets, in order
  client,          \* the other end
  sitting,         \* which client it is
  flow            \* bytes written, bytes lost, and whether a deadline passed

sessionVars == <<phase, sealIn, sealOut, tries, chan, pend, obuf, ended, call>>
sshVars == <<sessionVars, toClient, toServer, client, sitting, flow>>

ASSUME SshAssumption ==
  /\ {Window, MaxPayload, ObufMax, AuthTries, Spins, Ample} \subseteq Nat \ {0}
  /\ ReadSizes \cup WriteSizes \subseteq Nat \ {0}
  /\ Sittings \subseteq [window : Nat, logins : Nat, asks : Nat, typed : Nat, said : Nat]
  /\ \A s \in Sittings : s.window >= Ample => s.window > s.said

Lesser(a, b) == IF a < b THEN a ELSE b

\* A packet: what it is, how many bytes where that matters, and whether its
\* sender had changed to the new keys.
Packet(is, n, sealed) == [is |-> is, n |-> n, sealed |-> sealed]
NoCall == [is |-> "none", left |-> 0, want |-> 0, spins |-> 0]
NoClient == [at |-> "hello", guess |-> "none", sealIn |-> FALSE, sealOut |-> FALSE,
             asked |-> <<>>, asks |-> 0, login |-> FALSE, chan |-> FALSE,
             credit |-> 0, typed |-> 0, eof |-> FALSE, heard |-> 0, shown |-> 0, saw |-> FALSE,
             end |-> "none"]

SshInit ==
  /\ phase = "kexinit" /\ sealIn = FALSE /\ sealOut = FALSE /\ tries = 0
  /\ chan = [open |-> FALSE, mine |-> 0, peers |-> 0]
  /\ pend = [pos |-> 0, len |-> 0] /\ obuf = 0 /\ ended = {} /\ call = NoCall
  \* send_kexinit comes before the first read.
  /\ toClient = <<Packet("kexinit", 0, FALSE)>> /\ toServer = <<>>
  /\ client = NoClient /\ sitting \in Sittings
  /\ flow = [said |-> 0, unsaid |-> 0, lost |-> 0, late |-> FALSE]

Unread == pend.len - pend.pos
PendMax == Window + MaxPayload

\* What the packets of some kinds carry between them.
Carried(packets, kinds) ==
  SumFunction([i \in DOMAIN packets |-> IF packets[i].is \in kinds THEN packets[i].n ELSE 0])

(***************************************************************************)
(* What the driver sends, and what it reads.                               *)
(***************************************************************************)
\* ssh_packet_send.
Says(is, n) == Append(toClient, Packet(is, n, sealOut))
Say(is) == toClient' = Says(is, 0)

\* send_data waits for credit.
Pumping == call.left > 0 /\ chan.peers = 0 /\ call.spins < Spins

\* Where ssh_packet_read is called: all through ssh_open, while a read has nothing
\* to give, and while there is no credit for what is to be sent.
Reads ==
  \/ phase \in {"kexinit", "guess", "ecdh", "newkeys", "auth", "setup"}
  \/ phase = "shell" /\ call.is = "read" /\ call.left = 0 /\ Unread = 0 /\ ended = {}
  \/ phase \in {"shell", "closing"} /\ Pumping

Takes == Reads /\ toServer # <<>> /\ toServer' = Tail(toServer)

(***************************************************************************)
(* ssh_transport.                                                          *)
(***************************************************************************)
\* check_kexinit: a packet is to be thrown away only if the guess was wrong.
Kexinit(m) ==
  /\ phase = "kexinit"
  /\ IF m.is = "kexinit strange" THEN Say("disconnect") /\ phase' = "closed"
     ELSE /\ phase' = IF m.is = "kexinit wrong" THEN "guess" ELSE "ecdh"
          /\ UNCHANGED toClient
  /\ UNCHANGED <<sealIn, sealOut, tries>>

Guess(m) ==
  phase = "guess" /\ phase' = "ecdh" /\ UNCHANGED <<toClient, sealIn, sealOut, tries>>

\* The reply and NEWKEYS in the clear, and sealed from there on: first the list of
\* signatures, for a client that wants it.  "The two directions have separate
\* switches".
EcdhInit(m) ==
  /\ phase = "ecdh" /\ phase' = "newkeys"
  /\ toClient' = toClient \o <<Packet("reply", 0, FALSE), Packet("newkeys", 0, FALSE),
                               Packet("extinfo", 0, TRUE)>>
  /\ sealOut' = TRUE /\ UNCHANGED <<sealIn, tries>>

NewKeys(m) ==
  /\ phase = "newkeys" /\ phase' = "auth" /\ sealIn' = TRUE
  /\ UNCHANGED <<toClient, sealOut, tries>>

(***************************************************************************)
(* authenticate.                                                           *)
(***************************************************************************)
Questions == {"service", "none", "known key", "strange key"}
Attempts == {"bad password", "bad signature"}
Proofs == {"password", "signature"}

ReplyTo(is) ==
  CASE is = "service" -> "accepted" [] is = "known key" -> "pk ok"
    [] is \in {"none", "strange key"} -> "failure"

\* Asking what is on offer, or whether a key would do, is not an attempt.
Login(m) ==
  /\ phase = "auth" /\ m.is \in Questions \cup Attempts \cup Proofs
  /\ \/ m.is \in Questions /\ Say(ReplyTo(m.is)) /\ UNCHANGED <<phase, tries>>
     \/ m.is \in Proofs /\ Say("success") /\ phase' = "setup" /\ UNCHANGED tries
     \/ /\ m.is \in Attempts /\ tries' = tries + 1
        /\ IF tries' >= AuthTries THEN Say("disconnect") /\ phase' = "closed"
           ELSE Say("failure") /\ UNCHANGED phase
  /\ UNCHANGED <<sealIn, sealOut>>

SetsUp ==
  /\ Takes
  /\ LET m == Head(toServer) IN Kexinit(m) \/ Guess(m) \/ EcdhInit(m) \/ NewKeys(m) \/ Login(m)
  /\ UNCHANGED <<chan, pend, obuf, ended, call, client, flow>>

(***************************************************************************)
(* handle_packet.                                                          *)
(***************************************************************************)
\* channel_open: one session channel, and only one.
OpenChannel(m) ==
  /\ m.is = "open"
  /\ IF chan.open THEN Say("open failure") /\ UNCHANGED chan
     ELSE /\ chan' = [open |-> TRUE, mine |-> Window, peers |-> m.n]
          /\ toClient' = Says("confirmation", Window)
  /\ UNCHANGED <<pend, ended>>

\* channel_request, and a global request, which nothing here grants.  The size of
\* a window that changed is never answered.
Request(m) ==
  /\ m.is \in {"shell", "pty", "unknown", "global", "change"}
  /\ \/ m.is \in {"shell", "pty"} /\ Say("channel success")
     \/ m.is = "unknown" /\ Say("channel failure")
     \/ m.is = "global" /\ Say("request failure")
     \/ m.is = "change" /\ UNCHANGED toClient
  /\ UNCHANGED <<chan, pend, ended>>

Adjusted(m) ==
  /\ m.is = "adjust" /\ chan' = [chan EXCEPT !.peers = @ + m.n]
  /\ UNCHANGED <<toClient, pend, ended>>

\* Room is made only where everything has been read.
MadeRoom == IF pend.pos > 0 /\ pend.pos = pend.len THEN [pos |-> 0, len |-> 0] ELSE pend
Fits(m) == MadeRoom.len + m.n <= PendMax

Data(m) ==
  /\ m.is = "data"
  /\ pend' = IF Fits(m) THEN [MadeRoom EXCEPT !.len = @ + m.n] ELSE MadeRoom
  /\ UNCHANGED <<toClient, chan, ended>>

\* EOF is the end of what is typed, not of the session.
Ending(m) ==
  /\ m.is \in {"eof", "disconnect", "rekey"}
  /\ ended' = ended \cup (IF m.is = "eof" THEN {"in"} ELSE {"all"})
  /\ IF m.is = "rekey" THEN Say("disconnect") ELSE UNCHANGED toClient
  /\ UNCHANGED <<chan, pend>>

\* send_data gives up: what it had taken out of obuf is gone.  A read has set eof.
Abandoned == IF call.is = "close" THEN [NoCall EXCEPT !.is = "close"] ELSE NoCall

Overrun(m) == IF m.is = "data" /\ ~Fits(m) THEN m.n ELSE 0

\* In the middle of send_data: it goes on waiting, or gives up.
Pumped(m) ==
  /\ phase \in {"shell", "closing"} /\ UNCHANGED phase
  /\ IF Pumping /\ "all" \in ended'
     THEN /\ call' = Abandoned
          /\ flow' = [flow EXCEPT !.lost = @ + Overrun(m), !.unsaid = @ + call.left]
     ELSE /\ call' = IF Pumping THEN [call EXCEPT !.spins = @ + 1] ELSE call
          /\ flow' = [flow EXCEPT !.lost = @ + Overrun(m)]

HandlesPacket ==
  /\ Takes /\ phase \in {"setup", "shell", "closing"}
  /\ LET m == Head(toServer) IN
       /\ OpenChannel(m) \/ Request(m) \/ Adjusted(m) \/ Data(m) \/ Ending(m)
       /\ \/ /\ phase = "setup" /\ UNCHANGED <<call, flow>>
             /\ phase' = IF "all" \in ended' THEN "closed"
                         ELSE IF m.is = "shell" THEN "shell" ELSE phase
          \/ Pumped(m)
  /\ UNCHANGED <<sealIn, sealOut, tries, obuf, client>>

(***************************************************************************)
(* ssh_read, ssh_write, ssh_flush and ssh_send_data.                       *)
(***************************************************************************)
\* Whatever the program has written is said before it waits for an answer.
ReadSsh(n) ==
  /\ phase = "shell" /\ call.is = "none"
  /\ call' = [is |-> "read", left |-> obuf, want |-> n, spins |-> 0] /\ obuf' = 0
  /\ UNCHANGED <<phase, sealIn, sealOut, tries, chan, pend, ended, toClient, toServer>>
  /\ UNCHANGED <<client, flow>>

WriteSsh(n) ==
  /\ phase = "shell" /\ call.is = "none" /\ "all" \notin ended
  /\ flow.said + n <= sitting.said
  /\ call' = [is |-> "write", left |-> 0, want |-> n, spins |-> 0]
  /\ UNCHANGED <<phase, sealIn, sealOut, tries, chan, pend, obuf, ended, toClient, toServer>>
  /\ UNCHANGED <<client, flow>>

\* As much as there is room for, and a flush where there is none.
Gather ==
  /\ call.is = "write" /\ call.left = 0
  /\ LET k == Lesser(ObufMax - obuf, call.want)
     IN IF k = 0
        THEN call' = [call EXCEPT !.left = obuf, !.spins = 0] /\ obuf' = 0 /\ UNCHANGED flow
        ELSE /\ obuf' = obuf + k /\ flow' = [flow EXCEPT !.said = @ + k]
             /\ call' = IF k = call.want THEN NoCall ELSE [call EXCEPT !.want = @ - k]
  /\ UNCHANGED <<phase, sealIn, sealOut, tries, chan, pend, ended, toClient, toServer, client>>

\* A packet of what the client, and the buffer, have room for.
SendData ==
  /\ phase \in {"shell", "closing"} /\ call.left > 0 /\ chan.peers > 0
  /\ LET n == Lesser(Lesser(call.left, chan.peers), MaxPayload)
     IN /\ toClient' = Says("data", n)
        /\ chan' = [chan EXCEPT !.peers = @ - n]
        /\ call' = [call EXCEPT !.left = @ - n, !.spins = 0]
  /\ UNCHANGED <<phase, sealIn, sealOut, tries, pend, obuf, ended, toServer, client, flow>>

\* RV9_IO_ERR_TIMEOUT.
GivesUp ==
  /\ phase \in {"shell", "closing"} /\ call.left > 0 /\ chan.peers = 0 /\ call.spins = Spins
  /\ call' = Abandoned /\ flow' = [flow EXCEPT !.unsaid = @ + call.left]
  /\ ended' = IF call.is = "read" THEN ended \cup {"all"} ELSE ended
  /\ UNCHANGED <<phase, sealIn, sealOut, tries, chan, pend, obuf, toClient, toServer, client>>

\* Bug: half a window goes back whatever was consumed.
TopUpHalf(used) ==
  LET mine == IF chan.mine > used THEN chan.mine - used ELSE 0
  IN IF mine > Window \div 2 THEN chan' = [chan EXCEPT !.mine = mine] /\ UNCHANGED toClient
     ELSE /\ chan' = [chan EXCEPT !.mine = Window]
          /\ toClient' = Says("adjust", Window)

\* window_top_up: credit goes back when the bytes are read and not when they
\* arrive, and in one go once half is spent.
TopUp(used) ==
  LET mine == IF chan.mine > used THEN chan.mine - used ELSE 0
  IN IF mine > Window \div 2 THEN chan' = [chan EXCEPT !.mine = mine] /\ UNCHANGED toClient
     ELSE /\ chan' = [chan EXCEPT !.mine = Window]
          /\ toClient' = Says("adjust", Window - mine)

ReadDone ==
  /\ phase = "shell" /\ call.is = "read" /\ call.left = 0 /\ Unread > 0
  /\ LET n == Lesser(Unread, call.want)
     IN /\ pend' = IF n = Unread THEN [pos |-> 0, len |-> 0] ELSE [pend EXCEPT !.pos = @ + n]
        /\ TopUp(n)
  /\ call' = NoCall
  /\ UNCHANGED <<phase, sealIn, sealOut, tries, obuf, ended, toServer, client, flow>>

ReadFails ==
  /\ phase = "shell" /\ call.is = "read" /\ call.left = 0 /\ Unread = 0 /\ ended # {}
  /\ call' = NoCall
  /\ UNCHANGED <<phase, sealIn, sealOut, tries, chan, pend, obuf, ended, toClient, toServer>>
  /\ UNCHANGED <<client, flow>>

(***************************************************************************)
(* ssh_close.                                                              *)
(***************************************************************************)
CloseSsh ==
  /\ phase = "shell" /\ call.is = "none"
  /\ IF "all" \in ended THEN phase' = "draining" /\ UNCHANGED <<call, obuf>>
     ELSE /\ phase' = "closing" /\ obuf' = 0
          /\ call' = [is |-> "close", left |-> obuf, want |-> 0, spins |-> 0]
  /\ UNCHANGED <<sealIn, sealOut, tries, chan, pend, ended, toClient, toServer, client, flow>>

Goodbyes(kinds) == toClient \o [i \in DOMAIN kinds |-> Packet(kinds[i], 0, sealOut)]

\* Bug: an explicit goodbye, at once.
FarewellAtOnce ==
  /\ phase = "closing" /\ call.left = 0 /\ phase' = "draining" /\ call' = NoCall
  /\ toClient' = Goodbyes(<<"status", "eof", "close", "disconnect">>)
  /\ UNCHANGED <<sealIn, sealOut, tries, chan, pend, obuf, ended, toServer, client, flow>>

\* What ends the session is the close of its channel.
Farewell ==
  /\ phase = "closing" /\ call.left = 0 /\ phase' = "draining" /\ call' = NoCall
  /\ toClient' = Goodbyes(<<"status", "eof", "close">>)
  /\ UNCHANGED <<sealIn, sealOut, tries, chan, pend, obuf, ended, toServer, client, flow>>

\* The client hangs up first; what it still says is read and thrown away.
DrainClient ==
  /\ phase = "draining"
  /\ IF toServer # <<>> THEN toServer' = Tail(toServer) /\ UNCHANGED phase
     ELSE client.at = "gone" /\ phase' = "closed" /\ UNCHANGED toServer
  /\ UNCHANGED <<sealIn, sealOut, tries, chan, pend, obuf, ended, call, toClient, client, flow>>

\* Three seconds have passed: an explicit goodbye, and the connection goes.  A socket
\* closed with data unread is reset, and what was under way is lost.
PastDeadline ==
  /\ phase = "draining" /\ phase' = "closed" /\ client.at # "gone"
  /\ toClient' \in {<<>>, IF "all" \in ended THEN toClient ELSE Says("disconnect", 0)}
  /\ toServer' = <<>> /\ flow' = [flow EXCEPT !.late = TRUE]
  /\ UNCHANGED <<sealIn, sealOut, tries, chan, pend, obuf, ended, call, client>>

\* ssh_hangup, a connection that breaks, or an end of it that read_exact is told of:
\* ssh_open fails, or the call inside does and eof is set.
Cut ==
  /\ phase # "closed"
  /\ toClient' = <<>> /\ toServer' = <<>>
  /\ client' = IF client.at = "gone" THEN client ELSE [client EXCEPT !.at = "gone", !.end = "cut"]
  /\ ended' = ended \cup {"all"} /\ call' = Abandoned
  /\ phase' = IF phase \in {"shell", "closing"} THEN phase ELSE "closed"
  /\ UNCHANGED <<sealIn, sealOut, tries, chan, pend, obuf, flow>>

(***************************************************************************)
(* The client.                                                             *)
(***************************************************************************)
\* It sends packets, and is c from now on.
ClientSays(c, packets) ==
  /\ client' = c /\ toServer' = toServer \o packets
  /\ UNCHANGED <<sessionVars, toClient, flow>>

ByClient(is, n) == <<Packet(is, n, client.sealOut)>>

Hello ==
  /\ client.at = "hello" /\ phase # "closed"
  /\ \E guess \in {"kexinit", "kexinit right", "kexinit wrong", "kexinit strange"} :
       ClientSays([client EXCEPT !.at = "offered", !.guess = guess],
                  ByClient(guess, 0) \o (CASE guess = "kexinit right" -> ByClient("ecdh", 0)
                                           [] guess = "kexinit wrong" -> ByClient("other", 0)
                                           [] OTHER -> <<>>))

LeftAs(how) == [client EXCEPT !.at = "gone", !.end = how]

Answered == {"accepted", "pk ok", "failure", "success", "confirmation", "open failure",
             "channel success", "channel failure", "request failure"}

\* What it makes of packet m: what it is from then on.
Understood(m) ==
  CASE m.is = "kexinit" -> [client EXCEPT !.at = "exchanging", !.guess = "none"]
    [] m.is = "reply" -> [client EXCEPT !.sealOut = TRUE]
    [] m.is = "newkeys" -> [client EXCEPT !.sealIn = TRUE]
    [] m.is = "adjust" -> [client EXCEPT !.credit = @ + m.n]
    [] m.is = "data" -> [client EXCEPT !.heard = @ + m.n]
    [] m.is = "close" -> [client EXCEPT !.saw = TRUE]
    [] m.is = "disconnect" -> LeftAs("told")
    [] m.is \in Answered ->
         [client EXCEPT !.asked = Tail(@), !.login = @ \/ m.is = "success",
                        !.asks = IF m.is = "success" THEN 0 ELSE @,
                        !.chan = @ \/ m.is = "confirmation",
                        !.credit = IF m.is = "confirmation" THEN m.n ELSE @]
    [] OTHER -> client

Listens ==
  /\ client.at \in {"offered", "exchanging"} /\ toClient # <<>>
  /\ LET m == Head(toClient)
     IN /\ client' = Understood(m)
        /\ toClient' = IF m.is = "disconnect" THEN <<>> ELSE Tail(toClient)
        /\ toServer' = toServer \o
             (CASE m.is = "kexinit" /\ client.guess # "kexinit right" -> ByClient("ecdh", 0)
                [] m.is = "reply" -> ByClient("newkeys", 0)
                [] OTHER -> <<>>)
  /\ UNCHANGED <<sessionVars, flow>>

Here == client.at = "exchanging" /\ phase # "closed"

\* One request at a time before the login, two after it.
AsksLogin ==
  /\ Here /\ client.sealOut /\ ~client.login /\ client.asked = <<>>
  /\ client.asks < sitting.logins
  /\ \E is \in Questions \cup Attempts \cup Proofs :
       ClientSays([client EXCEPT !.asked = <<is>>, !.asks = @ + 1], ByClient(is, 0))

AsksFor ==
  /\ Here /\ client.login /\ client.asks < sitting.asks /\ Len(client.asked) < 2
  /\ \E is \in {"open", "global"} \cup
              (IF client.chan THEN {"shell", "pty", "unknown", "change"} ELSE {}) :
       ClientSays([client EXCEPT !.asked = IF is = "change" THEN @ ELSE Append(@, is),
                                 !.asks = @ + 1],
                  ByClient(is, IF is = "open" THEN sitting.window ELSE 0))

\* What is typed, within the credit there is.
Types(n) ==
  /\ Here /\ client.chan /\ ~client.eof /\ n <= client.credit /\ client.typed + n <= sitting.typed
  /\ ClientSays([client EXCEPT !.typed = @ + n, !.credit = @ - n], ByClient("data", n))

TypesEof ==
  /\ Here /\ client.chan /\ ~client.eof
  /\ ClientSays([client EXCEPT !.eof = TRUE], ByClient("eof", 0))

\* It shows what it has heard, and gives the credit back.
Shows ==
  /\ client.at = "exchanging" /\ client.heard > 0
  /\ ClientSays([client EXCEPT !.heard = 0, !.shown = @ + client.heard],
                IF phase = "closed" \/ client.saw THEN <<>> ELSE ByClient("adjust", client.heard))

\* It hangs up once its only channel is closed and everything is shown; or it says
\* that it goes, or asks for new keys.
ClientLeaves ==
  \/ /\ client.at = "exchanging" /\ client.saw /\ client.heard = 0
     /\ ClientSays(LeftAs("closed"), <<>>)
  \/ /\ Here /\ client.login /\ ~client.saw
     /\ ClientSays(LeftAs("left"), ByClient("disconnect", 0))

Rekeys ==
  /\ Here /\ client.chan /\ client.asks < sitting.asks
  /\ ClientSays([client EXCEPT !.asks = sitting.asks], ByClient("rekey", 0))

ClientNext ==
  \/ Hello \/ Listens \/ AsksLogin \/ AsksFor \/ (\E n \in 1..MaxPayload : Types(n)) \/ TypesEof
  \/ Shows \/ ClientLeaves \/ Rekeys

SshNext ==
  /\ UNCHANGED sitting
  /\ \/ SetsUp \/ HandlesPacket
     \/ (\E n \in ReadSizes : ReadSsh(n)) \/ (\E n \in WriteSizes : WriteSsh(n))
     \/ Gather \/ SendData \/ GivesUp \/ ReadDone \/ ReadFails
     \/ CloseSsh \/ Farewell \/ DrainClient \/ PastDeadline \/ Cut
     \/ ClientNext

SshSpec == SshInit /\ [][SshNext]_sshVars

(***************************************************************************)
(* Properties.                                                             *)
(***************************************************************************)
\* Nobody has gone yet, and the channel carries bytes.
Talking == chan.open /\ client.at = "exchanging" /\ phase \in {"setup", "shell", "closing"}

\* Either end's idea of its credit is what the other has given and not seen
\* used: a window is what the client may still send, what is on its way, what
\* waits to be read, and what is on its way back.  So nothing typed is ever lost
\* for want of room (drv_ssh.c:459), as long as the driver need not read on for
\* credit of its own.
CreditAgrees ==
  /\ Talking =>
       /\ chan.mine = client.credit + Carried(toServer, {"data"}) + Unread + flow.lost
                      + Carried(toClient, {"adjust", "confirmation"})
       /\ chan.peers = sitting.window - client.heard - Carried(toClient, {"data"})
                       - Carried(toServer, {"adjust"})
  /\ sitting.window >= Ample => flow.lost = 0

\* What was asked and not yet answered is what is on its way, first the answers and
\* then the questions: each has one answer, in the order in which they were asked.
AnswersTo(is) ==
  CASE is = "service" -> {"accepted"} [] is = "known key" -> {"pk ok"}
    [] is \in {"none", "strange key"} \cup Attempts -> {"failure"} [] is \in Proofs -> {"success"}
    [] is = "open" -> {"confirmation", "open failure"} [] is = "global" -> {"request failure"}
    [] is \in {"shell", "pty"} -> {"channel success"} [] is = "unknown" -> {"channel failure"}

Answerable == {"open", "global", "shell", "pty", "unknown"} \cup Questions \cup Attempts \cup Proofs

\* Answers on their way, and behind them questions.
UnderWay == toClient \o toServer
Unsettled ==
  {i \in DOMAIN UnderWay :
     UnderWay[i].is \in (IF i <= Len(toClient) THEN Answered ELSE Answerable)}

RepliesMatch ==
  client.at = "exchanging" /\ phase \in {"auth", "setup", "shell", "closing"} /\ "all" \notin ended =>
    \E place \in [DOMAIN client.asked -> Unsettled] :
      /\ \A i, j \in DOMAIN client.asked : i < j => place[i] < place[j]
      /\ \A p \in Unsettled : \E i \in DOMAIN client.asked : place[i] = p
      /\ \A i \in DOMAIN client.asked :
           UnderWay[place[i]].is \in {client.asked[i]} \cup AnswersTo(client.asked[i])

\* A packet is read as it was sent, though either direction changes its keys at a
\* time of its own.
OpenedAsSealed ==
  /\ toServer # <<>> /\ phase # "draining" => Head(toServer).sealed = sealIn
  /\ toClient # <<>> /\ client.at # "gone" => Head(toClient).sealed = client.sealIn

\* The two ends of a session agree: on the credit, on what was asked and answered,
\* and on which packets are sealed.
SessionAgrees == CreditAgrees /\ RepliesMatch /\ OpenedAsSealed

\* A client that stays until its channel is closed has shown all that the
\* program wrote and was not told could not be said: "So the client is left to
\* close first, which proves everything before it arrived" (drv_ssh.c:592).
HeardToTheEnd ==
  client.saw /\ client.end \in {"closed", "told"} /\ ~flow.late =>
    client.shown + flow.unsaid = flow.said
=============================================================================
