------------------------------- MODULE RvLink -------------------------------
(***************************************************************************)
(* The network driver (components/rv9_io/src/drv_net.c): keeping a link,   *)
(* not just making one.  Its state is written by handlers that run one     *)
(* after another on the host's event task, and by a process that asks for  *)
(* a network, a few words at a time.  The radio is the host's.             *)
(*                                                                         *)
(* A handler is one action.  Time goes by with the tick of the watch, of   *)
(* TICK_MS: an attempt, a wait before the next and the window in which a   *)
(* disconnect is taken for our own are counted in it.                      *)
(***************************************************************************)
EXTENDS Integers, Sequences

CONSTANTS
  Networks, InRange,       \* the names a process may ask for, and those that answer
  NoNetwork,
  MAX_RETRIES,
  Stall,                   \* CONNECT_STALL_MS, in ticks
  BackoffFirst, BackoffMax,  \* BACKOFF_FIRST_MS and BACKOFF_MAX_MS, in ticks
  MaxPosted,               \* bound: events posted and not handled
  MaxAsks,                 \* bound: what processes ask
  Prompt,                  \* the event task goes before whoever asks
  MayRefuse,               \* esp_wifi_set_config may fail
  Steady                   \* no link is lost within LEAVE_WINDOW_MS of being asked for

VARIABLES
  link,      \* net_t: state, creds, wanted, retries, kicked, leave, and in ticks
             \* since (attempt_ms), backoff, retry (retry_at_ms)
  saved,     \* the network in NVS
  radio,     \* is, and the network it is set to and is trying or on
  posted,    \* events for the event task, oldest first
  asking,    \* where whoever asks is, for what, and whether to remember it
  asks

linkVars == <<link, saved, radio, posted, asking, asks>>

ASSUME LinkAssumption ==
  /\ InRange \subseteq Networks /\ NoNetwork \notin Networks
  /\ MAX_RETRIES \in Nat /\ Stall \in Nat /\ BackoffFirst \in Nat /\ BackoffMax \in Nat

NotAsking == [at |-> "home", net |-> NoNetwork, keep |-> FALSE]

\* net_init connects to the network that was remembered.
LinkInit ==
  /\ link = [state |-> "down", creds |-> NoNetwork, wanted |-> FALSE, retries |-> 0,
             kicked |-> FALSE, leave |-> "no", since |-> 0, backoff |-> 0, retry |-> 0]
  /\ saved \in Networks \cup {NoNetwork}
  /\ radio = [is |-> "idle", set |-> NoNetwork, on |-> NoNetwork]
  /\ posted = <<>>
  /\ asking = IF saved = NoNetwork THEN NotAsking ELSE [at |-> "leave", net |-> saved, keep |-> FALSE]
  /\ asks = 0

(***************************************************************************)
(* The radio.                                                              *)
(***************************************************************************)
\* esp_wifi_connect: refused while an attempt is under way or made.
Connecting(r) == IF r.is = "idle" THEN [r EXCEPT !.is = "trying", !.on = r.set] ELSE r

\* esp_wifi_disconnect, and whether its event comes: an attempt that had stopped
\* may end without.
Parted(r) == [r EXCEPT !.is = "idle"]
PartingEvents(r) ==
  CASE r.is = "idle" -> {<<>>}
    [] r.is = "stuck" -> {<<>>, <<"disconnected">>}
    [] OTHER -> {<<"disconnected">>}

Room(es) == Len(posted) + Len(es) <= MaxPosted

RadioGoes(from, to, es) ==
  /\ radio.is = from /\ Room(es)
  /\ radio' = [radio EXCEPT !.is = to] /\ posted' = posted \o es
  /\ UNCHANGED <<link, saved, asking, asks>>

Joins == radio.on \in InRange /\ RadioGoes("trying", "joined", <<>>)
Leases == RadioGoes("joined", "leased", <<"got_ip">>)
Fails == RadioGoes("trying", "idle", <<"disconnected">>)
Loses ==
  /\ Steady => link.leave \notin {"fresh", "old"}
  /\ \E is \in {"joined", "leased"} : RadioGoes(is, "idle", <<"disconnected">>)
Sticks == RadioGoes("trying", "stuck", <<>>)

(***************************************************************************)
(* The handlers.                                                           *)
(***************************************************************************)
Attempt(k) == [k EXCEPT !.since = 0, !.kicked = FALSE]

\* A disconnect of our own, on the way to another network.
Leaving(k) == k.leave \in {"fresh", "old"}

\* on_wifi_event, of WIFI_EVENT_STA_DISCONNECTED.
OnDisconnected ==
  IF Leaving(link)
  THEN /\ link' = [link EXCEPT !.leave = "no"] /\ UNCHANGED <<radio, saved>>
  ELSE IF ~link.wanted
  THEN /\ link' = [link EXCEPT !.state = "down"] /\ UNCHANGED <<radio, saved>>
  ELSE IF link.retries < MAX_RETRIES
  THEN /\ link' = Attempt([link EXCEPT !.retries = @ + 1, !.state = "connecting"])
       /\ radio' = Connecting(radio) /\ UNCHANGED saved
  ELSE LET b == IF link.backoff = 0 THEN BackoffFirst ELSE link.backoff
       IN /\ link' = [link EXCEPT !.state = "failed", !.backoff = b, !.retry = b]
          /\ UNCHANGED <<radio, saved>>

OnGotIp ==
  /\ link' = [link EXCEPT !.state = "up", !.retries = 0, !.kicked = FALSE, !.backoff = 0]
  /\ UNCHANGED <<radio, saved>>

\* net_connect by on_tick, after giving up: nothing to leave.
Again(k, n) ==
  Attempt([k EXCEPT !.creds = n, !.wanted = TRUE, !.retries = 0, !.state = "connecting",
                    !.backoff = IF 2 * @ > BackoffMax THEN BackoffMax ELSE 2 * @])

\* Bug: the restart is tried again, and never the direct way.
KickedTwice(k) == FALSE

\* The attempt was restarted and even that brought nothing.
Kicked(k) == k.kicked

OnTick ==
  /\ UNCHANGED saved
  /\ \/ /\ link.wanted /\ link.state = "connecting" /\ link.since >= Stall
        /\ IF Kicked(link)
           THEN link' = Attempt(link) /\ radio' = Connecting(radio)
           ELSE link' = [link EXCEPT !.since = 0, !.kicked = TRUE] /\ radio' = Parted(radio)
     \/ /\ link.wanted /\ link.state = "failed" /\ link.retry = 0
        /\ LET n == IF saved # NoNetwork THEN saved ELSE link.creds
           IN \/ /\ link' = Again(link, n)
                 /\ radio' = Connecting([Parted(radio) EXCEPT !.set = n])
              \/ /\ MayRefuse
                 /\ link' = [link EXCEPT !.backoff = IF 2 * @ > BackoffMax THEN BackoffMax ELSE 2 * @]
                 /\ radio' = Parted(radio)
     \/ /\ ~link.wanted \/ ~\/ link.state = "connecting" /\ link.since >= Stall
                            \/ link.state = "failed" /\ link.retry = 0
        /\ UNCHANGED <<link, radio>>

\* What a disconnect of the handler's own posts goes behind what is there.
Handle ==
  /\ posted # <<>>
  /\ CASE Head(posted) = "disconnected" -> OnDisconnected
       [] Head(posted) = "got_ip" -> OnGotIp
       [] OTHER -> OnTick
  /\ \E es \in IF radio.is # "idle" /\ radio'.is # radio.is THEN PartingEvents(radio) ELSE {<<>>} :
       posted' = Tail(posted) \o es
  /\ UNCHANGED <<asking, asks>>

\* tick_cb; a tick that finds no room is lost.
TickOfWatch ==
  /\ link' = [link EXCEPT !.since = IF @ < Stall THEN @ + 1 ELSE @,
                          !.retry = IF @ > 0 THEN @ - 1 ELSE 0,
                          !.leave = CASE @ = "fresh" -> "old" [] @ = "old" -> "past" [] OTHER -> @]
  /\ posted' = IF Room(<<"tick">>) /\ "tick" \notin {posted[i] : i \in DOMAIN posted}
               THEN Append(posted, "tick") ELSE posted
  /\ UNCHANGED <<saved, radio, asking, asks>>

\* LEAVE_WINDOW_MS goes by.
WindowEnds ==
  /\ Leaving(link) /\ link' = [link EXCEPT !.leave = "past"]
  /\ UNCHANGED <<saved, radio, posted, asking, asks>>

(***************************************************************************)
(* net_setstat, by a process; net_connect.                                 *)
(***************************************************************************)
MayGo == Prompt => posted = <<>>

\* RV9_NET_SS_CONNECT, which remembers the network, and RV9_NET_SS_TRY.
Ask(n, keep) ==
  /\ MayGo /\ asking.at = "home" /\ asks < MaxAsks
  /\ asks' = asks + 1 /\ asking' = [at |-> "leave", net |-> n, keep |-> keep]
  /\ link' = [link EXCEPT !.backoff = 0]
  /\ UNCHANGED <<saved, radio, posted>>

MarkLeaving ==
  /\ MayGo /\ asking.at = "leave" /\ asking' = [asking EXCEPT !.at = "part"]
  /\ link' = [link EXCEPT !.leave = IF link.state \in {"up", "connecting"} THEN "fresh" ELSE @]
  /\ UNCHANGED <<saved, radio, posted, asks>>

Part(at, to) ==
  /\ MayGo /\ asking.at = at /\ asking' = [asking EXCEPT !.at = to]
  /\ \E es \in PartingEvents(radio) : Room(es) /\ posted' = posted \o es
  /\ radio' = Parted(radio)
  /\ UNCHANGED <<link, saved, asks>>

Configure ==
  /\ MayGo /\ asking.at = "config"
  /\ \/ /\ radio' = [radio EXCEPT !.set = asking.net]
        /\ asking' = [asking EXCEPT !.at = "setup"]
     \/ MayRefuse /\ asking' = NotAsking /\ UNCHANGED radio
  /\ UNCHANGED <<link, saved, posted, asks>>

SetUp ==
  /\ MayGo /\ asking.at = "setup" /\ asking' = [asking EXCEPT !.at = "connect"]
  /\ link' = Attempt([link EXCEPT !.creds = asking.net, !.wanted = TRUE, !.retries = 0,
                                  !.state = "connecting"])
  /\ UNCHANGED <<saved, radio, posted, asks>>

Connect ==
  /\ MayGo /\ asking.at = "connect"
  /\ radio' = Connecting(radio)
  /\ asking' = IF radio.is = "idle" /\ asking.keep THEN [asking EXCEPT !.at = "save"] ELSE NotAsking
  /\ UNCHANGED <<link, saved, posted, asks>>

Save ==
  /\ MayGo /\ asking.at = "save" /\ asking' = NotAsking /\ saved' = asking.net
  /\ UNCHANGED <<link, radio, posted, asks>>

\* RV9_NET_SS_FORGET.
Forget ==
  /\ MayGo /\ asking.at = "home" /\ asks < MaxAsks /\ asks' = asks + 1
  /\ saved' = NoNetwork /\ UNCHANGED <<link, radio, posted, asking>>

\* RV9_NET_SS_DISCONNECT: wanted no more, before the call, so that its event does
\* not retry.
AskNoMore ==
  /\ MayGo /\ asking.at = "home" /\ asks < MaxAsks /\ asks' = asks + 1
  /\ asking' = [asking EXCEPT !.at = "drop"] /\ link' = [link EXCEPT !.wanted = FALSE]
  /\ UNCHANGED <<saved, radio, posted>>

Dropped ==
  /\ MayGo /\ asking.at = "down" /\ asking' = NotAsking /\ link' = [link EXCEPT !.state = "down"]
  /\ UNCHANGED <<saved, radio, posted, asks>>

Calls ==
  \/ MarkLeaving \/ Part("part", "config") \/ Configure \/ SetUp \/ Connect
  \/ Save \/ Part("drop", "down") \/ Dropped

LinkNext ==
  \/ Joins \/ Leases \/ Fails \/ Loses \/ Sticks
  \/ Handle \/ TickOfWatch \/ WindowEnds
  \/ \E n \in Networks, keep \in BOOLEAN : Ask(n, keep)
  \/ Calls \/ Forget \/ AskNoMore

\* The event task and the timer run, a call goes on, and an attempt started again
\* and again is answered at some time.
LinkFairness ==
  /\ WF_linkVars(Handle) /\ WF_linkVars(TickOfWatch) /\ WF_linkVars(Calls)
  /\ SF_linkVars(Joins) /\ SF_linkVars(Leases) /\ SF_linkVars(radio.on \notin InRange /\ Fails)

LinkSpec == LinkInit /\ [][LinkNext]_linkVars /\ LinkFairness

(***************************************************************************)
(* Properties.                                                             *)
(***************************************************************************)
\* Who is left alone with a network that answers, remembered or asked for.
LeftAlone ==
  /\ asks = MaxAsks /\ asking = NotAsking /\ link.wanted
  /\ IF saved = NoNetwork THEN link.creds \in InRange ELSE saved \in InRange

\* "A link that stays up": whatever became of attempts, and in whatever order
\* their events came, a board that wants a link gets one, to the network it was
\* told or, where that does not answer, to the one it remembers; and the driver
\* does not say that one is up when there is none and no event on its way to tell.
LinkComesBack ==
  /\ LeftAlone ~> (link.state = "up" /\ radio.on \in InRange)
  /\ [](link.state = "up" /\ posted = <<>> /\ asking = NotAsking => radio.is = "leased")
=============================================================================
