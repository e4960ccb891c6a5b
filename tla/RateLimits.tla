----------------------------- MODULE RateLimits -----------------------------
(***************************************************************************)
(* The limits on what one client may send, each kept in a count and a time:*)
(* connections per IP (Login_Detect), text messages (packetSent), game     *)
(* packets (pps24), and packets of an unknown type with private messages,  *)
(* which share lastPacketTime.  None looks at a sliding window: a count    *)
(* starts at some message and is thrown away at a later one.  The four     *)
(* limits share no state with each other, so a behaviour has the traffic   *)
(* of one limit, from one IP or one Player.                                *)
(***************************************************************************)
EXTENDS Integers, FiniteSetsExt

CONSTANTS Window,      \* the length of the window, in units of the clock
          LoginLimit,  \* connections in a window (5)
          TextLimit,   \* the text message of a window that ends the session (10)
          PacketLimit, \* the game packet after the first that is not handled (50)
          MoveLimit,   \* the same for the end of the session, if it is a movement (500)
          IntSize,     \* the number of values of an int (2^32)
          MaxTime, MaxAtOnce  \* bounds

ASSUME RateLimitsAssumption ==
    /\ {Window, LoginLimit, TextLimit, PacketLimit, MoveLimit, MaxTime, MaxAtOnce} \subseteq Nat
    /\ 0 < Window /\ Window < MaxTime
    /\ IntSize \in Nat \ {0} /\ IntSize % 2 = 0 /\ IntSize \div 2 <= Window + 1
    /\ 1 < TextLimit /\ 0 < PacketLimit /\ PacketLimit < MoveLimit

VARIABLES traffic,  \* the limit that the traffic meets
          now,
          start,    \* lastCheckTime, lastActionSent, lpps24 or lastPacketTime
          count,    \* loginAttempts[ip], totalActionSent or pps24
          verdict,  \* what was done with the last message
          arrived, handled  \* history: messages at each time, all and handled ones

vars == <<traffic, now, start, count, verdict, arrived, handled>>

Times == 0..MaxTime
Kinds == {"login", "text", "packet", "unknown"}

\* The server has been running for longer than the window, and the time is
\* beyond what an int holds.
Init ==
    /\ traffic \in Kinds
    /\ now = Window + 1
    /\ start = 0 /\ count = 0
    /\ verdict = "none"
    /\ arrived = [t \in Times |-> 0] /\ handled = [t \in Times |-> 0]

\* A message comes and is handled, dropped, or the end of the session.
Message(kind, v) ==
    /\ traffic = kind /\ verdict # "kick"
    /\ verdict' = v
    /\ arrived' = [arrived EXCEPT ![now] = @ + 1]
    /\ handled' = [handled EXCEPT ![now] = IF v = "handle" THEN @ + 1 ELSE @]
    /\ UNCHANGED <<traffic, now>>

\* The window is over, for all IPs.
Elapsed == now - start >= Window

\* Does not note when the counts were cleared.
LoginAttemptMutant ==
    LET n == IF Elapsed THEN 1 ELSE count + 1
    IN /\ arrived[now] < MaxAtOnce
       /\ count' = n /\ start' = start
       /\ Message("login", IF n > LoginLimit THEN "refuse" ELSE "handle")

\* A connection from the IP.  A refused one counts too, and ends.
LoginAttempt ==
    LET n == IF Elapsed THEN 1 ELSE count + 1
    IN /\ arrived[now] < MaxAtOnce
       /\ count' = n
       /\ start' = IF Elapsed THEN now ELSE start
       /\ Message("login", IF n > LoginLimit THEN "refuse" ELSE "handle")

\* A connection from another IP clears the counts of all.
LoginAttemptOther ==
    /\ traffic = "login" /\ Elapsed
    /\ count' = 0 /\ start' = now
    /\ UNCHANGED <<traffic, now, verdict, arrived, handled>>

\* What is left of a number in an int.
ToInt(x) == ((x + (IntSize \div 2)) % IntSize) - (IntSize \div 2)

\* start is the end of the window here, 0 when there is none.  The first
\* message behind the end closes the window and is not counted.  lastActionSent
\* is an int: the milliseconds since 1970 do not fit, so every message finds
\* the window closed.
TextMessage ==
    LET until == IF start = 0 THEN ToInt(now + Window) ELSE start
        n == IF until >= now THEN count + 1 ELSE 0
    IN /\ arrived[now] < MaxAtOnce
       /\ count' = n
       /\ start' = IF until >= now THEN until ELSE 0
       /\ Message("text", IF n >= TextLimit THEN "kick" ELSE "handle")

\* Movements beyond PacketLimit are dropped until MoveLimit; 15, the limit the
\* code starts from for the others, is below PacketLimit and never matters.
GamePacket(movement) ==
    LET n == IF start + Window < now THEN 0 ELSE count + 1
    IN /\ count' = n
       /\ start' = IF start + Window < now THEN now ELSE start
       /\ Message("packet", IF n < PacketLimit THEN "handle"
                            ELSE IF movement /\ n < MoveLimit THEN "drop" ELSE "kick")

\* A packet of an unknown type ends the session if lastPacketTime is recent.
UnknownPacket ==
    /\ count' = 0
    /\ start' = IF now - start < Window THEN start ELSE now
    /\ Message("unknown", IF now - start < Window THEN "kick" ELSE "handle")

\* The time of an attempt that is turned down is noted as well.
Send_MessageMutant ==
    /\ arrived[now] < MaxAtOnce
    /\ count' = 0 /\ start' = now
    /\ Message("unknown", IF now - start < Window THEN "drop" ELSE "handle")

\* A private message is turned down ("Slow Down!") in the same case, and sets
\* lastPacketTime otherwise.
Send_Message ==
    /\ arrived[now] < MaxAtOnce
    /\ count' = 0
    /\ start' = IF now - start < Window THEN start ELSE now
    /\ Message("unknown", IF now - start < Window THEN "drop" ELSE "handle")

Tick ==
    /\ now < MaxTime
    /\ now' = now + 1
    /\ UNCHANGED <<traffic, start, count, verdict, arrived, handled>>

Next == \/ LoginAttempt \/ LoginAttemptOther
        \/ TextMessage
        \/ \E movement \in BOOLEAN : GamePacket(movement)
        \/ UnknownPacket \/ Send_Message
        \/ Tick

Spec == Init /\ [][Next]_vars
-----------------------------------------------------------------------------
(* Properties.                                                             *)

Total(f, first, last) ==
    FoldSet(LAMBDA t, n : n + f[t], 0, {t \in Times : first <= t /\ t <= last})

\* Nobody is refused or thrown out for messages that lie further apart than
\* the limit says: wherever the window began, as many messages as it takes have
\* come in the time just before.  For an unknown packet that is one that was
\* logged, or a private message that was sent, not one that was turned down.
KickIsSpam ==
    [][(arrived' # arrived /\ verdict' \in {"refuse", "kick"}) =>
         CASE traffic = "login" -> Total(arrived', now - Window + 1, now) > LoginLimit
           [] traffic = "text" -> Total(arrived', now - Window, now) >= TextLimit
           [] traffic = "packet" -> Total(arrived', now - Window, now) > PacketLimit
           [] traffic = "unknown" -> Total(handled, now - Window + 1, now) >= 1]_vars

\* A client that keeps moving its messages to where a window ends gets at most
\* about twice the limit through in a time as long as the window.  There is no
\* bound for text messages: the code has a limit that never applies.
HandledBound ==
    \A t \in Times : traffic # "text" => Total(handled, t, t + Window - 1) <=
        CASE traffic = "login" -> 2 * LoginLimit
          [] traffic = "packet" -> 2 * PacketLimit - 1
          [] traffic = "unknown" -> 1
=============================================================================
