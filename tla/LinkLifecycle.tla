--------------------------- MODULE LinkLifecycle ---------------------------
(***************************************************************************)
(* What a mobile Gateway client promises about its link, whatever the      *)
(* threads and timers behind it do: one socket at a time, a dropped socket *)
(* is replaced after a wait and never alongside a living one, and nothing  *)
(* is dialled once the client has been stopped.                            *)
(***************************************************************************)
CONSTANTS Socket,    \* every connection the client may ever open
          NoSocket   \* the link before the first dial

VARIABLES phase,     \* where the link stands
          link,      \* the socket dialled last
          used       \* every socket dialled so far

linkVars == <<phase, link, used>>

LinkInit ==
  /\ phase = "idle"
  /\ link = NoSocket
  /\ used = {}

Dial ==
  /\ phase \in {"idle", "waiting"}
  /\ phase' = "dialing"
  /\ link' \in Socket \ used
  /\ used' = used \cup {link'}

Authenticate ==
  /\ phase = "dialing"
  /\ phase' = "online"
  /\ UNCHANGED <<link, used>>

Drop ==
  /\ phase \in {"dialing", "online"}
  /\ phase' = "waiting"
  /\ UNCHANGED <<link, used>>

Stop ==
  /\ phase \in {"dialing", "online", "waiting"}
  /\ phase' = "stopped"
  /\ UNCHANGED <<link, used>>

LinkNext == Dial \/ Authenticate \/ Drop \/ Stop

LinkSpec == LinkInit /\ [][LinkNext]_linkVars
=============================================================================
